--------------------------- MODULE ProjectsProofs ---------------------------
(***************************************************************************)
(* Safety of the projects component, for any number of users,              *)
(* organizations, projects, tasks and concurrent requests.                 *)
(*                                                                         *)
(* No handler of this component takes a lock before it decides.  What      *)
(* saves it is that the tables it reads only ever grow: a membership, a    *)
(* project, its organization, its being archived and a task, once          *)
(* committed, stay.  So what a request has found out is still true when    *)
(* it acts, and Fate says what each request may rely on.                   *)
(***************************************************************************)
EXTENDS Projects, FiniteSetTheorems, TLAPS

Writing(r) == call[r].op \in {"create", "archive"}

\* Where a request stands, what it was asked and what it has done.
Progress(r) ==
    /\ pc[r] # "idle" => call[r] \in Call
    /\ pc[r] = "load" => call[r].op \in {"archive", "listTasks"}
    /\ pc[r] = "insert" => call[r].op = "create"
    /\ pc[r] = "archive" => call[r].op = "archive"
    /\ pc[r] = "commit" => Writing(r)
    /\ pc[r] \in {"page", "count"} => ~Writing(r)
    /\ page[r] # {} => pc[r] \in {"count", "respond", "done"} /\ ~Writing(r)
    /\ answer[r] # "none" => pc[r] = "done"
    /\ r \in committed => pc[r] \in {"respond", "done"} /\ Writing(r)
    /\ pc[r] = "respond" /\ Writing(r) => r \in committed
    /\ answer[r] = "ok" /\ Writing(r) => r \in committed
    /\ answer[r] \in Refusals => r \notin committed

\* The row a request writes: absent until a creation commits, and read by
\* an archiving before it goes on.
Row(r) ==
    /\ pc[r] \in {"auth", "check", "insert", "commit"} /\ call[r].op = "create" =>
         projects[call[r].project] = NoProject
    /\ pc[r] \in {"check", "archive", "commit"} /\ call[r].op = "archive" =>
         projects[call[r].project] # NoProject
    /\ r \in committed =>
         /\ projects[call[r].project] # NoProject
         /\ call[r].op = "archive" => Archived(call[r].project)

\* What check_role has found, and what it means once the write is committed.
Role(r) ==
    /\ pc[r] \in {"insert", "archive", "commit"} =>
         CheckRole(members, call[r].user, OrgOf(r), "admin")
    /\ r \in committed =>
         CheckRole(members, call[r].user, projects[call[r].project].org, "admin")

\* An archiving that comes too late gets no further than the load.
Late(r) ==
    pc[r] # "idle" /\ call[r].op = "archive" /\ call[r].project \in before[r] =>
        /\ Archived(call[r].project)
        /\ pc[r] \in {"auth", "load", "done"}
        /\ r \notin committed /\ answer[r] # "ok"

\* 400 names a culprit.
Blame(r) ==
    answer[r] = "already_archived" =>
        \E q \in committed \ {r} :
            call[q].op = "archive" /\ call[q].project = call[r].project

\* The page lies within the rows there are when the total is counted.
Position(r) ==
    page[r] # {} =>
        /\ IsFiniteSet(page[r])
        /\ pc[r] = "count" =>
             call[r].offset + Cardinality(page[r]) <= Cardinality(Listed(r))
        /\ pc[r] = "respond" \/ answer[r] = "ok" =>
             call[r].offset + Cardinality(page[r]) <= total[r]

Fate(r) == Progress(r) /\ Row(r) /\ Role(r) /\ Late(r) /\ Blame(r) /\ Position(r)

\* No two requests create one project.
ProjectsApart ==
    \A r, q \in Requests :
        /\ r # q
        /\ pc[r] # "idle" /\ call[r].op = "create"
        /\ pc[q] # "idle" /\ call[q].op = "create"
        => call[r].project # call[q].project

\* A project is archived by a request.
ArchivedBySomebody ==
    \A p \in ProjectIds : Archived(p) =>
        \E q \in committed : call[q].op = "archive" /\ call[q].project = p

\* Only finitely many rows have been committed, whatever the identifiers.
Rows == {p \in ProjectIds : projects[p] # NoProject}
TaskRows == {t \in Tasks : tasks[t] # NoProject}
FinitelyManyRows == IsFiniteSet(Rows) /\ IsFiniteSet(TaskRows)

IndInv ==
    /\ TypeOK
    /\ ProjectsApart
    /\ ArchivedBySomebody
    /\ FinitelyManyRows
    /\ \A r \in Requests : Fate(r)

-----------------------------------------------------------------------------
(* What the steps have in common.                                          *)

\* The committed tables only grow.
TablesGrow ==
    /\ members \subseteq members'
    /\ \A p \in ProjectIds : projects[p] # NoProject =>
         /\ projects'[p] # NoProject
         /\ projects'[p].org = projects[p].org
         /\ projects[p].archived => projects'[p].archived
    /\ \A t \in Tasks : tasks[t] # NoProject => tasks'[t] = tasks[t]

\* Nothing of request q changes.
Untouched(q) ==
    /\ pc'[q] = pc[q] /\ call'[q] = call[q] /\ page'[q] = page[q]
    /\ total'[q] = total[q] /\ answer'[q] = answer[q] /\ before'[q] = before[q]
    /\ q \in committed' <=> q \in committed

\* A project that appears is created by r.
NewRowsOf(r) ==
    \A p \in ProjectIds : projects[p] = NoProject /\ projects'[p] # NoProject =>
        call[r].op = "create" /\ pc[r] # "idle" /\ call[r].project = p

\* No request that has committed has its call changed.
CommittedStay ==
    /\ committed \subseteq committed'
    /\ \A q \in committed : call'[q] = call[q]

\* A check of a role that has succeeded would succeed again.
LEMMA RolesStay ==
    ASSUME NEW u, NEW o, NEW role, members \subseteq members',
           CheckRole(members, u, o, role)
    PROVE  CheckRole(members', u, o, role)
  BY DEF CheckRole, MembershipOf

\* The rows of a WHERE clause are finitely many and stay.
LEMMA ListedFinite ==
    ASSUME IndInv, NEW r \in Requests, pc[r] # "idle"
    PROVE  IsFiniteSet(Listed(r)) /\ Cardinality(Listed(r)) \in Nat
<1>1. call[r] \in Call
  BY DEF IndInv, Fate, Progress
<1>2. Listed(r) \subseteq Rows \/ Listed(r) \subseteq TaskRows
  BY <1>1, NoProjectIsNone DEF Listed, Rows, TaskRows, Call
<1> QED
  BY <1>2, FS_Subset, FS_CardinalityType DEF IndInv, FinitelyManyRows

LEMMA ListedGrows ==
    ASSUME IndInv, TablesGrow, FinitelyManyRows', NEW r \in Requests, pc[r] # "idle",
           call'[r] = call[r]
    PROVE  /\ IsFiniteSet(Listed(r)')
           /\ Cardinality(Listed(r)') \in Nat
           /\ Cardinality(Listed(r)) <= Cardinality(Listed(r)')
<1>1. call[r] \in Call
  BY DEF IndInv, Fate, Progress
<1>2. Listed(r) \subseteq Listed(r)'
  BY <1>1, NoProjectIsNone DEF TablesGrow, Listed, Call
<1>3. Listed(r)' \subseteq Rows' \/ Listed(r)' \subseteq TaskRows'
  BY <1>1, NoProjectIsNone DEF Listed, Rows, TaskRows, Call
<1>4. IsFiniteSet(Listed(r)')
  BY <1>3, FS_Subset DEF FinitelyManyRows
<1> QED
  BY <1>2, <1>4, FS_Subset, FS_CardinalityType

\* What one request does leaves the others where they were.
LEMMA FateStays ==
    ASSUME IndInv, TablesGrow, CommittedStay, FinitelyManyRows',
           NEW r \in Requests, NewRowsOf(r), pc[r] # "idle",
           NEW q \in Requests \ {r}, Untouched(q)
    PROVE  Fate(q)'
<1>1. Fate(q) /\ committed \subseteq Requests
  BY DEF IndInv, TypeOK
<1>2. Progress(q)'
  BY <1>1 DEF Fate, Progress, Writing, Untouched
<1>3. Row(q)'
  BY <1>1 DEF Fate, Progress, Row, Archived, Call, Untouched, TablesGrow, NewRowsOf,
              IndInv, ProjectsApart
<1>4. Role(q)'
  <2>1. pc[q] \in {"insert", "archive", "commit"} => OrgOf(q)' = OrgOf(q)
    BY <1>1 DEF Fate, Progress, Row, Writing, OrgOf, Call, Untouched, TablesGrow
  <2>2. q \in committed =>
          projects'[call[q].project].org = projects[call[q].project].org
    BY <1>1 DEF Fate, Progress, Row, Call, TablesGrow
  <2> QED
    BY <1>1, <2>1, <2>2, RolesStay DEF Fate, Role, Untouched, TablesGrow
<1>5. Late(q)'
  BY <1>1 DEF Fate, Progress, Late, Archived, Call, Untouched, TablesGrow
<1>6. Blame(q)'
  BY <1>1 DEF Fate, Blame, Untouched, CommittedStay
<1>7. Position(q)'
  <2>1. CASE page[q] = {}
    BY <2>1 DEF Position, Untouched
  <2>2. CASE page[q] # {}
    <3>1. pc[q] # "idle" /\ call[q].offset \in Int
      BY <1>1, <2>2 DEF Fate, Progress, Call
    <3>2. /\ Cardinality(Listed(q)) \in Nat /\ Cardinality(Listed(q)') \in Nat
          /\ Cardinality(Listed(q)) <= Cardinality(Listed(q)')
      BY <3>1, ListedFinite, ListedGrows DEF Untouched
    <3>3. Cardinality(page[q]) \in Nat
      BY <1>1, <2>2, FS_CardinalityType DEF Fate, Position
    <3> QED
      BY <1>1, <2>2, <3>1, <3>2, <3>3 DEF Fate, Position, Untouched
  <2> QED
    BY <2>1, <2>2
<1> QED
  BY <1>2, <1>3, <1>4, <1>5, <1>6, <1>7 DEF Fate

\* So it is enough to follow the request that takes the step.
LEMMA StepIndInv ==
    ASSUME IndInv, TypeOK', TablesGrow, CommittedStay, ProjectsApart',
           ArchivedBySomebody', FinitelyManyRows',
           NEW r \in Requests, NewRowsOf(r), pc[r] # "idle",
           \A q \in Requests \ {r} : Untouched(q),
           Fate(r)'
    PROVE  IndInv'
<1>1. \A q \in Requests \ {r} : Fate(q)'
  BY FateStays
<1> QED
  BY <1>1 DEF IndInv

\* A step that leaves the tables alone, and what was committed.
LEMMA QuietIndInv ==
    ASSUME IndInv, TypeOK', UNCHANGED <<tables, call, committed>>,
           NEW r \in Requests, pc[r] # "idle", pc'[r] # "idle",
           \A q \in Requests \ {r} : Untouched(q),
           Fate(r)'
    PROVE  IndInv'
<1>1. TablesGrow /\ CommittedStay /\ NewRowsOf(r)
  BY DEF tables, TablesGrow, CommittedStay, NewRowsOf
<1>2. ProjectsApart' /\ ArchivedBySomebody' /\ FinitelyManyRows'
  BY DEF tables, Untouched, IndInv, ProjectsApart, ArchivedBySomebody, Archived,
         FinitelyManyRows, Rows, TaskRows
<1> QED
  BY <1>1, <1>2, StepIndInv

\* What a step that reads leaves true of its request.
LEMMA ReadKeeps ==
    ASSUME IndInv, NEW r \in Requests, pc[r] # "idle", pc[r] # "done",
           UNCHANGED <<tables, call, committed, page, total, before>>
    PROVE  /\ Archived(call[r].project)' = Archived(call[r].project)
           /\ OrgOf(r)' = OrgOf(r)
           /\ Listed(r)' = Listed(r)
           /\ answer[r] = "none"
           /\ call[r] \in Call
  BY DEF tables, Archived, OrgOf, Listed, IndInv, Fate, Progress

LEMMA InitIndInv == Init => IndInv
<1> SUFFICES ASSUME Init PROVE IndInv
  OBVIOUS
<1>1. TypeOK
  BY DEF Init, TypeOK
<1>2. ProjectsApart /\ ArchivedBySomebody
  BY DEF Init, ProjectsApart, ArchivedBySomebody, Archived
<1>3. FinitelyManyRows
  <2>1. Rows = {} /\ TaskRows = {}
    BY DEF Init, Rows, TaskRows
  <2> QED
    BY <2>1, FS_EmptySet DEF FinitelyManyRows
<1>4. ASSUME NEW r \in Requests PROVE Fate(r)
  BY <1>4 DEF Init, Fate, Progress, Row, Role, Late, Blame, Position, Refusals
<1> QED
  BY <1>1, <1>2, <1>3, <1>4 DEF IndInv

\* A request that is rolled back, for a reason.
LEMMA RollbackIndInv ==
    ASSUME IndInv, NEW r \in Requests, pc[r] \notin {"idle", "done"},
           NEW a \in Refusals \cup {"error", "aborted"}, Rollback(r, a),
           a \in Refusals => pc[r] # "respond",
           a = "already_archived" => pc[r] = "load" /\ Archived(call[r].project)
    PROVE  IndInv'
<1>1. TypeOK'
  BY DEF Rollback, tables, IndInv, TypeOK
<1>2. pc'[r] = "done" /\ answer'[r] = a
  BY DEF Rollback, IndInv, TypeOK
<1>3. \A q \in Requests \ {r} : Untouched(q)
  BY DEF Rollback, Untouched, IndInv, TypeOK
<1>4. Fate(r)
  BY DEF IndInv
<1>5. Fate(r)'
  <2>1. UNCHANGED <<tables, call, committed, page, total, before>>
    BY DEF Rollback
  <2>2. Progress(r)' /\ a # "ok"
    BY <1>2, <1>4, <2>1 DEF Fate, Progress, Writing, Refusals
  <2>3. Row(r)' /\ Late(r)' /\ Role(r)'
    BY <1>2, <1>4, <2>1, <2>2 DEF Fate, Row, Late, Role, Archived, tables
  <2>4. Blame(r)'
    <3>1. CASE a = "already_archived"
      <4>1. call[r].project \in ProjectIds
        BY <1>4 DEF Fate, Progress, Call
      <4>2. PICK q \in committed : call[q].op = "archive" /\ call[q].project = call[r].project
        BY <3>1, <4>1 DEF IndInv, ArchivedBySomebody
      <4>3. q # r
        BY <1>4, <3>1 DEF Fate, Progress
      <4> QED
        BY <2>1, <4>2, <4>3 DEF Blame
    <3>2. CASE a # "already_archived"
      BY <1>2, <3>2 DEF Blame
    <3> QED
      BY <3>1, <3>2
  <2>5. Position(r)'
    BY <1>2, <1>4, <2>1, <2>2 DEF Fate, Position
  <2> QED
    BY <2>2, <2>3, <2>4, <2>5 DEF Fate
<1> QED
  BY <1>1, <1>2, <1>3, <1>5, QuietIndInv DEF Rollback

-----------------------------------------------------------------------------
(* The actions.                                                            *)

LEMMA BeginIndInv ==
    ASSUME IndInv, NEW r \in Requests, Begin(r)
    PROVE  IndInv'
<1>1. PICK c \in Calls :
        /\ c.op = "create" => Fresh(c.project)
        /\ Goto(r, "idle", "auth")
        /\ call' = [call EXCEPT ![r] = c]
        /\ before' = [before EXCEPT ![r] = {p \in ProjectIds : Archived(p)}]
        /\ UNCHANGED <<tables, flushed, page, total, answer, committed>>
  BY DEF Begin
<1>2. c \in Call /\ c.project \in ProjectIds
  BY CallsAreTyped DEF Call
<1>3. TypeOK'
  BY <1>1 DEF tables, IndInv, TypeOK, Goto
<1>4. /\ pc[r] = "idle" /\ pc'[r] = "auth" /\ call'[r] = c
      /\ \A q \in Requests \ {r} : Untouched(q)
  BY <1>1 DEF IndInv, TypeOK, Goto, Untouched
<1>5. page[r] = {} /\ answer[r] = "none" /\ r \notin committed
  BY <1>4 DEF IndInv, Fate, Progress
<1>6. TablesGrow /\ CommittedStay /\ FinitelyManyRows' /\ NewRowsOf(r)
  BY <1>1, <1>4, <1>5 DEF tables, TablesGrow, CommittedStay, NewRowsOf, IndInv,
                          TypeOK, FinitelyManyRows, Rows, TaskRows
<1>7. ProjectsApart'
  BY <1>1, <1>4 DEF Untouched, IndInv, ProjectsApart, Fresh
<1>8. ArchivedBySomebody'
  BY <1>1, <1>4, <1>5 DEF tables, Untouched, IndInv, TypeOK, ArchivedBySomebody, Archived
<1>9. Fate(r)'
  <2>1. Progress(r)' /\ Blame(r)' /\ Position(r)'
    BY <1>1, <1>2, <1>4, <1>5 DEF Progress, Blame, Position, Refusals
  <2>2. Row(r)' /\ Role(r)'
    BY <1>1, <1>2, <1>4, <1>5 DEF tables, Row, Role, Fresh
  <2>3. before'[r] = {p \in ProjectIds : Archived(p)}
    BY <1>1 DEF IndInv, TypeOK
  <2>4. Late(r)'
    BY <1>1, <1>2, <1>4, <1>5, <2>3 DEF tables, Late, Archived
  <2> QED
    BY <2>1, <2>2, <2>4 DEF Fate
<1>10. \A q \in Requests : Fate(q)'
  <2>1. ASSUME NEW q \in Requests \ {r} PROVE Fate(q)'
    <3>1. Fate(q) /\ Untouched(q) /\ UNCHANGED <<members, projects, tasks>>
      BY <1>1, <1>4 DEF IndInv, tables
    <3>2. \A w \in committed : call'[w] = call[w]
      BY <1>6 DEF CommittedStay
    <3>3. Progress(q)' /\ Row(q)' /\ Late(q)'
      BY <3>1 DEF Fate, Progress, Writing, Row, Late, Archived, Untouched
    <3>4. Role(q)' /\ Position(q)'
      BY <3>1 DEF Fate, Role, OrgOf, Position, Listed, Untouched
    <3>5. Blame(q)'
      BY <1>1, <3>1, <3>2 DEF Fate, Blame, Untouched
    <3> QED
      BY <3>3, <3>4, <3>5 DEF Fate
  <2> QED
    BY <1>9, <2>1
<1> QED
  BY <1>3, <1>6, <1>7, <1>8, <1>10 DEF IndInv

\* A statement that reads: the role it may have found, the row it may have
\* found and the time it has come are what matters.
LEMMA PassIndInv ==
    ASSUME IndInv, NEW r \in Requests, NEW from, NEW to, Pass(r, from, to),
           from \in {"auth", "load", "check"},
           to \in {"load", "check", "insert", "archive", "page"},
           to = "load" => call[r].op \in {"archive", "listTasks"},
           to = "insert" => call[r].op = "create",
           to = "archive" => call[r].op = "archive",
           to = "page" => ~Writing(r),
           from = "load" => to = "check",
           from = "check" => to \in {"insert", "archive", "page"},
           from = "auth" /\ call[r].op = "archive" => to = "load",
           from = "load" => projects[call[r].project] # NoProject,
           from = "load" /\ call[r].op = "archive" => ~Archived(call[r].project),
           to \in {"insert", "archive"} =>
             from = "check" /\ CheckRole(members, call[r].user, OrgOf(r), "admin")
    PROVE  IndInv'
<1>1. /\ pc[r] = from /\ pc'[r] = to
      /\ UNCHANGED <<tables, call, flushed, page, total, answer, committed, before>>
      /\ \A q \in Requests \ {r} : Untouched(q)
  BY DEF Pass, Goto, Untouched, IndInv, TypeOK
<1>2. TypeOK'
  BY <1>1 DEF Pass, Goto, tables, IndInv, TypeOK
<1>3. Fate(r) /\ answer[r] = "none" /\ r \notin committed /\ page[r] = {}
  BY <1>1 DEF IndInv, Fate, Progress
<1>4. Progress(r)' /\ Blame(r)' /\ Position(r)'
  BY <1>1, <1>3 DEF Fate, Progress, Writing, Blame, Position, Refusals
<1>5. Row(r)'
  BY <1>1, <1>3 DEF Fate, Progress, Row, tables
<1>6. Role(r)'
  BY <1>1, <1>3 DEF Role, OrgOf, tables
<1>7. Late(r)'
  BY <1>1, <1>3 DEF Fate, Late, Archived, tables
<1> QED
  BY <1>1, <1>2, <1>4, <1>5, <1>6, <1>7, QuietIndInv DEF Fate

LEMMA AuthorizeIndInv ==
    ASSUME IndInv, NEW r \in Requests, Authorize(r)
    PROVE  IndInv'
<1>1. call[r].op \in {"create", "archive", "list", "listTasks"}
  BY DEF Authorize, IndInv, Fate, Progress, Call
<1>2. CASE Rollback(r, "forbidden")
  BY <1>2, RollbackIndInv DEF Authorize, Refusals
<1>3. CASE Pass(r, "auth", IF call[r].op \in {"archive", "listTasks"} THEN "load"
                                                                    ELSE "check")
  BY <1>1, <1>3, PassIndInv
<1> QED
  BY <1>2, <1>3 DEF Authorize

\* A second archiving that finds the project archived is refused here.
LEMMA LoadIndInv ==
    ASSUME IndInv, NEW r \in Requests, Load(r)
    PROVE  IndInv'
<1>1. pc[r] = "load" /\ call[r].op \in {"archive", "listTasks"}
  BY DEF Load, IndInv, Fate, Progress
<1>2. CASE projects[call[r].project] = NoProject
  BY <1>1, <1>2, RollbackIndInv DEF Load, Refusals, Archived
<1>3. CASE /\ projects[call[r].project] # NoProject
           /\ call[r].op = "archive" /\ Archived(call[r].project)
  BY <1>1, <1>3, RollbackIndInv DEF Load, Refusals
<1>4. CASE /\ projects[call[r].project] # NoProject
           /\ ~(call[r].op = "archive" /\ Archived(call[r].project))
  <2>1. Pass(r, "load", "check")
    BY <1>4 DEF Load
  <2> QED
    BY <1>1, <1>4, <2>1, PassIndInv
<1> QED
  BY <1>2, <1>3, <1>4

LEMMA CheckIndInv ==
    ASSUME IndInv, NEW r \in Requests, Check(r)
    PROVE  IndInv'
<1>1. pc[r] = "check" /\ call[r].op \in {"create", "archive", "list", "listTasks"}
  BY DEF Check, IndInv, Fate, Progress, Call
<1>2. CASE Rollback(r, "forbidden")
  BY <1>1, <1>2, RollbackIndInv DEF Refusals
<1>3. CASE /\ CheckRole(members, call[r].user, OrgOf(r), RequiredRole(call[r].op))
           /\ Pass(r, "check", AfterCheck(call[r].op))
  <2>1. /\ call[r].op = "create" => AfterCheck(call[r].op) = "insert"
        /\ call[r].op = "archive" => AfterCheck(call[r].op) = "archive"
        /\ call[r].op \in {"list", "listTasks"} => AfterCheck(call[r].op) = "page"
    BY DEF AfterCheck
  <2>2. Writing(r) => RequiredRole(call[r].op) = "admin"
    BY DEF Writing, RequiredRole
  <2> QED
    BY <1>1, <1>3, <2>1, <2>2, PassIndInv DEF Writing
<1> QED
  BY <1>2, <1>3 DEF Check

LEMMA FlushIndInv ==
    ASSUME IndInv, NEW r \in Requests, InsertProject(r) \/ ArchiveProject(r)
    PROVE  IndInv'
<1>1. PICK from \in {"insert", "archive"} : Flush(r, from)
  BY DEF InsertProject, ArchiveProject
<1>2. /\ pc[r] = from /\ pc'[r] = "commit"
      /\ UNCHANGED <<tables, call, page, total, answer, committed, before>>
      /\ \A q \in Requests \ {r} : Untouched(q)
  BY <1>1 DEF Flush, Goto, Untouched, IndInv, TypeOK
<1>3. TypeOK'
  BY <1>1 DEF Flush, Goto, tables, IndInv, TypeOK
<1>4. Fate(r) /\ answer[r] = "none" /\ r \notin committed /\ page[r] = {}
  BY <1>2 DEF IndInv, Fate, Progress
<1>5. Progress(r)' /\ Blame(r)' /\ Position(r)'
  BY <1>2, <1>4 DEF Fate, Progress, Writing, Blame, Position, Refusals
<1>6. Row(r)' /\ Role(r)'
  BY <1>2, <1>4 DEF Fate, Progress, Row, Role, OrgOf, tables
<1>7. Late(r)'
  BY <1>2, <1>4 DEF Fate, Late, tables
<1> QED
  BY <1>2, <1>3, <1>5, <1>6, <1>7, QuietIndInv DEF Fate

\* The only step that changes a project: the row appears, or is archived.
LEMMA CommitIndInv ==
    ASSUME IndInv, NEW r \in Requests, Commit(r)
    PROVE  IndInv'
<1> DEFINE p == call[r].project
<1>1. /\ Goto(r, "commit", "respond")
      /\ projects' = [projects EXCEPT ![p] = Written(r)]
      /\ committed' = committed \cup {r}
      /\ flushed' = [flushed EXCEPT ![r] = FALSE]
      /\ UNCHANGED <<members, tasks, call, page, total, answer, before>>
  BY DEF Commit
<1>2. /\ pc[r] = "commit" /\ pc'[r] = "respond"
      /\ \A q \in Requests \ {r} : Untouched(q)
  BY <1>1 DEF Goto, Untouched, IndInv, TypeOK
<1>3. Fate(r) /\ answer[r] = "none" /\ r \notin committed /\ page[r] = {}
  BY <1>2 DEF IndInv, Fate, Progress
<1>4. call[r] \in Call /\ p \in ProjectIds /\ Writing(r)
  BY <1>2, <1>3 DEF Fate, Progress, Call
<1>5. call[r].op \in {"create", "archive"}
  BY <1>4 DEF Writing
<1>6. /\ call[r].op = "create" => projects[p] = NoProject
      /\ call[r].op = "archive" => projects[p] \in ProjectRow /\ projects[p] # NoProject
  BY <1>2, <1>3, <1>4 DEF Fate, Row, IndInv, TypeOK
<1>7. /\ Written(r) \in ProjectRow /\ Written(r) # NoProject
      /\ call[r].op = "create" => Written(r) = [org |-> call[r].org, archived |-> FALSE]
      /\ call[r].op = "archive" => Written(r).org = projects[p].org /\ Written(r).archived
  <2>1. CASE call[r].op = "create"
    <3>1. Written(r) = [org |-> call[r].org, archived |-> FALSE]
      BY <2>1 DEF Written
    <3>2. Written(r) \in ProjectRow
      BY <1>4, <3>1 DEF ProjectRow, Call
    <3> QED
      BY <2>1, <3>1, <3>2, NoProjectIsNone
  <2>2. CASE call[r].op = "archive"
    <3>1. Written(r) = [projects[p] EXCEPT !.archived = TRUE]
      BY <2>2 DEF Written
    <3>2. projects[p] \in ProjectRow
      BY <1>6, <2>2
    <3>3. Written(r) \in ProjectRow /\ Written(r).org = projects[p].org /\ Written(r).archived
      BY <3>1, <3>2 DEF ProjectRow
    <3> QED
      BY <2>2, <3>3, NoProjectIsNone
  <2> QED
    BY <1>5, <2>1, <2>2
<1>8. /\ projects'[p] = Written(r)
      /\ \A q \in ProjectIds \ {p} : projects'[q] = projects[q]
      /\ projects' \in [ProjectIds -> ProjectRow \cup {NoProject}]
  BY <1>1, <1>4, <1>7 DEF IndInv, TypeOK
<1>9. TypeOK'
  BY <1>1, <1>8 DEF Goto, IndInv, TypeOK
<1>10. TablesGrow
  BY <1>1, <1>4, <1>6, <1>7, <1>8 DEF TablesGrow, Writing
<1>11. CommittedStay /\ NewRowsOf(r)
  BY <1>1, <1>2, <1>4, <1>6, <1>8 DEF CommittedStay, NewRowsOf, Writing
<1>12. ProjectsApart'
  BY <1>1, <1>2 DEF Untouched, IndInv, ProjectsApart
<1>13. ArchivedBySomebody'
  <2>1. ASSUME NEW q \in ProjectIds \ {p}, Archived(q)'
        PROVE  Archived(q)
    BY <1>8, <2>1 DEF Archived
  <2>2. Archived(p)' => call[r].op = "archive"
    BY <1>1, <1>5, <1>7, <1>8 DEF Archived
  <2>3. ASSUME NEW q \in ProjectIds, Archived(q)'
        PROVE  \E w \in committed' : call'[w].op = "archive" /\ call'[w].project = q
    <3>1. CASE q = p
      BY <1>1, <2>2, <2>3, <3>1
    <3>2. CASE q # p
      BY <1>1, <2>1, <2>3, <3>2 DEF IndInv, ArchivedBySomebody
    <3> QED
      BY <3>1, <3>2
  <2> QED
    BY <2>3 DEF ArchivedBySomebody
<1>14. FinitelyManyRows'
  <2>1. Rows' = Rows \cup {p} /\ TaskRows' = TaskRows
    BY <1>1, <1>4, <1>7, <1>8 DEF Rows, TaskRows
  <2> QED
    BY <2>1, FS_AddElement DEF IndInv, FinitelyManyRows
<1>15. Fate(r)'
  <2>1. Progress(r)' /\ Blame(r)' /\ Position(r)'
    BY <1>1, <1>2, <1>3, <1>4 DEF Progress, Writing, Blame, Position, Refusals
  <2>2. Row(r)'
    BY <1>1, <1>2, <1>7, <1>8 DEF Row, Archived
  <2>3. Role(r)'
    <3>1. CheckRole(members, call[r].user, OrgOf(r), "admin")
      BY <1>2, <1>3 DEF Fate, Role
    <3>2. projects'[p].org = OrgOf(r)
      BY <1>4, <1>7, <1>8 DEF OrgOf, Writing
    <3> QED
      BY <1>1, <1>2, <3>1, <3>2 DEF Role
  <2>4. Late(r)'
    BY <1>1, <1>2, <1>3 DEF Fate, Late
  <2> QED
    BY <2>1, <2>2, <2>3, <2>4 DEF Fate
<1> QED
  BY <1>2, <1>9, <1>10, <1>11, <1>12, <1>13, <1>14, <1>15, StepIndInv

\* LIMIT and OFFSET leave no row beyond the last.
LEMMA PageSizeBound ==
    ASSUME NEW r \in Requests, call[r] \in Call, NEW n \in Nat, NEW k \in Nat,
           k = PageSize(r, n), k # 0
    PROVE  call[r].offset + k <= n
  BY DEF PageSize, Call

LEMMA SelectPageIndInv ==
    ASSUME IndInv, NEW r \in Requests, SelectPage(r)
    PROVE  IndInv'
<1>1. pc[r] = "page" /\ call[r] \in Call /\ ~Writing(r)
  BY DEF SelectPage, IndInv, Fate, Progress
<1>2. CASE Rollback(r, "error")
  BY <1>1, <1>2, RollbackIndInv DEF Refusals
<1>3. CASE ~Rollback(r, "error")
  <2>1. PICK rows \in SUBSET Listed(r) :
          /\ Cardinality(rows) = PageSize(r, Cardinality(Listed(r)))
          /\ Goto(r, "page", "count")
          /\ page' = [page EXCEPT ![r] = rows]
          /\ UNCHANGED <<tables, call, flushed, total, answer, committed, before>>
    BY <1>3 DEF SelectPage
  <2>2. /\ pc'[r] = "count" /\ page'[r] = rows
        /\ \A q \in Requests \ {r} : Untouched(q)
    BY <2>1 DEF Goto, Untouched, IndInv, TypeOK
  <2>3. /\ Cardinality(Listed(r)) \in Nat
        /\ IsFiniteSet(rows) /\ Cardinality(rows) \in Nat
    BY <1>1, ListedFinite, FS_Subset, FS_CardinalityType
  <2>4. TypeOK'
    <3>1. rows \subseteq ProjectIds \cup Tasks
      BY DEF Listed
    <3> QED
      BY <2>1, <3>1 DEF Goto, tables, IndInv, TypeOK
  <2>5. Fate(r) /\ answer[r] = "none" /\ r \notin committed
    BY <1>1 DEF IndInv, Fate, Progress
  <2>6. Progress(r)' /\ Blame(r)'
    BY <1>1, <2>1, <2>2, <2>5 DEF Progress, Writing, Blame, Refusals
  <2>7. Row(r)' /\ Role(r)' /\ Late(r)'
    BY <1>1, <2>1, <2>2, <2>5 DEF Fate, Row, Role, Late, Writing, Archived, tables
  <2>8. Position(r)'
    <3>1. Listed(r)' = Listed(r)
      BY <2>1 DEF Listed, tables
    <3>2. rows # {} => Cardinality(rows) # 0
      BY <2>3, FS_EmptySet
    <3>3. rows # {} => call[r].offset + Cardinality(rows) <= Cardinality(Listed(r))
      BY <1>1, <2>1, <2>3, <3>2, PageSizeBound
    <3> QED
      BY <2>1, <2>2, <2>3, <2>5, <3>1, <3>3 DEF Position
  <2> QED
    BY <1>1, <2>1, <2>2, <2>4, <2>6, <2>7, <2>8, QuietIndInv DEF Fate
<1> QED
  BY <1>2, <1>3

\* The total is counted last, on rows that have only become more.
LEMMA CountIndInv ==
    ASSUME IndInv, NEW r \in Requests, Count(r)
    PROVE  IndInv'
<1>1. /\ pc[r] = "count" /\ pc'[r] = "respond"
      /\ total' = [total EXCEPT ![r] = Cardinality(Listed(r))]
      /\ UNCHANGED <<tables, call, flushed, page, answer, committed, before>>
      /\ \A q \in Requests \ {r} : Untouched(q)
  BY DEF Count, Goto, Untouched, IndInv, TypeOK
<1>2. Fate(r) /\ answer[r] = "none" /\ r \notin committed /\ ~Writing(r)
  BY <1>1 DEF IndInv, Fate, Progress
<1>3. Cardinality(Listed(r)) \in Nat
  BY <1>1, ListedFinite
<1>4. TypeOK'
  BY <1>1, <1>3 DEF Count, Goto, tables, IndInv, TypeOK
<1>5. total'[r] = Cardinality(Listed(r))
  BY <1>1 DEF IndInv, TypeOK
<1>6. Progress(r)' /\ Blame(r)' /\ Position(r)'
  BY <1>1, <1>2, <1>5 DEF Fate, Progress, Writing, Blame, Position, Refusals
<1>7. Row(r)' /\ Role(r)' /\ Late(r)'
  BY <1>1, <1>2 DEF Fate, Row, Role, Late, Writing, Archived, tables
<1> QED
  BY <1>1, <1>4, <1>6, <1>7, QuietIndInv DEF Fate

LEMMA RespondIndInv ==
    ASSUME IndInv, NEW r \in Requests, Respond(r)
    PROVE  IndInv'
<1>1. /\ pc[r] = "respond" /\ pc'[r] = "done" /\ answer'[r] = "ok"
      /\ UNCHANGED <<tables, call, flushed, page, total, committed, before>>
      /\ \A q \in Requests \ {r} : Untouched(q)
  BY DEF Respond, Goto, Untouched, IndInv, TypeOK
<1>2. TypeOK'
  BY DEF Respond, Goto, tables, IndInv, TypeOK
<1>3. Fate(r)
  BY DEF IndInv
<1>4. Progress(r)' /\ Blame(r)' /\ Position(r)'
  BY <1>1, <1>3 DEF Fate, Progress, Writing, Blame, Position, Refusals
<1>5. Row(r)' /\ Role(r)' /\ Late(r)'
  BY <1>1, <1>3 DEF Fate, Row, Role, Late, Archived, tables
<1> QED
  BY <1>1, <1>2, <1>4, <1>5, QuietIndInv DEF Fate

\* What the other components do: they commit memberships and tasks.
LEMMA OutsideIndInv ==
    ASSUME IndInv, TypeOK', members \subseteq members',
           \A t \in Tasks : tasks[t] # NoProject => tasks'[t] = tasks[t],
           FinitelyManyRows',
           UNCHANGED <<projects, pc, call, flushed, page, total, answer, committed,
                       before>>
    PROVE  IndInv'
<1>1. TablesGrow /\ CommittedStay /\ \A q \in Requests : Untouched(q) /\ NewRowsOf(q)
  BY DEF TablesGrow, CommittedStay, Untouched, NewRowsOf
<1>2. ProjectsApart' /\ ArchivedBySomebody'
  BY DEF IndInv, ProjectsApart, ArchivedBySomebody, Archived
<1>3. ASSUME NEW q \in Requests PROVE Fate(q)'
  <2>1. CASE pc[q] = "idle"
    <3>1. Fate(q) /\ page[q] = {} /\ q \notin committed /\ answer[q] = "none"
      BY <2>1 DEF IndInv, Fate, Progress
    <3>2. Progress(q)' /\ Late(q)' /\ Blame(q)' /\ Position(q)'
      BY <2>1, <3>1 DEF Fate, Progress, Writing, Late, Blame, Position
    <3>3. Row(q)' /\ Role(q)'
      BY <2>1, <3>1 DEF Row, Role
    <3> QED
      BY <3>2, <3>3 DEF Fate
  <2>2. CASE pc[q] # "idle"
    <3>1. Fate(q)
      BY DEF IndInv
    <3>2. Progress(q)' /\ Row(q)' /\ Late(q)' /\ Blame(q)'
      BY <3>1 DEF Fate, Progress, Writing, Row, Late, Blame, Archived
    <3>3. Role(q)'
      <4>1. OrgOf(q)' = OrgOf(q)
        BY DEF OrgOf
      <4> QED
        BY <3>1, <4>1, RolesStay DEF Fate, Role
    <3>4. Position(q)'
      <4>1. CASE page[q] # {}
        <5>1. call[q].offset \in Int /\ Cardinality(page[q]) \in Nat
          BY <2>2, <3>1, <4>1, FS_CardinalityType DEF Fate, Progress, Position, Call
        <5>2. /\ Cardinality(Listed(q)) \in Nat /\ Cardinality(Listed(q)') \in Nat
              /\ Cardinality(Listed(q)) <= Cardinality(Listed(q)')
          BY <1>1, <2>2, ListedFinite, ListedGrows
        <5> QED
          BY <3>1, <4>1, <5>1, <5>2 DEF Fate, Position
      <4>2. CASE page[q] = {}
        BY <4>2 DEF Position
      <4> QED
        BY <4>1, <4>2
    <3> QED
      BY <3>2, <3>3, <3>4 DEF Fate
  <2> QED
    BY <2>1, <2>2
<1> QED
  BY <1>2, <1>3 DEF IndInv

LEMMA JoinIndInv ==
    ASSUME IndInv, NEW m \in Joining, Join(m)
    PROVE  IndInv'
<1>1. TypeOK'
  BY CallsAreTyped DEF Join, IndInv, TypeOK
<1>2. FinitelyManyRows'
  BY DEF Join, IndInv, FinitelyManyRows, Rows, TaskRows
<1> QED
  BY <1>1, <1>2, OutsideIndInv DEF Join

LEMMA CreateTaskIndInv ==
    ASSUME IndInv, NEW t \in Tasks, NEW p \in ProjectIds, CreateTask(t, p)
    PROVE  IndInv'
<1>1. TypeOK'
  BY DEF CreateTask, IndInv, TypeOK
<1>2. FinitelyManyRows'
  <2>1. Rows' = Rows /\ TaskRows' = TaskRows \cup {t}
    BY NoProjectIsNone DEF CreateTask, Rows, TaskRows, IndInv, TypeOK
  <2> QED
    BY <2>1, FS_AddElement DEF IndInv, FinitelyManyRows
<1>3. \A s \in Tasks : tasks[s] # NoProject => tasks'[s] = tasks[s]
  BY DEF CreateTask, IndInv, TypeOK
<1> QED
  BY <1>1, <1>2, <1>3, OutsideIndInv DEF CreateTask

LEMMA StutterIndInv ==
    ASSUME IndInv, UNCHANGED vars
    PROVE  IndInv'
<1>1. TypeOK'
  BY DEF vars, tables, IndInv, TypeOK
<1>2. FinitelyManyRows'
  BY DEF vars, tables, IndInv, FinitelyManyRows, Rows, TaskRows
<1> QED
  BY <1>1, <1>2, OutsideIndInv DEF vars, tables

LEMMA NextIndInv == IndInv /\ [Next]_vars => IndInv'
<1> SUFFICES ASSUME IndInv, [Next]_vars PROVE IndInv'
  OBVIOUS
<1>1. ASSUME NEW r \in Requests, Begin(r) PROVE IndInv'
  BY <1>1, BeginIndInv
<1>2. ASSUME NEW r \in Requests, Step(r) PROVE IndInv'
  BY <1>2, AuthorizeIndInv, LoadIndInv, CheckIndInv, FlushIndInv, CommitIndInv,
     SelectPageIndInv, CountIndInv, RespondIndInv
  DEF Step
<1>3. ASSUME NEW r \in Requests, Abort(r) PROVE IndInv'
  BY <1>3, RollbackIndInv DEF Abort, Refusals
<1>4. ASSUME NEW m \in Joining, Join(m) PROVE IndInv'
  BY <1>4, JoinIndInv
<1>5. ASSUME NEW t \in Tasks, NEW p \in ProjectIds, CreateTask(t, p) PROVE IndInv'
  BY <1>5, CreateTaskIndInv
<1>6. CASE UNCHANGED vars
  BY <1>6, StutterIndInv
<1> QED
  BY <1>1, <1>2, <1>3, <1>4, <1>5, <1>6 DEF Next, Finished

-----------------------------------------------------------------------------
(* The theorems.                                                           *)

(***************************************************************************)
(* The inductive invariant holds in every reachable state.                 *)
(***************************************************************************)
THEOREM Invariance == Spec => []IndInv
  BY InitIndInv, NextIndInv, PTL DEF Spec

(***************************************************************************)
(* Requests, pages and tables keep their types.                            *)
(***************************************************************************)
THEOREM TypeCorrect == Spec => []TypeOK
<1>1. IndInv => TypeOK
  BY DEF IndInv
<1> QED
  BY <1>1, Invariance, PTL

(***************************************************************************)
(* Whoever has created or archived a project is an admin of the            *)
(* organization the project belongs to, whatever the path named and        *)
(* however long before the commit the role was looked up.                  *)
(***************************************************************************)
THEOREM AdminsWrite == Spec => []OnlyAdminsWrite
<1>1. IndInv => OnlyAdminsWrite
  BY DEF IndInv, TypeOK, Fate, Role, OnlyAdminsWrite
<1> QED
  BY <1>1, Invariance, PTL

(***************************************************************************)
(* A request to archive what was archived when it arrived commits nothing. *)
(***************************************************************************)
THEOREM LateArchivesFail == Spec => []NoLateArchive
<1>1. IndInv => NoLateArchive
  BY DEF IndInv, Fate, Late, NoLateArchive
<1> QED
  BY <1>1, Invariance, PTL

(***************************************************************************)
(* 200 and 201 mean a write that is committed and still there, 400 that    *)
(* another request has archived the project, and no refusal hides a write. *)
(***************************************************************************)
THEOREM TruthfulAnswers == Spec => []AnswersAreTruthful
<1>1. IndInv => AnswersAreTruthful
  BY DEF IndInv, Fate, Progress, Writing, Row, Blame, AnswersAreTruthful
<1> QED
  BY <1>1, Invariance, PTL

(***************************************************************************)
(* A page of a list never ends beyond the total it is delivered with,      *)
(* whatever is committed between the two statements.                       *)
(***************************************************************************)
THEOREM PagesFit == Spec => []PageFitsTotal
<1>1. IndInv => PageFitsTotal
  BY DEF IndInv, Fate, Position, PageFitsTotal
<1> QED
  BY <1>1, Invariance, PTL

(***************************************************************************)
(* A membership, a project with its organization, its being archived and   *)
(* a task, once committed, stay: nothing a request has read in this        *)
(* component is ever taken back.  The models of the tasks and of the rooms *)
(* rely on it, where the organization of a project is a constant.          *)
(***************************************************************************)
THEOREM TablesOnlyGrow == Spec => [][TablesGrow]_vars
<1>1. IndInv /\ [Next]_vars => [TablesGrow]_vars
  <2> SUFFICES ASSUME IndInv, Next PROVE TablesGrow
    OBVIOUS
  <2>1. ASSUME NEW r \in Requests, Commit(r) PROVE TablesGrow
    <3> DEFINE p == call[r].project
    <3>1. /\ projects' = [projects EXCEPT ![p] = Written(r)]
          /\ UNCHANGED <<members, tasks>>
      BY <2>1 DEF Commit
    <3>2. pc[r] = "commit" /\ Fate(r)
      BY <2>1 DEF Commit, Goto, IndInv
    <3>3. p \in ProjectIds /\ call[r].op \in {"create", "archive"}
      BY <3>2 DEF Fate, Progress, Writing, Call
    <3>4. \A q \in ProjectIds \ {p} : projects'[q] = projects[q]
      BY <3>1, <3>3 DEF IndInv, TypeOK
    <3>5. CASE call[r].op = "create"
      BY <3>1, <3>2, <3>4, <3>5 DEF Fate, Row, TablesGrow
    <3>6. CASE call[r].op = "archive"
      <4>1. projects[p] \in ProjectRow
        BY <3>2, <3>3, <3>6 DEF Fate, Row, IndInv, TypeOK
      <4>2. projects'[p] = [projects[p] EXCEPT !.archived = TRUE]
        BY <3>1, <3>3, <3>6 DEF Written, IndInv, TypeOK
      <4>3. /\ projects'[p] \in ProjectRow
            /\ projects'[p].org = projects[p].org /\ projects'[p].archived
        BY <4>1, <4>2 DEF ProjectRow
      <4> QED
        BY <3>1, <3>4, <4>3, NoProjectIsNone DEF TablesGrow
    <3> QED
      BY <3>3, <3>5, <3>6
  <2>2. ASSUME UNCHANGED projects, members \subseteq members',
               \A t \in Tasks : tasks[t] # NoProject => tasks'[t] = tasks[t]
        PROVE  TablesGrow
    BY <2>2 DEF TablesGrow
  <2>3. ASSUME NEW t \in Tasks, NEW p \in ProjectIds, CreateTask(t, p) PROVE TablesGrow
    <3>1. \A u \in Tasks : tasks[u] # NoProject => tasks'[u] = tasks[u]
      BY <2>3 DEF CreateTask, IndInv, TypeOK
    <3> QED
      BY <2>2, <2>3, <3>1 DEF CreateTask
  <2>4. \/ \E r \in Requests : Commit(r)
        \/ \E t \in Tasks, p \in ProjectIds : CreateTask(t, p)
        \/ UNCHANGED <<projects, tasks>> /\ members \subseteq members'
    BY DEF Next, Begin, Step, Abort, Rollback, Pass, Authorize, Load, Check, InsertProject,
           ArchiveProject, Flush, SelectPage, Count, Respond, Join, Finished, tables, vars
  <2> QED
    BY <2>1, <2>2, <2>3, <2>4
<1> QED
  BY <1>1, Invariance, PTL DEF Spec
=============================================================================
