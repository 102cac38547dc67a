------------------------- MODULE TaskServiceProofs -------------------------
(***************************************************************************)
(* Safety of the tasks component, for any number of users, organizations,  *)
(* projects, tasks and concurrent requests.                                *)
(*                                                                         *)
(* A handler decides on a copy of the task and on memberships it has read  *)
(* some statements ago.  The inductive invariant says what of it is still  *)
(* true when the handler commits: not that the copy is current, but that   *)
(* its status is one the task has had, its project still the task's, and   *)
(* the memberships still there.                                            *)
(***************************************************************************)
EXTENDS TaskService, TLAPS

\* Where a request stands, what it was asked and what it has written.
Progress ==
    \A r \in Requests :
        /\ pc[r] # "idle" =>
             call[r] \in Call /\ (call[r].op = "assign" => call[r].target # Nobody)
        /\ pc[r] \in {"checkAssignee", "enqueue"} => call[r].op = "assign"
        /\ flushed[r] => pc[r] = "commit"
        /\ pc[r] = "commit" /\ call[r].op # "assign" => flushed[r]
        /\ pc[r] \in {"enqueue", "respond"} => r \in committed
        /\ r \in committed => /\ pc[r] \in {"enqueue", "respond", "done"}
                              /\ tasks[call[r].task] # NoTask

\* A task being created is not there yet and nobody else creates it.
Creations ==
    \A r \in Requests :
        pc[r] # "idle" /\ call[r].op = "create" =>
            /\ pc[r] \notin {"enqueue", "respond", "done"} =>
                 tasks[call[r].task] = NoTask
            /\ \A q \in Requests \ {r} :
                 pc[q] # "idle" /\ call[q].op = "create" =>
                     call[q].task # call[r].task

\* The copy a handler works on is of the past, but of this task.
Copies ==
    \A r \in Requests :
        pc[r] \in {"check", "checkAssignee", "write", "commit"} /\ call[r].op # "create" =>
            /\ tasks[call[r].task] # NoTask
            /\ snap[r] \in TaskRow
            /\ snap[r].project = tasks[call[r].task].project
            /\ snap[r].status \in Reached(call[r].task)
            /\ pc[r] = "commit" /\ call[r].op = "update" =>
                 call[r].status \in ALLOWED_TRANSITIONS[snap[r].status]

\* What the role checks have found is still so.
Permissions ==
    \A r \in Requests :
        /\ pc[r] \in {"checkAssignee", "write", "commit"} =>
             <<call[r].user, OrgOf(r)>> \in members
        /\ pc[r] \in {"write", "commit"} /\ call[r].op = "assign" =>
             <<call[r].target, OrgOf(r)>> \in members

StatusReached ==
    \A t \in Tasks : tasks[t] # NoTask => tasks[t].status \in Reached(t)

Notifications ==
    \A j \in jobs :
        /\ j.id \in committed
        /\ call[j.id].op = "assign"
        /\ j = JobOf(j.id)

IndInv ==
    /\ TypeOK
    /\ Progress
    /\ Creations
    /\ Copies
    /\ Permissions
    /\ StatusReached
    /\ Notifications
    /\ NoStatusOutOfTheBlue
    /\ OutsidersNeverWrite

-----------------------------------------------------------------------------
(* Every kind of step preserves the inductive invariant.                   *)

LEMMA InitIndInv == Init => IndInv
  BY DEF Init, IndInv, TypeOK, Progress, Creations, Copies, Permissions,
         StatusReached, Notifications, NoStatusOutOfTheBlue, OutsidersNeverWrite,
         Finals, Reached, Job

\* What is said of the tables and their history depends on nothing else.
LEMMA TablesUnchanged ==
    ASSUME IndInv, members \subseteq members', UNCHANGED <<tasks, committed>>,
           \A r \in committed : call'[r] = call[r]
    PROVE  /\ \A t \in Tasks : Reached(t)' = Reached(t)
           /\ StatusReached' /\ NoStatusOutOfTheBlue' /\ OutsidersNeverWrite'
<1>1. committed \subseteq Requests
  BY DEF IndInv, TypeOK
<1>2. \A t \in Tasks : Reached(t)' = Reached(t)
  BY <1>1 DEF Reached, CommittedOn
<1>3. StatusReached' /\ NoStatusOutOfTheBlue'
  BY <1>2 DEF IndInv, StatusReached, NoStatusOutOfTheBlue
<1>4. OutsidersNeverWrite'
  BY <1>1 DEF IndInv, OutsidersNeverWrite
<1> QED
  BY <1>2, <1>3, <1>4

\* A request that is rolled back or has died leaves nothing behind.
LEMMA RollbackIndInv ==
    ASSUME IndInv, NEW r \in Requests, pc[r] # "idle", NEW a \in Finals,
           Rollback(r, a)
    PROVE  IndInv'
<1>1. TypeOK'
  BY DEF IndInv, TypeOK, Rollback
<1>2. Progress'
  BY DEF IndInv, TypeOK, Progress, Rollback
<1>3. Creations'
  BY DEF IndInv, TypeOK, Creations, Rollback
<1>4. /\ \A t \in Tasks : Reached(t)' = Reached(t)
      /\ StatusReached' /\ NoStatusOutOfTheBlue' /\ OutsidersNeverWrite'
  BY TablesUnchanged DEF Rollback
<1>5. Copies'
  BY <1>4 DEF IndInv, TypeOK, Progress, Copies, Call, Rollback
<1>6. Permissions'
  BY DEF IndInv, TypeOK, Permissions, OrgOf, ProjectOf, Rollback
<1>7. Notifications'
  BY DEF IndInv, Notifications, JobOf, Rollback
<1> QED
  BY <1>1, <1>2, <1>3, <1>4, <1>5, <1>6, <1>7 DEF IndInv

LEMMA BeginIndInv ==
    ASSUME IndInv, NEW r \in Requests, Begin(r)
    PROVE  IndInv'
<1>1. PICK c \in Calls :
        /\ c.op = "create" => Fresh(c.task)
        /\ Goto(r, "idle", "auth")
        /\ call' = [call EXCEPT ![r] = c]
        /\ UNCHANGED <<members, tasks, snap, flushed, jobs, answer, committed>>
  BY DEF Begin
<1>2. c \in Call /\ (c.op = "assign" => c.target # Nobody)
  BY CallsAreTyped
<1>3. /\ \A q \in Requests \ {r} : call'[q] = call[q] /\ pc'[q] = pc[q]
      /\ call'[r] = c
      /\ pc[r] = "idle" /\ pc'[r] = "auth"
  BY <1>1 DEF IndInv, TypeOK, Goto
<1>4. r \notin committed /\ ~flushed[r]
  BY <1>3 DEF IndInv, Progress
<1>5. TypeOK'
  BY <1>1, <1>2 DEF IndInv, TypeOK, Goto
<1>6. Progress'
  BY <1>1, <1>2, <1>3, <1>4 DEF IndInv, TypeOK, Progress
<1>7. Creations'
  BY <1>1, <1>3 DEF IndInv, Creations, Fresh
<1>8. /\ \A t \in Tasks : Reached(t)' = Reached(t)
      /\ StatusReached' /\ NoStatusOutOfTheBlue' /\ OutsidersNeverWrite'
  <2>1. \A q \in committed : call'[q] = call[q]
    BY <1>3, <1>4 DEF IndInv, TypeOK
  <2> QED
    BY <1>1, <2>1, TablesUnchanged
<1>9. Copies'
  BY <1>1, <1>3, <1>8 DEF IndInv, Progress, Copies, Call
<1>10. Permissions'
  BY <1>1, <1>3 DEF IndInv, Permissions, OrgOf, ProjectOf
<1>11. Notifications'
  BY <1>1, <1>3, <1>4 DEF IndInv, TypeOK, Notifications, JobOf
<1> QED
  BY <1>5, <1>6, <1>7, <1>8, <1>9, <1>10, <1>11 DEF IndInv

LEMMA AuthorizeIndInv ==
    ASSUME IndInv, NEW r \in Requests, Authorize(r)
    PROVE  IndInv'
<1>1. CASE <<call[r].user, call[r].org>> \in members
  <2>1. /\ Goto(r, "auth", "load")
        /\ UNCHANGED <<members, tasks, call, snap, flushed, jobs, answer, committed>>
    BY <1>1 DEF Authorize
  <2>2. TypeOK'
    BY <2>1 DEF IndInv, TypeOK, Goto
  <2>3. Progress'
    BY <2>1 DEF IndInv, TypeOK, Progress, Goto
  <2>4. Creations'
    BY <2>1 DEF IndInv, TypeOK, Creations, Goto
  <2>5. /\ \A t \in Tasks : Reached(t)' = Reached(t)
        /\ StatusReached' /\ NoStatusOutOfTheBlue' /\ OutsidersNeverWrite'
    BY <2>1, TablesUnchanged
  <2>6. Copies'
    BY <2>1, <2>5 DEF IndInv, TypeOK, Progress, Copies, Call, Goto
  <2>7. Permissions' /\ Notifications'
    BY <2>1 DEF IndInv, TypeOK, Permissions, OrgOf, ProjectOf, Notifications,
                JobOf, Goto
  <2> QED
    BY <2>2, <2>3, <2>4, <2>5, <2>6, <2>7 DEF IndInv
<1>2. CASE <<call[r].user, call[r].org>> \notin members
  BY <1>2, RollbackIndInv DEF Authorize, Finals
<1> QED
  BY <1>1, <1>2

LEMMA LoadIndInv ==
    ASSUME IndInv, NEW r \in Requests, Load(r)
    PROVE  IndInv'
<1> DEFINE row == IF call[r].op = "create" THEN NoTask ELSE tasks[call[r].task]
           absent == \/ call[r].op = "create" /\ ProjectOrg[call[r].project] = NoOrg
                     \/ call[r].op # "create" /\ row = NoTask
<1>1. CASE absent
  BY <1>1, RollbackIndInv DEF Load, Finals
<1>2. CASE ~absent
  <2>1. /\ Goto(r, "load", "check")
        /\ snap' = [snap EXCEPT ![r] = row]
        /\ UNCHANGED <<members, tasks, call, flushed, jobs, answer, committed>>
    BY <1>2 DEF Load
  <2>2. call[r] \in Call /\ call[r].task \in Tasks
    BY <2>1 DEF IndInv, Progress, Goto, Call
  <2>3. TypeOK'
    BY <2>1, <2>2 DEF IndInv, TypeOK, Goto
  <2>4. Progress'
    BY <2>1 DEF IndInv, TypeOK, Progress, Goto
  <2>5. Creations'
    BY <2>1 DEF IndInv, TypeOK, Creations, Goto
  <2>6. /\ \A t \in Tasks : Reached(t)' = Reached(t)
        /\ StatusReached' /\ NoStatusOutOfTheBlue' /\ OutsidersNeverWrite'
    BY <2>1, TablesUnchanged
  <2>7. Copies'
    BY <1>2, <2>1, <2>2, <2>6 DEF IndInv, TypeOK, Progress, Copies, StatusReached,
                                  Call, Goto
  <2>8. Permissions' /\ Notifications'
    BY <2>1 DEF IndInv, TypeOK, Permissions, OrgOf, ProjectOf, Notifications,
                JobOf, Goto
  <2> QED
    BY <2>3, <2>4, <2>5, <2>6, <2>7, <2>8 DEF IndInv
<1> QED
  BY <1>1, <1>2

\* check_role finds what Permissions then keeps.
LEMMA CheckIndInv ==
    ASSUME IndInv, NEW r \in Requests, Check(r)
    PROVE  IndInv'
<1>1. CASE <<call[r].user, OrgOf(r)>> \in members
  <2>1. /\ Goto(r, "check", IF call[r].op = "assign" THEN "checkAssignee"
                                                     ELSE "write")
        /\ UNCHANGED <<members, tasks, call, snap, flushed, jobs, answer, committed>>
    BY <1>1 DEF Check
  <2>2. TypeOK'
    BY <2>1 DEF IndInv, TypeOK, Goto
  <2>3. Progress'
    BY <2>1 DEF IndInv, TypeOK, Progress, Goto
  <2>4. Creations'
    BY <2>1 DEF IndInv, TypeOK, Creations, Goto
  <2>5. /\ \A t \in Tasks : Reached(t)' = Reached(t)
        /\ StatusReached' /\ NoStatusOutOfTheBlue' /\ OutsidersNeverWrite'
    BY <2>1, TablesUnchanged
  <2>6. Copies'
    BY <2>1, <2>5 DEF IndInv, TypeOK, Progress, Copies, Call, Goto
  <2>7. Permissions' /\ Notifications'
    BY <1>1, <2>1 DEF IndInv, TypeOK, Permissions, OrgOf, ProjectOf, Notifications,
                      JobOf, Goto
  <2> QED
    BY <2>2, <2>3, <2>4, <2>5, <2>6, <2>7 DEF IndInv
<1>2. CASE <<call[r].user, OrgOf(r)>> \notin members
  BY <1>2, RollbackIndInv DEF Check, Finals
<1> QED
  BY <1>1, <1>2

LEMMA CheckAssigneeIndInv ==
    ASSUME IndInv, NEW r \in Requests, CheckAssignee(r)
    PROVE  IndInv'
<1>1. CASE <<call[r].target, OrgOf(r)>> \in members
  <2>1. /\ Goto(r, "checkAssignee", "write")
        /\ UNCHANGED <<members, tasks, call, snap, flushed, jobs, answer, committed>>
    BY <1>1 DEF CheckAssignee
  <2>2. TypeOK'
    BY <2>1 DEF IndInv, TypeOK, Goto
  <2>3. Progress'
    BY <2>1 DEF IndInv, TypeOK, Progress, Goto
  <2>4. Creations'
    BY <2>1 DEF IndInv, TypeOK, Creations, Goto
  <2>5. /\ \A t \in Tasks : Reached(t)' = Reached(t)
        /\ StatusReached' /\ NoStatusOutOfTheBlue' /\ OutsidersNeverWrite'
    BY <2>1, TablesUnchanged
  <2>6. Copies'
    BY <2>1, <2>5 DEF IndInv, TypeOK, Progress, Copies, Call, Goto
  <2>7. Permissions' /\ Notifications'
    BY <1>1, <2>1 DEF IndInv, TypeOK, Permissions, OrgOf, ProjectOf, Notifications,
                      JobOf, Goto
  <2> QED
    BY <2>2, <2>3, <2>4, <2>5, <2>6, <2>7 DEF IndInv
<1>2. CASE <<call[r].target, OrgOf(r)>> \notin members
  BY <1>2, RollbackIndInv DEF CheckAssignee, Finals
<1> QED
  BY <1>1, <1>2

\* The three kinds of flush: into commit, with a valid transition if the
\* request is a change of status.
LEMMA FlushIndInv ==
    ASSUME IndInv, NEW r \in Requests, Goto(r, "write", "commit"),
           \/ flushed' = [flushed EXCEPT ![r] = TRUE]
           \/ flushed' = flushed /\ call[r].op = "assign",
           call[r].op = "update" =>
               call[r].status \in ALLOWED_TRANSITIONS[snap[r].status],
           UNCHANGED <<members, tasks, call, snap, jobs, answer, committed>>
    PROVE  IndInv'
<1>1. TypeOK'
  BY DEF IndInv, TypeOK, Goto
<1>2. Progress'
  BY DEF IndInv, TypeOK, Progress, Goto
<1>3. Creations'
  BY DEF IndInv, TypeOK, Creations, Goto
<1>4. /\ \A t \in Tasks : Reached(t)' = Reached(t)
      /\ StatusReached' /\ NoStatusOutOfTheBlue' /\ OutsidersNeverWrite'
  BY TablesUnchanged
<1>5. Copies'
  BY <1>4 DEF IndInv, TypeOK, Progress, Copies, Call, Goto
<1>6. Permissions' /\ Notifications'
  BY DEF IndInv, TypeOK, Permissions, OrgOf, ProjectOf, Notifications, JobOf, Goto
<1> QED
  BY <1>1, <1>2, <1>3, <1>4, <1>5, <1>6 DEF IndInv

LEMMA InsertTaskIndInv ==
    ASSUME IndInv, NEW r \in Requests, InsertTask(r)
    PROVE  IndInv'
<1>1. CASE call[r].target \in Accounts \cup {Nobody}
  BY <1>1, FlushIndInv DEF InsertTask, Flush
<1>2. CASE call[r].target \notin Accounts \cup {Nobody}
  BY <1>2, RollbackIndInv DEF InsertTask, Finals
<1> QED
  BY <1>1, <1>2

LEMMA UpdateStatusIndInv ==
    ASSUME IndInv, NEW r \in Requests, UpdateStatus(r)
    PROVE  IndInv'
<1>1. CASE ValidTransition(snap[r].status, call[r].status)
  BY <1>1, FlushIndInv DEF UpdateStatus, Flush, ValidTransition
<1>2. CASE ~ValidTransition(snap[r].status, call[r].status)
  BY <1>2, RollbackIndInv DEF UpdateStatus, Finals
<1> QED
  BY <1>1, <1>2

LEMMA AssignTaskIndInv ==
    ASSUME IndInv, NEW r \in Requests, AssignTask(r)
    PROVE  IndInv'
  BY FlushIndInv DEF AssignTask, Flush

\* The step that publishes: the only one that adds to the history.
LEMMA CommitIndInv ==
    ASSUME IndInv, NEW r \in Requests, Commit(r)
    PROVE  IndInv'
<1> DEFINE t == call[r].task
           c == call[r]
<1>1. /\ Goto(r, "commit", AfterCommit(r))
      /\ AfterCommit(r) = IF c.op = "assign" THEN "enqueue" ELSE "respond"
      /\ tasks' = IF flushed[r] THEN [tasks EXCEPT ![t] = Written(r)] ELSE tasks
      /\ flushed' = [flushed EXCEPT ![r] = FALSE]
      /\ committed' = committed \cup {r}
      /\ UNCHANGED <<members, call, snap, jobs, answer>>
  BY DEF Commit, AfterCommit
<1>2. /\ pc[r] = "commit" /\ r \notin committed
      /\ c \in Call /\ t \in Tasks
      /\ c.op \in {"create", "update", "assign"}
      /\ c.op # "assign" => flushed[r]
      /\ c.op = "assign" => c.target # Nobody
  BY <1>1 DEF Goto, IndInv, Progress, Call
<1>3. /\ c.op = "create" => tasks[t] = NoTask
      /\ c.op # "create" =>
           /\ tasks[t] # NoTask /\ tasks[t] \in TaskRow
           /\ snap[r].project = tasks[t].project
           /\ snap[r].status \in Reached(t)
      /\ c.op = "update" => c.status \in ALLOWED_TRANSITIONS[snap[r].status]
  BY <1>2 DEF IndInv, TypeOK, Creations, Copies
<1>4. Written(r) \in TaskRow
  BY <1>2, <1>3 DEF Written, TaskRow, Call, TaskStatus
<1>5. /\ \A s \in Tasks \ {t} : tasks'[s] = tasks[s]
      /\ tasks'[t] = IF flushed[r] THEN Written(r) ELSE tasks[t]
      /\ tasks'[t] \in TaskRow /\ tasks'[t] # NoTask
  BY <1>1, <1>2, <1>3, <1>4, NoTaskIsNoTask DEF IndInv, TypeOK
<1>6. TypeOK'
  BY <1>1, <1>2, <1>4 DEF IndInv, TypeOK, Goto
<1>7. Progress'
  BY <1>1, <1>2, <1>5 DEF IndInv, TypeOK, Progress, Call, Goto
<1>8. Creations'
  BY <1>1, <1>2, <1>3, <1>5 DEF IndInv, TypeOK, Creations, Progress, Call, Goto
<1>9. /\ \A s \in Tasks : Reached(s) \subseteq Reached(s)'
      /\ \A s \in Tasks \ {t} : Reached(s)' = Reached(s)
      /\ Reached(t)' = {"backlog"} \cup
           {call[q].status : q \in {p \in committed \cup {r} :
                                      call[p].op \in {"update"} /\ call[p].task = t}}
  BY <1>1, <1>2, <1>5 DEF Reached, CommittedOn
<1>10. c.op = "update" => c.status \in Reached(t)'
  BY <1>2, <1>9
<1>11. \A s \in Reached(t)' :
         \/ s = "backlog"
         \/ s \in Reached(t)
         \/ c.op = "update" /\ s = c.status
  <2>1. SUFFICES ASSUME NEW q \in committed \cup {r},
                        call[q].op = "update", call[q].task = t, q # r
                 PROVE  call[q].status \in Reached(t)
    BY <1>9
  <2>2. tasks[t] # NoTask
    BY <2>1 DEF IndInv, TypeOK, Progress
  <2> QED
    BY <2>1, <2>2 DEF Reached, CommittedOn
<1>12. tasks'[t].status \in Reached(t)'
  <2>1. CASE c.op = "create"
    BY <1>1, <1>2, <1>5, <1>9, <2>1 DEF Written
  <2>2. CASE c.op = "update"
    BY <1>1, <1>2, <1>3, <1>5, <1>10, <2>2 DEF Written, TaskRow
  <2>3. CASE c.op = "assign"
    BY <1>1, <1>2, <1>3, <1>5, <1>9, <2>3 DEF Written, TaskRow, IndInv, StatusReached
  <2> QED
    BY <1>2, <2>1, <2>2, <2>3
<1>13. StatusReached'
  BY <1>1, <1>5, <1>9, <1>12 DEF IndInv, StatusReached
<1>14. NoStatusOutOfTheBlue'
  <2>1. ASSUME NEW s \in Reached(t)', s # "backlog"
        PROVE  \E former \in Reached(t)' : s \in ALLOWED_TRANSITIONS[former]
    BY <1>1, <1>2, <1>3, <1>9, <1>11, <2>1 DEF IndInv, NoStatusOutOfTheBlue
  <2>2. ASSUME NEW u \in Tasks \ {t}, NEW s \in Reached(u)', s # "backlog"
        PROVE  \E former \in Reached(u)' : s \in ALLOWED_TRANSITIONS[former]
    BY <1>9, <2>2 DEF IndInv, NoStatusOutOfTheBlue
  <2> QED
    BY <1>1, <2>1, <2>2 DEF NoStatusOutOfTheBlue
<1>15. tasks'[t].project = IF c.op = "create" THEN c.project ELSE tasks[t].project
  BY <1>2, <1>3, <1>5 DEF Written, TaskRow
<1>16. OutsidersNeverWrite'
  <2>1. \A q \in committed : tasks[call[q].task] # NoTask /\ call[q].task \in Tasks
    BY DEF IndInv, TypeOK, Progress, Call
  <2>2. \A q \in committed : tasks'[call[q].task].project = tasks[call[q].task].project
    BY <1>3, <1>5, <1>15, <2>1
  <2>3. OrgOf(r) = ProjectOrg[tasks'[t].project]
    BY <1>3, <1>15 DEF OrgOf, ProjectOf
  <2>4. /\ <<c.user, OrgOf(r)>> \in members
        /\ c.op = "assign" => <<c.target, OrgOf(r)>> \in members
    BY <1>2 DEF IndInv, Permissions
  <2> QED
    BY <1>1, <2>2, <2>3, <2>4 DEF IndInv, OutsidersNeverWrite
<1>17. Copies'
  <2>1. SUFFICES ASSUME NEW q \in Requests, q # r, call[q].op # "create",
                        pc[q] \in {"check", "checkAssignee", "write", "commit"}
                 PROVE  /\ tasks'[call[q].task] # NoTask
                        /\ tasks'[call[q].task].project = tasks[call[q].task].project
    BY <1>1, <1>9 DEF IndInv, TypeOK, Progress, Call, Copies, Goto
  <2> QED
    BY <1>3, <1>5, <1>15, <2>1 DEF IndInv, Copies, Progress, Call
<1>18. Permissions'
  BY <1>1 DEF IndInv, TypeOK, Permissions, OrgOf, ProjectOf, Goto
<1>19. Notifications'
  BY <1>1 DEF IndInv, Notifications, JobOf
<1> QED
  BY <1>6, <1>7, <1>8, <1>13, <1>14, <1>16, <1>17, <1>18, <1>19 DEF IndInv

\* After the commit: the job, if any, and the response.
LEMMA AfterCommitIndInv ==
    ASSUME IndInv, NEW r \in Requests, NEW to,
           \/ Goto(r, "enqueue", to) /\ jobs' \in {jobs, jobs \cup {JobOf(r)}}
           \/ Goto(r, "respond", to) /\ jobs' = jobs,
           to = "done" \/ (to = "respond" /\ pc[r] = "enqueue"),
           answer' \in [Requests -> Finals \cup {"none"}],
           UNCHANGED <<members, tasks, call, snap, flushed, committed>>
    PROVE  IndInv'
<1>1. /\ pc[r] \in {"enqueue", "respond"} /\ r \in committed
      /\ call[r] \in Call
      /\ pc' = [pc EXCEPT ![r] = to]
      /\ pc[r] = "enqueue" => call[r].op = "assign" /\ call[r].target # Nobody
  BY DEF Goto, IndInv, Progress
<1>2. pc[r] = "enqueue" => JobOf(r) \in Job /\ JobOf(r).id = r
  BY <1>1 DEF JobOf, Job, Call
<1>3. TypeOK'
  BY <1>1, <1>2 DEF IndInv, TypeOK, Goto
<1>4. Progress'
  BY <1>1 DEF IndInv, TypeOK, Progress
<1>5. Creations'
  BY <1>1 DEF IndInv, TypeOK, Creations
<1>6. /\ \A t \in Tasks : Reached(t)' = Reached(t)
      /\ StatusReached' /\ NoStatusOutOfTheBlue' /\ OutsidersNeverWrite'
  BY TablesUnchanged
<1>7. Copies'
  BY <1>1, <1>6 DEF IndInv, TypeOK, Progress, Copies, Call
<1>8. Permissions'
  BY <1>1 DEF IndInv, TypeOK, Permissions, OrgOf, ProjectOf
<1>9. Notifications'
  BY <1>1, <1>2 DEF IndInv, Notifications, JobOf, Goto
<1> QED
  BY <1>3, <1>4, <1>5, <1>6, <1>7, <1>8, <1>9 DEF IndInv

LEMMA AnswerType ==
    ASSUME IndInv, NEW r, NEW a \in Finals, answer' = [answer EXCEPT ![r] = a]
    PROVE  answer' \in [Requests -> Finals \cup {"none"}]
  BY DEF IndInv, TypeOK

LEMMA JoinIndInv ==
    ASSUME IndInv, NEW u \in Accounts, NEW o \in Orgs, Join(u, o)
    PROVE  IndInv'
<1>1. /\ members' = members \cup {<<u, o>>}
      /\ UNCHANGED <<tasks, pc, call, snap, flushed, jobs, answer, committed>>
  BY DEF Join
<1>2. TypeOK'
  BY <1>1 DEF IndInv, TypeOK
<1>3. Progress' /\ Creations' /\ Permissions' /\ Notifications'
  BY <1>1 DEF IndInv, Progress, Creations, Permissions, Notifications, OrgOf,
              ProjectOf, JobOf
<1>4. /\ \A t \in Tasks : Reached(t)' = Reached(t)
      /\ StatusReached' /\ NoStatusOutOfTheBlue' /\ OutsidersNeverWrite'
  BY <1>1, TablesUnchanged
<1>5. Copies'
  BY <1>1, <1>4 DEF IndInv, Progress, Copies, Call
<1> QED
  BY <1>2, <1>3, <1>4, <1>5 DEF IndInv

LEMMA StutterIndInv ==
    ASSUME IndInv, UNCHANGED vars
    PROVE  IndInv'
<1>1. TypeOK'
  BY DEF vars, IndInv, TypeOK
<1>2. Progress' /\ Creations' /\ Permissions' /\ Notifications'
  BY DEF vars, IndInv, Progress, Creations, Permissions, Notifications, OrgOf,
         ProjectOf, JobOf
<1>3. /\ \A t \in Tasks : Reached(t)' = Reached(t)
      /\ StatusReached' /\ NoStatusOutOfTheBlue' /\ OutsidersNeverWrite'
  BY TablesUnchanged DEF vars
<1>4. Copies'
  BY <1>3 DEF vars, IndInv, Progress, Copies, Call
<1> QED
  BY <1>1, <1>2, <1>3, <1>4 DEF IndInv

LEMMA NextIndInv == IndInv /\ [Next]_vars => IndInv'
<1> SUFFICES ASSUME IndInv, [Next]_vars PROVE IndInv'
  OBVIOUS
<1>1. ASSUME NEW r \in Requests, Begin(r) PROVE IndInv'
  BY <1>1, BeginIndInv
<1>2. ASSUME NEW r \in Requests, EnqueueJob(r) PROVE IndInv'
  BY <1>2, AfterCommitIndInv DEF EnqueueJob, Goto, IndInv, TypeOK
<1>3. ASSUME NEW r \in Requests, EnqueueFails(r) PROVE IndInv'
  BY <1>3, AnswerType, AfterCommitIndInv DEF EnqueueFails, Finals
<1>4. ASSUME NEW r \in Requests, Respond(r) PROVE IndInv'
  BY <1>4, AnswerType, AfterCommitIndInv DEF Respond, Finals
<1>5. ASSUME NEW r \in Requests, Step(r) PROVE IndInv'
  BY <1>2, <1>4, <1>5, AuthorizeIndInv, LoadIndInv, CheckIndInv, CheckAssigneeIndInv,
     InsertTaskIndInv, UpdateStatusIndInv, AssignTaskIndInv, CommitIndInv
  DEF Step
<1>6. ASSUME NEW r \in Requests, Abort(r) PROVE IndInv'
  BY <1>6, RollbackIndInv DEF Abort, Finals
<1>7. ASSUME NEW u \in Accounts, NEW o \in Orgs, Join(u, o) PROVE IndInv'
  BY <1>7, JoinIndInv
<1>8. CASE UNCHANGED vars
  BY <1>8, StutterIndInv
<1> QED
  BY <1>1, <1>3, <1>5, <1>6, <1>7, <1>8 DEF Next, Finished

-----------------------------------------------------------------------------
(* The theorems.                                                           *)

(***************************************************************************)
(* The inductive invariant holds in every reachable state.                 *)
(***************************************************************************)
THEOREM Invariance == Spec => []IndInv
  BY InitIndInv, NextIndInv, PTL DEF Spec

(***************************************************************************)
(* Requests, rows, copies and jobs keep their types.                       *)
(***************************************************************************)
THEOREM TypeCorrect == Spec => []TypeOK
<1>1. IndInv => TypeOK
  BY DEF IndInv
<1> QED
  BY <1>1, Invariance, PTL

(***************************************************************************)
(* However many status changes race, no task has a status that none of its *)
(* former statuses leads to.                                               *)
(***************************************************************************)
THEOREM StatusesFollow == Spec => []NoStatusOutOfTheBlue
<1>1. IndInv => NoStatusOutOfTheBlue
  BY DEF IndInv
<1> QED
  BY <1>1, Invariance, PTL

(***************************************************************************)
(* Whoever has created, moved or assigned a task is a member of the        *)
(* organization of its project, whatever organization and project the path *)
(* named, and so is the assignee of every assign_task.  It says nothing of *)
(* the assignee of a create_task, which may be an outsider.                *)
(***************************************************************************)
THEOREM OnlyMembersWrite == Spec => []OutsidersNeverWrite
<1>1. IndInv => OutsidersNeverWrite
  BY DEF IndInv
<1> QED
  BY <1>1, Invariance, PTL

(***************************************************************************)
(* The queue never holds a notification of an assignment that was not      *)
(* committed.                                                              *)
(***************************************************************************)
THEOREM NotificationsFollow == Spec => []EmailsFollowCommits
<1>1. IndInv => EmailsFollowCommits
  <2>1. SUFFICES ASSUME IndInv, NEW j \in jobs
                 PROVE  /\ j.id \in committed
                        /\ j.user \in Assigned(j.task)
    BY DEF EmailsFollowCommits
  <2>2. j.id \in committed /\ call[j.id].op = "assign" /\ j = JobOf(j.id)
    BY <2>1 DEF IndInv, Notifications
  <2>3. j.user = call[j.id].target /\ j.task = call[j.id].task
    BY <2>2 DEF JobOf
  <2>4. j.user \in Assigned(j.task)
    BY <2>2, <2>3 DEF Assigned, CommittedOn
  <2> QED
    BY <2>2, <2>4
<1> QED
  BY <1>1, Invariance, PTL

(***************************************************************************)
(* A commit that leaves a task's status alone leaves alone the status of   *)
(* the moment, not the one its handler read; the assignee likewise.        *)
(***************************************************************************)
THEOREM NoLostUpdate == Spec => CommitsDoNotOverlap
<1> DEFINE Kept(t, r) ==
             /\ tasks'[t].project = tasks[t].project
             /\ call[r].op # "update" => tasks'[t].status = tasks[t].status
             /\ call[r].op # "assign" => tasks'[t].assignee = tasks[t].assignee
           Leaving(t, r) == tasks[t] # NoTask /\ pc[r] = "commit" /\ pc'[r] # "commit"
<1>1. ASSUME IndInv, Next, NEW t \in Tasks, NEW r \in Requests, Leaving(t, r)
      PROVE  Commit(r) \/ tasks' = tasks
  <2>1. ASSUME NEW q \in Requests, Commit(q) PROVE q = r
    BY <1>1, <2>1 DEF Commit, Goto, IndInv, TypeOK
  <2> QED
    BY <1>1, <2>1 DEF Next, Begin, Step, Abort, Rollback, Authorize, Load, Check,
                      CheckAssignee, InsertTask, UpdateStatus, AssignTask, Flush,
                      EnqueueJob, EnqueueFails, Respond, Join, Finished, vars
<1>2. ASSUME IndInv, Next, NEW t \in Tasks, NEW r \in Requests, Leaving(t, r), Commit(r)
      PROVE  Kept(t, r)
  <2>1. /\ call[r] \in Call /\ call[r].task \in Tasks
        /\ call[r].op \in {"create", "update", "assign"}
    BY <1>2 DEF IndInv, Progress, Call
  <2>2. call[r].op = "create" => tasks[call[r].task] = NoTask
    BY <1>2 DEF IndInv, Creations
  <2>3. tasks[t] \in TaskRow
    BY <1>2 DEF IndInv, TypeOK
  <2>4. CASE t = call[r].task /\ call[r].op = "update"
    BY <1>2, <2>1, <2>3, <2>4 DEF Commit, Written, TaskRow, IndInv, TypeOK
  <2>5. CASE t = call[r].task /\ call[r].op = "assign"
    BY <1>2, <2>1, <2>3, <2>5 DEF Commit, Written, TaskRow, IndInv, TypeOK
  <2>6. CASE t # call[r].task
    BY <1>2, <2>1, <2>6 DEF Commit, IndInv, TypeOK
  <2> QED
    BY <1>2, <2>1, <2>2, <2>4, <2>5, <2>6
<1>3. IndInv /\ [Next]_vars =>
        [\A t \in Tasks : \A r \in Requests : Leaving(t, r) => Kept(t, r)]_vars
  BY <1>1, <1>2
<1> QED
  BY <1>3, Invariance, PTL DEF Spec, CommitsDoNotOverlap

-----------------------------------------------------------------------------
(* What the clients are told.  Given the inductive invariant, this needs   *)
(* one of its own: what an answer rests on, and that it goes on doing so.  *)

Refusals == {"bad_request", "forbidden", "not_found"}

AnswerOf(r) ==
    /\ answer[r] # "none" => pc[r] = "done"
    /\ pc[r] = "respond" /\ call[r].op = "assign" => JobOf(r) \in jobs
    /\ answer[r] = "ok" =>
         r \in committed /\ (call[r].op = "assign" => JobOf(r) \in jobs)
    /\ answer[r] \in Refusals =>
         /\ r \notin committed
         /\ call[r].op = "create" => tasks[call[r].task] = NoTask

Answers == \A r \in Requests : AnswerOf(r)

\* Nobody else creates the task of a creation that has been refused.
LEMMA AbsentStays ==
    ASSUME IndInv, Next, NEW q \in Requests, pc[q] = "done", call[q].op = "create",
           tasks[call[q].task] = NoTask
    PROVE  tasks'[call[q].task] = NoTask
<1>1. ASSUME NEW r \in Requests, Commit(r), flushed[r]
      PROVE  tasks'[call[q].task] = NoTask
  <2>1. pc[r] = "commit" /\ r # q /\ call[r].task \in Tasks /\ call[q].task \in Tasks
    BY <1>1 DEF Commit, Goto, IndInv, Progress, Call
  <2>2. call[r].task # call[q].task
    BY <1>1, <2>1 DEF IndInv, Creations, Copies
  <2> QED
    BY <1>1, <2>1, <2>2 DEF Commit, IndInv, TypeOK
<1>2. (\E r \in Requests : Commit(r) /\ flushed[r]) \/ tasks' = tasks
  BY DEF Next, Begin, Step, Abort, Rollback, Authorize, Load, Check, CheckAssignee,
         InsertTask, UpdateStatus, AssignTask, Flush, Commit, EnqueueJob, EnqueueFails,
         Respond, Join, Finished, vars
<1> QED
  BY <1>1, <1>2

\* The requests that do not move keep their answers.
LEMMA AnswerStays ==
    ASSUME IndInv, Answers, Next, NEW q \in Requests,
           pc'[q] = pc[q], call'[q] = call[q], answer'[q] = answer[q],
           q \in committed' <=> q \in committed, jobs \subseteq jobs'
    PROVE  AnswerOf(q)'
<1>1. AnswerOf(q)
  BY DEF Answers
<1>2. answer[q] \in Refusals /\ call[q].op = "create" => tasks'[call[q].task] = NoTask
  BY <1>1, AbsentStays DEF AnswerOf, Refusals
<1> QED
  BY <1>1, <1>2 DEF AnswerOf, JobOf

\* A refusal comes before the commit.
LEMMA RollbackAnswers ==
    ASSUME IndInv, Answers, NEW r \in Requests, NEW a \in Refusals \cup {"aborted"},
           Rollback(r, a),
           a \in Refusals => pc[r] \in {"auth", "load", "check", "checkAssignee", "write"}
    PROVE  AnswerOf(r)'
<1>1. /\ pc'[r] = "done" /\ answer'[r] = a
      /\ UNCHANGED <<tasks, call, jobs, committed>>
  BY DEF Rollback, IndInv, TypeOK
<1>2. a \in Refusals =>
        r \notin committed /\ (call[r].op = "create" => tasks[call[r].task] = NoTask)
  BY DEF IndInv, Progress, Creations
<1> QED
  BY <1>1, <1>2 DEF AnswerOf, Refusals

LEMMA NextAnswers == IndInv /\ Answers /\ [Next]_vars => Answers'
<1> SUFFICES ASSUME IndInv, Answers, [Next]_vars, NEW q \in Requests
             PROVE  AnswerOf(q)'
  BY DEF Answers
<1>1. CASE UNCHANGED vars
  BY <1>1 DEF vars, Answers, AnswerOf, JobOf
<1>2. ASSUME Next, NEW u \in Accounts, NEW o \in Orgs, Join(u, o)
      PROVE  AnswerOf(q)'
  BY <1>2, AnswerStays DEF Join
<1>3. ASSUME Next, NEW r \in Requests, r # q,
             Begin(r) \/ Step(r) \/ EnqueueFails(r) \/ Abort(r)
      PROVE  AnswerOf(q)'
  <2>1. pc'[q] = pc[q] /\ answer'[q] = answer[q] /\ (q \in committed' <=> q \in committed)
    BY <1>3 DEF Begin, Step, Abort, Rollback, Authorize, Load, Check, CheckAssignee,
                InsertTask, UpdateStatus, AssignTask, Flush, Commit, EnqueueJob,
                EnqueueFails, Respond, Goto, IndInv, TypeOK
  <2>2. call'[q] = call[q] /\ jobs \subseteq jobs'
    BY <1>3 DEF Begin, Step, Abort, Rollback, Authorize, Load, Check, CheckAssignee,
                InsertTask, UpdateStatus, AssignTask, Flush, Commit, EnqueueJob,
                EnqueueFails, Respond, Goto, IndInv, TypeOK
  <2> QED
    BY <1>3, <2>1, <2>2, AnswerStays
<1>4. CASE Begin(q)
  <2>1. pc[q] = "idle" /\ pc'[q] = "auth" /\ answer' = answer /\ answer[q] = "none"
    BY <1>4 DEF Begin, Goto, IndInv, TypeOK, Answers, AnswerOf
  <2> QED
    BY <2>1 DEF AnswerOf, Refusals
<1>5. CASE Abort(q)
  BY <1>5, RollbackAnswers DEF Abort, Refusals
<1>6. CASE EnqueueFails(q)
  BY <1>6 DEF EnqueueFails, Goto, IndInv, TypeOK, AnswerOf, Refusals
<1>7. ASSUME NEW a \in Refusals, Rollback(q, a),
             pc[q] \in {"auth", "load", "check", "checkAssignee", "write"}
      PROVE  AnswerOf(q)'
  BY <1>7, RollbackAnswers
<1>8. ASSUME NEW from, NEW to, Goto(q, from, to), answer' = answer,
             from # "done", to \notin {"respond", "done"}
      PROVE  AnswerOf(q)'
  BY <1>8 DEF Goto, IndInv, TypeOK, Answers, AnswerOf, Refusals
<1>9. CASE \/ Authorize(q) \/ Load(q) \/ Check(q) \/ CheckAssignee(q)
           \/ InsertTask(q) \/ UpdateStatus(q) \/ AssignTask(q)
  <2>1. \/ \E a \in Refusals : Rollback(q, a)
        \/ /\ answer' = answer
           /\ \E from \in {"auth", "load", "check", "checkAssignee", "write"},
                 to \in {"load", "check", "checkAssignee", "write", "commit"} :
                Goto(q, from, to)
    BY <1>9 DEF Authorize, Load, Check, CheckAssignee, InsertTask, UpdateStatus,
                AssignTask, Flush, Refusals
  <2>2. pc[q] \in {"auth", "load", "check", "checkAssignee", "write"}
    BY <1>9 DEF Authorize, Load, Check, CheckAssignee, InsertTask, UpdateStatus,
                AssignTask
  <2> QED
    BY <1>7, <1>8, <2>1, <2>2
<1>10. CASE Commit(q)
  <2>1. /\ pc[q] = "commit" /\ pc'[q] = AfterCommit(q) /\ UNCHANGED <<call, jobs, answer>>
        /\ answer[q] = "none"
    BY <1>10 DEF Commit, Goto, IndInv, TypeOK, Answers, AnswerOf
  <2> QED
    BY <2>1 DEF AnswerOf, AfterCommit, Refusals
<1>11. CASE EnqueueJob(q)
  BY <1>11 DEF EnqueueJob, Goto, IndInv, TypeOK, Answers, AnswerOf, JobOf, Refusals
<1>12. CASE Respond(q)
  BY <1>12 DEF Respond, Goto, IndInv, TypeOK, Progress, Answers, AnswerOf, JobOf, Refusals
<1> QED
  BY <1>1, <1>2, <1>3, <1>4, <1>5, <1>6, <1>9, <1>10, <1>11, <1>12
  DEF Next, Step, Finished

(***************************************************************************)
(* What an answer rests on is there when it is given, and stays.           *)
(***************************************************************************)
THEOREM AnswersInvariance == Spec => []Answers
<1>1. Init => Answers
  BY DEF Init, Answers, AnswerOf, Refusals
<1> QED
  BY <1>1, NextAnswers, Invariance, PTL DEF Spec

(***************************************************************************)
(* 200 and 201 mean that the change is committed and its notification, if  *)
(* there is one, is in the queue; a refusal that nothing has been changed  *)
(* and nobody is notified.                                                 *)
(***************************************************************************)
THEOREM TruthfulAnswers == Spec => []AnswersAreTruthful
<1>1. IndInv /\ Answers => AnswersAreTruthful
  <2>1. SUFFICES ASSUME IndInv, Answers, NEW r \in Requests
                 PROVE  /\ answer[r] = "ok" =>
                             /\ r \in committed
                             /\ tasks[call[r].task] # NoTask
                             /\ call[r].op = "assign" => JobOf(r) \in jobs
                        /\ answer[r] \in Refusals =>
                             /\ r \notin committed
                             /\ call[r].op = "create" => tasks[call[r].task] = NoTask
                             /\ \A j \in jobs : j.id # r
    BY DEF AnswersAreTruthful, Refusals
  <2>2. AnswerOf(r)
    BY <2>1 DEF Answers
  <2>3. r \in committed => tasks[call[r].task] # NoTask
    BY <2>1 DEF IndInv, Progress
  <2>4. \A j \in jobs : j.id \in committed
    BY <2>1 DEF IndInv, Notifications
  <2> QED
    BY <2>2, <2>3, <2>4 DEF AnswerOf
<1> QED
  BY <1>1, Invariance, AnswersInvariance, PTL
=============================================================================
