-------------------------- MODULE TaskBoardProofs --------------------------
(***************************************************************************)
(* TaskService implements TaskBoard: for any number of concurrent          *)
(* requests, every step of a handler is a step of the board or changes     *)
(* nothing that the board shows.                                           *)
(*                                                                         *)
(* The commit is the step that counts.  What the handler has read is       *)
(* stale by then, and the inductive invariant of TaskServiceProofs says    *)
(* what is left of it.  Here it is complemented by what the assignees and  *)
(* the queue need: an assignment that emits no UPDATE, because its copy    *)
(* has that assignee already, sets an assignee the task has had.           *)
(***************************************************************************)
EXTENDS TaskServiceProofs

Reading == {"check", "checkAssignee", "write", "commit"}

\* The assignee of a copy is one the task has had, and a transaction that has
\* no UPDATE to commit would set it again.
Copied(r) ==
    pc[r] \in Reading /\ call[r].op # "create" =>
        /\ snap[r].assignee \in Assigned(call[r].task)
        /\ pc[r] = "commit" /\ ~flushed[r] => call[r].target = snap[r].assignee

Assignees ==
    /\ \A t \in Tasks : tasks[t] # NoTask => tasks[t].assignee \in Assigned(t)
    /\ \A r \in Requests : Copied(r)

\* A request whose job is in the queue does not enqueue another one.
EnqueuedOnce == \A j \in jobs : pc[j.id] \in {"respond", "done"}

BoardInv == Assignees /\ EnqueuedOnce

-----------------------------------------------------------------------------
(* The history.                                                            *)

\* A commit adds itself to the history of its task.
LEMMA CommitHistory ==
    ASSUME IndInv, NEW r \in Requests, Commit(r), NEW t \in Tasks, NEW ops
    PROVE  CommittedOn(t, ops)' =
             IF call[r].task = t /\ call[r].op \in ops THEN CommittedOn(t, ops) \cup {r}
                                                       ELSE CommittedOn(t, ops)
<1>1. committed' = committed \cup {r} /\ call' = call
  BY DEF Commit
<1> QED
  BY <1>1 DEF CommittedOn

\* What the commit has to write is a row, and one that follows on.
LEMMA CommitReady ==
    ASSUME IndInv, NEW r \in Requests, Commit(r)
    PROVE  /\ pc[r] = "commit" /\ r \notin committed
           /\ call[r] \in Call /\ call[r].op \in {"create", "update", "assign"}
           /\ call[r].op # "assign" => flushed[r]
           /\ call[r].op = "assign" => call[r].target # Nobody
           /\ call[r].op = "create" => tasks[call[r].task] = NoTask
           /\ call[r].op # "create" => tasks[call[r].task] \in TaskRow
           /\ Written(r) \in TaskRow
<1>1. /\ pc[r] = "commit" /\ r \notin committed
      /\ call[r] \in Call /\ call[r].op \in {"create", "update", "assign"}
      /\ call[r].op # "assign" => flushed[r]
      /\ call[r].op = "assign" => call[r].target # Nobody
  BY DEF Commit, Goto, IndInv, Progress, Call
<1>2. /\ call[r].op = "create" => tasks[call[r].task] = NoTask
      /\ call[r].op # "create" => tasks[call[r].task] \in TaskRow
  BY <1>1 DEF IndInv, TypeOK, Creations, Copies, Call
<1>3. Written(r) \in TaskRow
  BY <1>1, <1>2 DEF Written, TaskRow, Call, TaskStatus
<1> QED
  BY <1>1, <1>2, <1>3

\* What a commit adds to the history of a task.
LEMMA CommitLooksBack ==
    ASSUME IndInv, NEW r \in Requests, Commit(r), NEW t \in Tasks
    PROVE  /\ Assigned(t)' =
                IF call[r].task = t /\ call[r].op # "update"
                THEN Assigned(t) \cup {call[r].target} ELSE Assigned(t)
           /\ tasks[t] # NoTask =>
                Reached(t)' =
                  IF call[r].task = t /\ call[r].op = "update"
                  THEN Reached(t) \cup {call[r].status} ELSE Reached(t)
           /\ call[r].task # t => Reached(t)' = Reached(t)
<1>1. pc[r] = "commit" /\ call[r] \in Call /\ call' = call
  BY DEF Commit, Goto, IndInv, Progress
<1>2. call[r].op \in {"create", "update", "assign"}
  BY <1>1 DEF Call
<1>3. call[r].task = t => tasks'[t] = IF flushed[r] THEN Written(r) ELSE tasks[t]
  BY DEF Commit, IndInv, TypeOK
<1>4. call[r].task # t => tasks'[t] = tasks[t]
  BY DEF Commit, IndInv, TypeOK
<1>5. tasks[t] # NoTask => tasks'[t] # NoTask
  BY <1>3, <1>4, CommitReady, NoTaskIsNoTask
<1>6. Assigned(t)' = {call[q].target : q \in CommittedOn(t, {"create", "assign"})'}
  BY <1>1 DEF Assigned
<1>7. Reached(t)' = IF tasks'[t] = NoTask THEN {}
                    ELSE {"backlog"} \cup {call[q].status : q \in CommittedOn(t, {"update"})'}
  BY <1>1 DEF Reached
<1>8. CommittedOn(t, {"update"})' =
        IF call[r].task = t /\ call[r].op \in {"update"}
        THEN CommittedOn(t, {"update"}) \cup {r} ELSE CommittedOn(t, {"update"})
  BY CommitHistory
<1>9. CommittedOn(t, {"create", "assign"})' =
        IF call[r].task = t /\ call[r].op \in {"create", "assign"}
        THEN CommittedOn(t, {"create", "assign"}) \cup {r}
        ELSE CommittedOn(t, {"create", "assign"})
  BY CommitHistory
<1>10. Assigned(t)' =
         IF call[r].task = t /\ call[r].op # "update"
         THEN Assigned(t) \cup {call[r].target} ELSE Assigned(t)
  BY <1>2, <1>6, <1>9 DEF Assigned
<1>11. tasks[t] # NoTask =>
         Reached(t)' = IF call[r].task = t /\ call[r].op = "update"
                       THEN Reached(t) \cup {call[r].status} ELSE Reached(t)
  BY <1>5, <1>7, <1>8 DEF Reached
<1>12. call[r].task # t => Reached(t)' = Reached(t)
  BY <1>4, <1>7, <1>8 DEF Reached
<1> QED
  BY <1>10, <1>11, <1>12

\* Nothing else changes it.
LEMMA HistoryStays ==
    ASSUME IndInv, UNCHANGED <<tasks, committed>>, \A r \in committed : call'[r] = call[r]
    PROVE  \A t \in Tasks : Reached(t)' = Reached(t) /\ Assigned(t)' = Assigned(t)
<1>1. \A t \in Tasks :
        /\ CommittedOn(t, {"update"})' = CommittedOn(t, {"update"})
        /\ CommittedOn(t, {"create", "assign"})' = CommittedOn(t, {"create", "assign"})
  BY DEF CommittedOn
<1>2. \A t \in Tasks : Assigned(t)' = Assigned(t)
  BY <1>1 DEF Assigned, CommittedOn
<1>3. \A t \in Tasks : Reached(t)' = Reached(t)
  BY <1>1 DEF Reached, CommittedOn
<1> QED
  BY <1>2, <1>3

Moves(r) == Begin(r) \/ Step(r) \/ EnqueueFails(r) \/ Abort(r)

\* A handler only ever touches what is its own, and only commits publish.
LEMMA Frame ==
    ASSUME IndInv, NEW r \in Requests, Moves(r)
    PROVE  /\ \A q \in Requests \ {r} :
                /\ pc'[q] = pc[q] /\ call'[q] = call[q]
                /\ snap'[q] = snap[q] /\ flushed'[q] = flushed[q]
           /\ pc[r] # "idle" => call' = call
           /\ Commit(r) \/ UNCHANGED <<tasks, committed>>
           /\ jobs' = jobs \/ (pc[r] = "enqueue" /\ jobs' \in {jobs, jobs \cup {JobOf(r)}})
<1>1. Begin(r) \/ Step(r) \/ EnqueueFails(r) \/ Abort(r)
  BY DEF Moves
<1>2. \A q \in Requests \ {r} : pc'[q] = pc[q] /\ call'[q] = call[q]
  BY <1>1 DEF Begin, Step, Abort, Rollback, Authorize, Load, Check, CheckAssignee,
              InsertTask, UpdateStatus, AssignTask, Flush, Commit, EnqueueJob,
              EnqueueFails, Respond, Goto, IndInv, TypeOK
<1>3. \A q \in Requests \ {r} : snap'[q] = snap[q] /\ flushed'[q] = flushed[q]
  BY <1>1 DEF Begin, Step, Abort, Rollback, Authorize, Load, Check, CheckAssignee,
              InsertTask, UpdateStatus, AssignTask, Flush, Commit, EnqueueJob,
              EnqueueFails, Respond, Goto, IndInv, TypeOK
<1>4. pc[r] # "idle" => call' = call
  BY <1>1 DEF Begin, Step, Abort, Rollback, Authorize, Load, Check, CheckAssignee,
              InsertTask, UpdateStatus, AssignTask, Flush, Commit, EnqueueJob,
              EnqueueFails, Respond, Goto
<1>5. Commit(r) \/ UNCHANGED <<tasks, committed>>
  BY <1>1 DEF Begin, Step, Abort, Rollback, Authorize, Load, Check, CheckAssignee,
              InsertTask, UpdateStatus, AssignTask, Flush, EnqueueJob,
              EnqueueFails, Respond
<1>6. jobs' = jobs \/ (pc[r] = "enqueue" /\ jobs' \in {jobs, jobs \cup {JobOf(r)}})
  BY <1>1 DEF Begin, Step, Abort, Rollback, Authorize, Load, Check, CheckAssignee,
              InsertTask, UpdateStatus, AssignTask, Flush, Commit, EnqueueJob,
              EnqueueFails, Respond, Goto
<1> QED
  BY <1>2, <1>3, <1>4, <1>5, <1>6

-----------------------------------------------------------------------------
(* The invariant.                                                          *)

\* Of the copies: taken when the task is read, decided upon in the flush.
LEMMA CopyStep ==
    ASSUME IndInv, Assignees, NEW r \in Requests, Moves(r),
           \A t \in Tasks : Assigned(t)' = Assigned(t)
    PROVE  Copied(r)'
<1> SUFFICES ASSUME pc'[r] \in Reading, call'[r].op # "create"
             PROVE  Copied(r)'
  BY DEF Copied
<1>1. \/ Load(r) \/ Check(r) \/ CheckAssignee(r)
      \/ InsertTask(r) \/ UpdateStatus(r) \/ AssignTask(r)
  BY DEF Moves, Begin, Step, Abort, Rollback, Authorize, Commit, AfterCommit, EnqueueJob,
         EnqueueFails, Respond, Goto, IndInv, TypeOK, Reading
<1>2. pc[r] # "idle" /\ call' = call /\ call[r] \in Call /\ call[r].task \in Tasks
  <2>1. pc[r] # "idle" /\ call' = call
    BY <1>1 DEF Load, Check, CheckAssignee, InsertTask, UpdateStatus, AssignTask, Flush,
                Rollback, Goto
  <2> QED
    BY <2>1 DEF IndInv, Progress, Call
<1>3. CASE Load(r)
  <2>1. /\ pc'[r] = "check" /\ snap'[r] = tasks[call[r].task]
        /\ tasks[call[r].task] # NoTask
    BY <1>2, <1>3 DEF Load, Rollback, Goto, IndInv, TypeOK, Reading
  <2> QED
    BY <1>2, <2>1 DEF Assignees, Copied
<1>4. CASE ~Load(r)
  <2>1. /\ snap' = snap /\ pc[r] \in Reading \ {"commit"}
        /\ pc'[r] = "commit" /\ ~flushed'[r] => call[r].target = snap[r].assignee
    BY <1>1, <1>2, <1>4 DEF Check, CheckAssignee, InsertTask, UpdateStatus, AssignTask,
         Flush, Rollback, Goto, IndInv, TypeOK, Reading
  <2> QED
    BY <1>2, <2>1 DEF Assignees, Copied
<1> QED
  BY <1>3, <1>4

LEMMA CommitAssignees ==
    ASSUME IndInv, Assignees, NEW r \in Requests, Commit(r)
    PROVE  Assignees'
<1> DEFINE t == call[r].task
<1>1. /\ pc'[r] \notin Reading /\ UNCHANGED <<call, snap>>
      /\ t \in Tasks /\ call[r].op \in {"create", "update", "assign"}
  BY CommitReady DEF Commit, AfterCommit, Goto, IndInv, TypeOK, Reading, Call
<1>2. \A s \in Tasks : Assigned(s) \subseteq Assigned(s)'
  BY CommitLooksBack
<1>3. \A s \in Tasks \ {t} : tasks'[s] = tasks[s]
  BY DEF Commit, IndInv, TypeOK
<1>4. tasks'[t] = IF flushed[r] THEN Written(r) ELSE tasks[t]
  BY <1>1 DEF Commit, IndInv, TypeOK
<1>5. tasks'[t] # NoTask /\ tasks'[t].assignee \in Assigned(t)'
  <2>1. CASE ~flushed[r]
    BY <1>1, <1>2, <1>4, <2>1, CommitReady, NoTaskIsNoTask DEF Assignees
  <2>2. CASE flushed[r] /\ call[r].op = "update"
    <3>1. tasks'[t].assignee = tasks[t].assignee /\ tasks[t] # NoTask
      <4>1. tasks[t] \in TaskRow /\ tasks'[t] = [tasks[t] EXCEPT !.status = call[r].status]
        BY <1>1, <1>4, <2>2, CommitReady DEF Written
      <4> QED
        BY <4>1, NoTaskIsNoTask DEF TaskRow
    <3> QED
      BY <1>1, <1>2, <1>4, <2>2, <3>1, CommitReady, NoTaskIsNoTask DEF Assignees
  <2>3. CASE flushed[r] /\ call[r].op # "update"
    <3>1. tasks'[t].assignee = call[r].target
      BY <1>1, <1>4, <2>3, CommitReady DEF Written, TaskRow
    <3> QED
      BY <1>1, <1>4, <2>3, <3>1, CommitReady, CommitLooksBack, NoTaskIsNoTask
  <2> QED
    BY <2>1, <2>2, <2>3
<1>6. \A q \in Requests \ {r} : pc'[q] = pc[q] /\ flushed'[q] = flushed[q]
  BY Frame DEF Moves, Step
<1>7. ASSUME NEW q \in Requests, pc'[q] \in Reading, call[q].op # "create"
      PROVE  Copied(q)'
  <2>1. q # r /\ pc[q] = pc'[q] /\ flushed'[q] = flushed[q]
    BY <1>1, <1>6, <1>7
  <2>2. call[q].task \in Tasks
    BY <1>7, <2>1 DEF Reading, IndInv, Progress, Call
  <2> QED
    BY <1>1, <1>2, <1>7, <2>1, <2>2 DEF Assignees, Copied
<1> QED
  BY <1>1, <1>2, <1>3, <1>5, <1>7 DEF Assignees, Copied

LEMMA MoveBoardInv ==
    ASSUME IndInv, BoardInv, NEW r \in Requests, Moves(r)
    PROVE  BoardInv'
<1>1. EnqueuedOnce'
  <2>1. ASSUME NEW j \in jobs PROVE pc'[j.id] \in {"respond", "done"}
    <3>1. j.id \in Requests /\ pc[j.id] \in {"respond", "done"}
      BY DEF BoardInv, EnqueuedOnce, IndInv, TypeOK, Job
    <3>2. CASE j.id # r
      BY <3>1, <3>2, Frame
    <3>3. CASE j.id = r
      BY <3>1, <3>3 DEF Moves, Begin, Step, Abort, Rollback, Authorize, Load, Check,
         CheckAssignee, InsertTask, UpdateStatus, AssignTask, Flush, Commit, EnqueueJob,
         EnqueueFails, Respond, Goto, IndInv, TypeOK
    <3> QED
      BY <3>2, <3>3
  <2>2. pc[r] = "enqueue" => pc'[r] \in {"respond", "done"}
    BY DEF Moves, Begin, Step, Abort, Rollback, Authorize, Load, Check,
         CheckAssignee, InsertTask, UpdateStatus, AssignTask, Flush, Commit, EnqueueJob,
         EnqueueFails, Respond, Goto, IndInv, TypeOK
  <2> QED
    BY <2>1, <2>2, Frame DEF EnqueuedOnce, JobOf
<1>2. CASE Commit(r)
  BY <1>1, <1>2, CommitAssignees DEF BoardInv
<1>3. CASE ~Commit(r)
  <2>1. UNCHANGED <<tasks, committed>> /\ \A q \in committed : call'[q] = call[q]
    <3>1. committed \subseteq Requests /\ \A q \in committed : pc[q] # "idle"
      BY DEF IndInv, TypeOK, Progress
    <3> QED
      BY <1>3, <3>1, Frame
  <2>2. \A t \in Tasks : Assigned(t)' = Assigned(t)
    BY <2>1, HistoryStays
  <2>3. ASSUME NEW q \in Requests PROVE Copied(q)'
    <3>1. CASE q = r
      BY <2>2, <2>3, <3>1, CopyStep DEF BoardInv
    <3>2. CASE q # r
      <4>1. /\ pc'[q] = pc[q] /\ call'[q] = call[q]
            /\ snap'[q] = snap[q] /\ flushed'[q] = flushed[q]
        BY <3>2, Frame
      <4>2. pc[q] \in Reading => call[q].task \in Tasks
        BY DEF Reading, IndInv, Progress, Call
      <4> QED
        BY <2>2, <4>1, <4>2 DEF BoardInv, Assignees, Copied
    <3> QED
      BY <3>1, <3>2
  <2> QED
    BY <1>1, <2>1, <2>2, <2>3 DEF BoardInv, Assignees
<1> QED
  BY <1>2, <1>3

LEMMA NextBoardInv == IndInv /\ BoardInv /\ [Next]_vars => BoardInv'
<1> SUFFICES ASSUME IndInv, BoardInv, [Next]_vars PROVE BoardInv'
  OBVIOUS
<1>1. ASSUME UNCHANGED <<tasks, pc, call, snap, flushed, jobs, committed>>
      PROVE  BoardInv'
  BY <1>1 DEF BoardInv, Assignees, Copied, EnqueuedOnce, Assigned, CommittedOn
<1>2. CASE UNCHANGED vars \/ \E u \in Accounts, o \in Orgs : Join(u, o)
  BY <1>1, <1>2 DEF vars, Join
<1> QED
  BY <1>2, MoveBoardInv DEF Next, Finished, Moves

(***************************************************************************)
(* Whatever assignee a handler has in its copy, the task has had it; and   *)
(* no request has enqueued a notification before its own enqueue step.     *)
(***************************************************************************)
THEOREM BoardInvariance == Spec => []BoardInv
<1>1. Init => BoardInv
  BY DEF Init, BoardInv, Assignees, Copied, EnqueuedOnce, Reading
<1> QED
  BY <1>1, NextBoardInv, Invariance, PTL DEF Spec

-----------------------------------------------------------------------------
(* The steps of the board.                                                 *)

LEMMA CreateStep ==
    ASSUME IndInv, NEW r \in Requests, Commit(r), call[r].op = "create"
    PROVE  Board!Next
<1> DEFINE t == call[r].task
           c == call[r]
<1>1. /\ t \in Tasks /\ c.project \in Projects /\ c.target \in Users \cup {Nobody}
      /\ tasks[t] = NoTask
      /\ tasks' = [tasks EXCEPT ![t] = [project |-> c.project, assignee |-> c.target,
                                        status |-> "backlog"]]
      /\ tasks'[t] # NoTask /\ jobs' = jobs /\ call' = call
  BY CommitReady, NoTaskIsNoTask DEF Commit, Written, Call, IndInv, TypeOK
<1>2. \A q \in committed : call[q].task # t
  BY <1>1 DEF IndInv, Progress, TypeOK
<1>3. \A s \in Tasks \ {t} : Reached(s)' = Reached(s) /\ Assigned(s)' = Assigned(s)
  BY CommitLooksBack
<1>4. /\ CommittedOn(t, {"update"})' = {}
      /\ CommittedOn(t, {"create", "assign"})' = {r}
  <2>1. CommittedOn(t, {"update"}) = {} /\ CommittedOn(t, {"create", "assign"}) = {}
    BY <1>2 DEF CommittedOn
  <2> QED
    BY <1>1, <2>1, CommitHistory
<1>5. Reached(t)' = {"backlog"} /\ Assigned(t)' = {c.target}
  BY <1>1, <1>4 DEF Reached, Assigned
<1>6. /\ [s \in Tasks |-> Reached(s)]' = [[s \in Tasks |-> Reached(s)] EXCEPT ![t] = {"backlog"}]
      /\ [s \in Tasks |-> Assigned(s)]' = [[s \in Tasks |-> Assigned(s)] EXCEPT ![t] = {c.target}]
  BY <1>1, <1>3, <1>5
<1>7. Board!Create(t, c.project, c.target)
  BY <1>1, <1>6 DEF Board!Create
<1> QED
  BY <1>1, <1>7 DEF Board!Next

LEMMA SetStatusStep ==
    ASSUME IndInv, NEW r \in Requests, Commit(r), call[r].op = "update"
    PROVE  Board!Next
<1> DEFINE t == call[r].task
           s == call[r].status
<1>1. /\ t \in Tasks /\ s \in TaskStatus
      /\ tasks[t] # NoTask /\ tasks' = [tasks EXCEPT ![t].status = s]
      /\ jobs' = jobs /\ call' = call
  <2>1. t \in Tasks /\ s \in TaskStatus /\ tasks[t] # NoTask /\ flushed[r]
    BY CommitReady, NoTaskIsNoTask DEF Call
  <2>2. tasks' = [tasks EXCEPT ![t] = Written(r)] /\ jobs' = jobs /\ call' = call
    BY <2>1 DEF Commit
  <2>3. Written(r) = [tasks[t] EXCEPT !.status = s]
    BY DEF Written
  <2> QED
    BY <2>1, <2>2, <2>3
<1>2. \E former \in Reached(t) : ValidTransition(former, s)
  BY CommitReady DEF IndInv, Copies, ValidTransition
<1>3. /\ Reached(t)' = Reached(t) \cup {s}
      /\ \A u \in Tasks \ {t} : Reached(u)' = Reached(u)
      /\ \A u \in Tasks : Assigned(u)' = Assigned(u)
  BY <1>1, CommitLooksBack
<1>4. /\ [u \in Tasks |-> Reached(u)]' =
           [[u \in Tasks |-> Reached(u)] EXCEPT ![t] = @ \cup {s}]
      /\ [u \in Tasks |-> Assigned(u)]' = [u \in Tasks |-> Assigned(u)]
  BY <1>1, <1>3
<1>5. Board!SetStatus(t, s)
  BY <1>1, <1>2, <1>4 DEF Board!SetStatus, Board!ValidTransition, Board!ALLOWED_TRANSITIONS,
     ValidTransition, ALLOWED_TRANSITIONS
<1> QED
  BY <1>1, <1>5 DEF Board!Next, Board!TaskStatus, TaskStatus

\* An assignment that has written nothing is a step the board does not see.
LEMMA AssignStep ==
    ASSUME IndInv, BoardInv, NEW r \in Requests, Commit(r), call[r].op = "assign"
    PROVE  [Board!Next]_(Board!vars)
<1> DEFINE t == call[r].task
           u == call[r].target
<1>1. /\ t \in Tasks /\ u \in Users /\ tasks[t] # NoTask
      /\ tasks' = IF flushed[r] THEN [tasks EXCEPT ![t].assignee = u] ELSE tasks
      /\ jobs' = jobs /\ call' = call
  <2>1. t \in Tasks /\ u \in Users /\ tasks[t] # NoTask
    BY CommitReady, NoTaskIsNoTask DEF Call
  <2>2. /\ tasks' = IF flushed[r] THEN [tasks EXCEPT ![t] = Written(r)] ELSE tasks
        /\ jobs' = jobs /\ call' = call
    BY DEF Commit
  <2>3. Written(r) = [tasks[t] EXCEPT !.assignee = u]
    BY DEF Written
  <2> QED
    BY <2>1, <2>2, <2>3
<1>2. /\ Assigned(t)' = Assigned(t) \cup {u}
      /\ \A s \in Tasks \ {t} : Assigned(s)' = Assigned(s)
      /\ \A s \in Tasks : Reached(s)' = Reached(s)
  <2>1. \A s \in Tasks : Reached(s)' = Reached(s)
    BY <1>1, CommitLooksBack
  <2> QED
    BY <1>1, <2>1, CommitLooksBack
<1>3. [s \in Tasks |-> Reached(s)]' = [s \in Tasks |-> Reached(s)]
  BY <1>2
<1>4. CASE flushed[r]
  <2>1. [s \in Tasks |-> Assigned(s)]' = [[s \in Tasks |-> Assigned(s)] EXCEPT ![t] = @ \cup {u}]
    BY <1>1, <1>2
  <2>2. Board!Assign(t, u)
    BY <1>1, <1>3, <1>4, <2>1 DEF Board!Assign
  <2> QED
    BY <1>1, <2>2 DEF Board!Next
<1>5. CASE ~flushed[r]
  <2>1. u \in Assigned(t)
    <3>1. pc[r] = "commit" /\ u = snap[r].assignee /\ Copied(r)
      BY <1>5, CommitReady DEF BoardInv, Assignees, Copied, Reading
    <3> QED
      BY <3>1 DEF Copied, Reading
  <2>2. Assigned(t) \cup {u} = Assigned(t)
    BY <2>1
  <2>3. \A s \in Tasks : Assigned(s)' = Assigned(s)
    BY <1>1, <1>2, <2>2
  <2>4. [s \in Tasks |-> Assigned(s)]' = [s \in Tasks |-> Assigned(s)]
    BY <2>3
  <2> QED
    BY <1>1, <1>3, <1>5, <2>4 DEF Board!vars
<1> QED
  BY <1>4, <1>5

\* A job in the queue: of a committed assignment, and its first.
LEMMA NotifyStep ==
    ASSUME IndInv, BoardInv, NEW r \in Requests, pc[r] = "enqueue",
           jobs' = jobs \cup {JobOf(r)}, tasks' = tasks,
           \A t \in Tasks : Reached(t)' = Reached(t) /\ Assigned(t)' = Assigned(t)
    PROVE  Board!Next
<1> DEFINE t == call[r].task
           u == call[r].target
<1>1. /\ call[r] \in Call /\ call[r].op = "assign" /\ t \in Tasks /\ u \in Users
      /\ r \in committed
  BY DEF IndInv, Progress, Call
<1>2. u \in Assigned(t)
  BY <1>1 DEF Assigned, CommittedOn
<1>3. \A j \in jobs : j.id # r
  BY DEF BoardInv, EnqueuedOnce
<1>4. /\ [s \in Tasks |-> Reached(s)]' = [s \in Tasks |-> Reached(s)]
      /\ [s \in Tasks |-> Assigned(s)]' = [s \in Tasks |-> Assigned(s)]
  OBVIOUS
<1>5. Board!Notify(r, t, u)
  BY <1>1, <1>2, <1>3, <1>4 DEF Board!Notify, JobOf
<1> QED
  BY <1>1, <1>5 DEF Board!Next

LEMMA BoardStep == IndInv /\ BoardInv /\ [Next]_vars => [Board!Next]_(Board!vars)
<1> SUFFICES ASSUME IndInv, BoardInv, [Next]_vars PROVE [Board!Next]_(Board!vars)
  OBVIOUS
<1>1. ASSUME UNCHANGED <<tasks, jobs>>,
             \A t \in Tasks : Reached(t)' = Reached(t) /\ Assigned(t)' = Assigned(t)
      PROVE  UNCHANGED Board!vars
  BY <1>1 DEF Board!vars
<1>2. CASE UNCHANGED vars \/ \E u \in Accounts, o \in Orgs : Join(u, o)
  <2>1. UNCHANGED <<tasks, call, jobs, committed>>
    BY <1>2 DEF vars, Join
  <2> QED
    BY <1>1, <2>1, HistoryStays
<1>3. ASSUME NEW r \in Requests, Moves(r), ~Commit(r) PROVE [Board!Next]_(Board!vars)
  <2>1. UNCHANGED <<tasks, committed>> /\ \A q \in committed : call'[q] = call[q]
    <3>1. committed \subseteq Requests /\ \A q \in committed : pc[q] # "idle"
      BY DEF IndInv, TypeOK, Progress
    <3> QED
      BY <1>3, <3>1, Frame
  <2>2. \A t \in Tasks : Reached(t)' = Reached(t) /\ Assigned(t)' = Assigned(t)
    BY <2>1, HistoryStays
  <2>3. jobs' = jobs \/ (pc[r] = "enqueue" /\ jobs' = jobs \cup {JobOf(r)})
    BY <1>3, Frame
  <2> QED
    BY <1>1, <2>1, <2>2, <2>3, NotifyStep
<1>4. ASSUME NEW r \in Requests, Commit(r) PROVE [Board!Next]_(Board!vars)
  BY <1>4, CommitReady, CreateStep, SetStatusStep, AssignStep
<1> QED
  BY <1>2, <1>3, <1>4 DEF Next, Finished, Moves

(***************************************************************************)
(* Seen through the committed tables and the queue, concurrent requests    *)
(* with their stale copies are atomic steps of the board.                  *)
(***************************************************************************)
THEOREM Refinement == Spec => ImplementsBoard
<1>1. Init => Board!Init
  BY DEF Init, Board!Init, Reached, Assigned, CommittedOn
<1> QED
  BY <1>1, BoardStep, Invariance, BoardInvariance, PTL DEF Spec, ImplementsBoard, Board!Spec
=============================================================================
