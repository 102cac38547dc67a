----------------------------- MODULE TaskBoard -----------------------------
(***************************************************************************)
(* What the tasks component promises: a board of tasks whose status and    *)
(* assignee are set independently of each other, and a queue of            *)
(* notifications.                                                          *)
(*                                                                         *)
(* A new status has to follow SOME status the task has had, not the one it *)
(* has: TaskService.tla decides on a copy that may be out of date, and     *)
(* this is what remains true of the state machine then.                    *)
(***************************************************************************)
EXTENDS TaskStateMachine

CONSTANTS Users, Projects, Tasks, JobIds, Nobody, NoTask

VARIABLES
    tasks,      \* the row of every task, NoTask if absent
    reached,    \* the statuses every task has had
    assigned,   \* the assignees every task has had
    jobs        \* the notifications enqueued

vars == <<tasks, reached, assigned, jobs>>

Init ==
    /\ tasks = [t \in Tasks |-> NoTask]
    /\ reached = [t \in Tasks |-> {}]
    /\ assigned = [t \in Tasks |-> {}]
    /\ jobs = {}

Create(t, p, u) ==
    /\ tasks[t] = NoTask
    /\ tasks' = [tasks EXCEPT
                   ![t] = [project |-> p, assignee |-> u, status |-> "backlog"]]
    /\ reached' = [reached EXCEPT ![t] = {"backlog"}]
    /\ assigned' = [assigned EXCEPT ![t] = {u}]
    /\ UNCHANGED jobs

SetStatus(t, s) ==
    /\ \E former \in reached[t] : ValidTransition(former, s)
    /\ tasks' = [tasks EXCEPT ![t].status = s]
    /\ reached' = [reached EXCEPT ![t] = @ \cup {s}]
    /\ UNCHANGED <<assigned, jobs>>

Assign(t, u) ==
    /\ tasks[t] # NoTask
    /\ tasks' = [tasks EXCEPT ![t].assignee = u]
    /\ assigned' = [assigned EXCEPT ![t] = @ \cup {u}]
    /\ UNCHANGED <<reached, jobs>>

\* At most one notification for an assignment, and none without one.
Notify(id, t, u) ==
    /\ u \in assigned[t]
    /\ \A j \in jobs : j.id # id
    /\ jobs' = jobs \cup {[id |-> id, user |-> u, task |-> t]}
    /\ UNCHANGED <<tasks, reached, assigned>>

Next ==
    \E t \in Tasks :
        \/ \E p \in Projects, u \in Users \cup {Nobody} : Create(t, p, u)
        \/ \E s \in TaskStatus : SetStatus(t, s)
        \/ \E u \in Users : Assign(t, u)
        \/ \E id \in JobIds, u \in Users : Notify(id, t, u)

Spec == Init /\ [][Next]_vars
=============================================================================
