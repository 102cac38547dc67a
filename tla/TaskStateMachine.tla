-------------------------- MODULE TaskStateMachine --------------------------
(***************************************************************************)
(* The status of a task and the transitions between statuses               *)
(* (src/tasks/models.py, src/tasks/state_machine.py).                      *)
(***************************************************************************)

TaskStatus == {"backlog", "in_progress", "in_review", "done", "cancelled"}

ALLOWED_TRANSITIONS ==
    [backlog     |-> {"in_progress", "cancelled"},
     in_progress |-> {"in_review", "cancelled"},
     in_review   |-> {"done", "in_progress", "cancelled"},
     done        |-> {},
     cancelled   |-> {}]

\* Fault: any change of status is a transition.
AnyTransition(current, next) == next # current

\* validate_transition does not raise.
ValidTransition(current, next) == next \in ALLOWED_TRANSITIONS[current]
=============================================================================
