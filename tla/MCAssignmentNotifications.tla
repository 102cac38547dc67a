--------------------- MODULE MCAssignmentNotifications ---------------------
(***************************************************************************)
(* The instance of AssignmentNotifications for TLC: a task is created and  *)
(* assigned to its creator, up to twice, or to somebody unknown.           *)
(***************************************************************************)
EXTENDS AssignmentNotifications, TLC

CONSTANTS alice, carol, acme, site, t1

MCProjectOrg == site :> acme

Ask(op, a) ==
    [op |-> op, user |-> alice, org |-> acme, project |-> site, task |-> t1,
     status |-> "backlog", target |-> a]

MCCalls ==
    {Ask("create", Nobody), Ask("assign", alice), Ask("assign", carol)}
=============================================================================
