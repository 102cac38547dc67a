--------------------------- MODULE MCTaskService ---------------------------
(***************************************************************************)
(* Instances of TaskService for TLC.                                       *)
(*                                                                         *)
(* alice has an account, dave has none; two organizations, a project of    *)
(* the first one, and a project that does not exist.                       *)
(***************************************************************************)
EXTENDS TaskService, TLC

CONSTANTS alice, dave, acme, beta, site, ghost, t1

MCProjectOrg == (site :> acme) @@ (ghost :> NoOrg)

CreateIn(u, o, p, a) ==
    [op |-> "create", user |-> u, org |-> o, project |-> p, task |-> t1,
     status |-> "backlog", target |-> a]

Update(u, o, s) ==
    [op |-> "update", user |-> u, org |-> o, project |-> site, task |-> t1,
     status |-> s, target |-> Nobody]

Assign(u, o, a) ==
    [op |-> "assign", user |-> u, org |-> o, project |-> site, task |-> t1,
     status |-> "backlog", target |-> a]

\* Races of status changes for the lock of one row: one member, one task, a
\* change to each status.
MCStatusCalls ==
    {CreateIn(alice, acme, site, Nobody), Assign(alice, acme, alice)} \cup
    {Update(alice, acme, s) : s \in {"in_progress", "in_review", "done", "cancelled"}}

\* Races of status changes and assignments, and the requests that are refused:
\* from the path of another organization, for nobody's account, in a project
\* that is not there.
MCTaskCalls ==
    {CreateIn(alice, acme, site, Nobody), CreateIn(alice, beta, site, Nobody),
     CreateIn(alice, acme, site, dave), CreateIn(alice, acme, ghost, Nobody),
     Assign(alice, acme, alice), Assign(alice, acme, dave),
     Update(alice, acme, "in_progress"), Update(alice, acme, "in_review"),
     Update(alice, beta, "cancelled")}
=============================================================================
