----------------------------- MODULE MCProjects -----------------------------
(***************************************************************************)
(* The instance of Projects for TLC: two organizations with a project of   *)
(* each, alice an admin of the first and anything or nothing in the        *)
(* second, whose owner is bob; paths that fit and paths that do not; pages *)
(* at the beginning, in the middle and at negative places.                 *)
(***************************************************************************)
EXTENDS Projects, TLC

CONSTANTS alice, bob, acme, beta, p1, p2

Row(u, o, role) == [user |-> u, org |-> o, role |-> role]

MCJoining ==
    {Row(alice, acme, "admin"), Row(alice, beta, "member"), Row(alice, beta, "admin"),
     Row(bob, beta, "owner")}

Ask(op, u, o, p, limit, offset) ==
    [op |-> op, user |-> u, org |-> o, project |-> p, limit |-> limit,
     offset |-> offset]

MCCalls ==
    {Ask("create", alice, acme, p1, 0, 0), Ask("create", bob, beta, p2, 0, 0),
     Ask("archive", alice, acme, p1, 0, 0), Ask("archive", alice, acme, p2, 0, 0),
     Ask("archive", bob, beta, p2, 0, 0),
     Ask("list", alice, beta, p1, 2, 0), Ask("list", alice, beta, p1, -1, 0),
     Ask("listTasks", alice, acme, p1, 1, 1), Ask("listTasks", alice, beta, p2, 2, 0)}

MCSymmetry == Permutations(Requests) \cup Permutations(Tasks)
=============================================================================
