-------------------------- MODULE MCOrganizations --------------------------
(***************************************************************************)
(* Instances of Organizations for TLC.                                     *)
(*                                                                         *)
(* alice and bob found organizations, under one slug or two; carol has an  *)
(* account and dave has none.  The calls are those that conflict with one  *)
(* another: two foundations with one slug, two invitations of one user in  *)
(* different roles, two owners who remove each other.                      *)
(***************************************************************************)
EXTENDS Organizations, TLC

CONSTANTS alice, bob, carol, dave, acme, beta, s1, s2

Create(u, o, s) ==
    [op |-> "create", user |-> u, org |-> o, target |-> u, role |-> "owner",
     slug |-> s]

Invite(u, o, t, role) ==
    [op |-> "invite", user |-> u, org |-> o, target |-> t, role |-> role,
     slug |-> s1]

Remove(u, o, t) ==
    [op |-> "remove", user |-> u, org |-> o, target |-> t, role |-> "member",
     slug |-> s1]

MCCalls ==
    {Create(alice, acme, s1), Create(bob, beta, s1), Create(bob, beta, s2),
     Invite(alice, acme, bob, "owner"), Invite(alice, acme, bob, "member"),
     Invite(bob, acme, carol, "admin"), Invite(alice, acme, dave, "member"),
     Remove(alice, acme, bob), Remove(bob, acme, alice),
     Remove(alice, acme, carol)}

\* One founder and the calls that end in each of the answers.
MCFewCalls ==
    {Create(alice, acme, s1), Create(bob, beta, s1), Invite(alice, acme, bob, "owner"),
     Remove(alice, acme, bob)}

RequestSymmetry == Permutations(Requests)
=============================================================================
