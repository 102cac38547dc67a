----------------------------- MODULE MCAccounts -----------------------------
(***************************************************************************)
(* The instance of Accounts for TLC: ann is registered and has logged in;  *)
(* registrations with her email, with her username, or with neither;       *)
(* logins, refreshes, and uses of any token.                               *)
(***************************************************************************)
EXTENDS Accounts, TLC

CONSTANTS ann, e1, e2, u1, u2

MCIds == Requests \cup {ann}
MCExisting == {[id |-> ann, email |-> e1, username |-> u1]}

\* The tokens ann has got at time 0.
MCHeld == {[sub |-> ann, type |-> "access", exp |-> AccessTTL, login |-> 0],
           [sub |-> ann, type |-> "refresh", exp |-> RefreshTTL, login |-> 0]}

Ask(op, e, u, right) == [op |-> op, email |-> e, username |-> u, right |-> right]

MCCalls ==
    {Ask("register", e1, u2, TRUE), Ask("register", e2, u1, TRUE),
     Ask("register", e2, u2, TRUE),
     Ask("login", e1, u1, TRUE), Ask("login", e1, u1, FALSE),
     Ask("refresh", e1, u1, TRUE), Ask("use", e1, u1, TRUE)}

RequestSymmetry == Permutations(Requests)
=============================================================================
