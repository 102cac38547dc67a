------------------------ MODULE MCConnectionManager ------------------------
(***************************************************************************)
(* Instances of ConnectionManager for TLC: alice, twice, and bob in the    *)
(* room of project site of acme; carol, a member of beta, asks for site    *)
(* under the path of beta; the token of x1 is refused.                     *)
(***************************************************************************)
EXTENDS ConnectionManager, TLC

CONSTANTS alice, bob, carol, acme, beta, site, w1, a1, a2, b1, c1, x1

MCUserOf ==
    [s \in Sockets |-> CASE s = b1 -> bob
                         [] s = c1 -> carol
                         [] s = x1 -> Nobody
                         [] OTHER -> alice]
MCPathProject == [s \in Sockets |-> site]
MCPathOrg == [s \in Sockets |-> IF s = c1 THEN beta ELSE acme]
MCMembers == {<<alice, acme>>, <<bob, acme>>, <<carol, beta>>}
MCProjectOrg == [p \in Projects |-> acme]

\* Workers share no room: one shows everything they do.
MCOneWorker == [s \in Sockets |-> w1]

AliceSymmetry == Permutations({a1, a2})
=============================================================================
