------------------------------ MODULE Accounts ------------------------------
(***************************************************************************)
(* Accounts and tokens (src/users/) and the dependency that turns a bearer *)
(* token into an active user (src/shared/dependencies.py).                 *)
(*                                                                         *)
(* A token is what its signature protects: subject, type and expiry; the   *)
(* server keeps none.  Clients hold every token they were ever given.  The *)
(* cryptography is external: a token that was not issued does not decode.  *)
(* No code deactivates an account: it is done in the database.             *)
(*                                                                         *)
(* A definition marked "Fault:" is no part of the system: it is the form   *)
(* its neighbour would take with a bug in the code, kept to show which     *)
(* property notices.                                                       *)
(***************************************************************************)
EXTENDS Naturals

CONSTANTS
    Emails, Usernames,
    Ids,            \* account identifiers: uuids, one for every registration
    Existing,       \* the accounts registered earlier
    Held,           \* the tokens they got earlier and have not lost
    Requests,       \* one identifier per HTTP request
    Calls,          \* the calls clients make; a refresh or a use takes any token
    AccessTTL,      \* access_token_expire_minutes
    RefreshTTL,     \* refresh_token_expire_days
    MaxTime,        \* bound: where the clock stops
    NoCall          \* nothing asked yet

\* Only a registration has a username; right is whether the password is.
Call == [op : {"register", "login", "refresh", "use"}, email : Emails,
         username : Usernames, right : BOOLEAN]

\* The id of a new account is the request that registers it; login is
\* history: when the password was shown that the token goes back to.
User == [id : Ids, email : Emails, username : Usernames]
Token == [sub : Ids, type : {"access", "refresh"}, exp : Nat, login : Nat]

SameIdentity(u, v) == u.email = v.email \/ u.username = v.username

ASSUME CallsAreTyped == Calls \subseteq Call /\ NoCall \notin Call
ASSUME TimesAreTyped == AccessTTL \in Nat /\ RefreshTTL \in Nat /\ MaxTime \in Nat
ASSUME HeldAreTokens ==
    /\ Held \subseteq Token
    /\ \A t \in Held :
         t.exp <= t.login + RefreshTTL + IF t.type = "access" THEN AccessTTL ELSE 0
ASSUME ExistingAreApart ==
    /\ Requests \subseteq Ids
    /\ Existing \subseteq [id : Ids \ Requests, email : Emails, username : Usernames]
    /\ \A u, v \in Existing : SameIdentity(u, v) => u = v

VARIABLES
    now,        \* the clock
    users,      \* committed: accounts
    inactive,   \* committed: the ids whose is_active is FALSE
    tokens,     \* every token a client holds
    pc,         \* where each request stands
    call,       \* what each request was asked
    shown,      \* the token of each request: a set of one, or empty
    found,      \* the account each request has selected: likewise
    flushed,    \* the registration holds an INSERT not yet committed
    answer,     \* the response of each request
    began,      \* when each request arrived
    locked      \* history: the inactive accounts when each request arrived

vars == <<now, users, inactive, tokens, pc, call, shown, found, flushed, answer,
          began, locked>>

TypeOK ==
    /\ now \in 0 .. MaxTime
    /\ users \subseteq User
    /\ inactive \subseteq Ids
    /\ tokens \subseteq Token
    /\ pc \in [Requests -> {"idle", "select", "decode", "insert", "commit",
                            "issue", "serve", "respond", "done"}]
    /\ call \in [Requests -> Calls \cup {NoCall}]
    /\ shown \in [Requests -> SUBSET tokens]
    /\ found \in [Requests -> SUBSET users]
    /\ flushed \in [Requests -> BOOLEAN]
    /\ answer \in [Requests -> {"none", "created", "tokens", "served", "conflict",
                                "refused", "aborted"}]
    /\ began \in [Requests -> 0 .. MaxTime]
    /\ locked \in [Requests -> SUBSET Ids]

Init ==
    /\ now = 0
    /\ users = Existing
    /\ inactive = {}
    /\ tokens = Held
    /\ pc = [r \in Requests |-> "idle"]
    /\ call = [r \in Requests |-> NoCall]
    /\ shown = [r \in Requests |-> {}]
    /\ found = [r \in Requests |-> {}]
    /\ flushed = [r \in Requests |-> FALSE]
    /\ answer = [r \in Requests |-> "none"]
    /\ began = [r \in Requests |-> 0]
    /\ locked = [r \in Requests |-> {}]

-----------------------------------------------------------------------------
(* Steps of a request.                                                     *)

Goto(r, from, to) ==
    /\ pc[r] = from
    /\ pc' = [pc EXCEPT ![r] = to]

\* The request is over: its locals go, and what it has flushed goes with its
\* session.  The properties ask again only for the data of a registration.
End(r, a) ==
    /\ pc' = [pc EXCEPT ![r] = "done"]
    /\ call' = IF call[r].op = "register" THEN call ELSE [call EXCEPT ![r] = NoCall]
    /\ answer' = [answer EXCEPT ![r] = a]
    /\ shown' = [shown EXCEPT ![r] = {}]
    /\ found' = [found EXCEPT ![r] = {}]
    /\ flushed' = [flushed EXCEPT ![r] = FALSE]
    /\ began' = [began EXCEPT ![r] = 0]
    /\ locked' = [locked EXCEPT ![r] = {}]

Answer(r, a) ==
    /\ End(r, a)
    /\ UNCHANGED <<now, users, inactive, tokens>>

FirstStep(op) ==
    CASE op = "register" -> "insert"
      [] op = "login"    -> "select"
      [] OTHER           -> "decode"

\* A request arrives.  A refresh and a use show a token.
Begin(r) ==
    \E c \in Calls :
        /\ Goto(r, "idle", FirstStep(c.op))
        /\ call' = [call EXCEPT ![r] = c]
        /\ shown' \in {[shown EXCEPT ![r] = T] :
                         T \in IF c.op \in {"refresh", "use"} THEN {{t} : t \in tokens}
                                                             ELSE {{}}}
        /\ began' = [began EXCEPT ![r] = now]
        /\ locked' = [locked EXCEPT ![r] = inactive]
        /\ UNCHANGED <<now, users, inactive, tokens, found, flushed, answer>>

(* Registering. *)

NewUser(r) == [id |-> r, email |-> call[r].email, username |-> call[r].username]

\* Fault: the table is looked up first, its columns are not unique.
InsertUnindexedUser(r) ==
    /\ pc[r] = "insert"
    /\ IF \E u \in users : SameIdentity(u, NewUser(r))
       THEN Answer(r, "conflict")
       ELSE /\ Goto(r, "insert", "commit")
            /\ flushed' = [flushed EXCEPT ![r] = TRUE]
            /\ UNCHANGED <<now, users, inactive, tokens, call, shown, found, answer,
                           began, locked>>

\* register_new_user: the INSERT waits for a running one with the same email
\* or username, and fails when there is such a row.
InsertUser(r) ==
    /\ pc[r] = "insert"
    /\ \A q \in Requests \ {r} : flushed[q] => ~SameIdentity(NewUser(q), NewUser(r))
    /\ IF \E u \in users : SameIdentity(u, NewUser(r))
       THEN Answer(r, "conflict")
       ELSE /\ Goto(r, "insert", "commit")
            /\ flushed' = [flushed EXCEPT ![r] = TRUE]
            /\ UNCHANGED <<now, users, inactive, tokens, call, shown, found, answer,
                           began, locked>>

\* Fault: the session is closed with nothing committed.
CloseSession(r) ==
    /\ Goto(r, "commit", "respond")
    /\ flushed' = [flushed EXCEPT ![r] = FALSE]
    /\ UNCHANGED <<now, users, inactive, tokens, call, shown, found, answer, began,
                   locked>>

\* Fault: the username is left out of the new row.
CommitWithoutUsername(r) ==
    /\ Goto(r, "commit", "respond")
    /\ users' = users \cup {[id |-> r, email |-> call[r].email]}
    /\ flushed' = [flushed EXCEPT ![r] = FALSE]
    /\ UNCHANGED <<now, inactive, tokens, call, shown, found, answer, began, locked>>

Commit(r) ==
    /\ Goto(r, "commit", "respond")
    /\ users' = users \cup {NewUser(r)}
    /\ flushed' = [flushed EXCEPT ![r] = FALSE]
    /\ UNCHANGED <<now, inactive, tokens, call, shown, found, answer, began, locked>>

(* Tokens. *)

\* decode_token, and the type the endpoint asks for.
Decodes(r) ==
    \A t \in shown[r] :
        /\ now < t.exp
        /\ t.type = IF call[r].op = "refresh" THEN "refresh" ELSE "access"

DecodeToken(r) ==
    /\ pc[r] = "decode"
    /\ IF Decodes(r)
       THEN /\ Goto(r, "decode", "select")
            /\ UNCHANGED <<now, users, inactive, tokens, call, shown, found, flushed,
                           answer, began, locked>>
       ELSE Answer(r, "refused")

\* get_by_email for a login, get_by_id for the subject of a token.
Matches(r, u) ==
    IF call[r].op = "login" THEN u.email = call[r].email
                            ELSE \A t \in shown[r] : u.id = t.sub

\* Fault: the endpoint depends on get_current_user only.
SelectCurrentUser(r) ==
    LET rows == {u \in users : Matches(r, u)} IN
    /\ pc[r] = "select"
    /\ IF rows = {} \/ (call[r].op = "login" /\ ~call[r].right)
       THEN Answer(r, "refused")
       ELSE /\ Goto(r, "select", IF call[r].op = "use" THEN "serve" ELSE "issue")
            /\ found' = [found EXCEPT ![r] = rows]
            /\ UNCHANGED <<now, users, inactive, tokens, call, shown, flushed,
                           answer, began, locked>>

\* The password is verified, or is_active looked at, as soon as the account
\* has been read.  Neither login nor refresh looks at is_active.
SelectUser(r) ==
    LET rows == {u \in users : Matches(r, u)}
        op == call[r].op IN
    /\ pc[r] = "select"
    /\ IF \/ rows = {}
          \/ op = "login" /\ ~call[r].right
          \/ op = "use" /\ \E u \in rows : u.id \in inactive
       THEN Answer(r, "refused")
       ELSE /\ Goto(r, "select", IF op = "use" THEN "serve" ELSE "issue")
            /\ found' = [found EXCEPT ![r] = rows]
            /\ UNCHANGED <<now, users, inactive, tokens, call, shown, flushed,
                           answer, began, locked>>

\* The login a new token goes back to.
LoginTime(r) == IF call[r].op = "login" THEN now
                                        ELSE CHOOSE n \in {t.login : t \in shown[r]} : TRUE

NewToken(r, type) ==
    {[sub |-> u.id, type |-> type, login |-> LoginTime(r),
      exp |-> now + IF type = "access" THEN AccessTTL ELSE RefreshTTL] : u \in found[r]}

\* Fault: a refresh hands out a new refresh token.
RotatedTokens(r) == NewToken(r, "access") \cup NewToken(r, "refresh")

\* A login gives both tokens, a refresh an access token and the token shown.
Issued(r) ==
    NewToken(r, "access") \cup
        IF call[r].op = "login" THEN NewToken(r, "refresh") ELSE shown[r]

IssueTokens(r) ==
    /\ pc[r] = "issue"
    /\ End(r, "tokens")
    /\ tokens' = tokens \cup Issued(r)
    /\ UNCHANGED <<now, users, inactive>>

\* The endpoint runs for the user.
Serve(r) == pc[r] = "serve" /\ Answer(r, "served")

Respond(r) == pc[r] = "respond" /\ Answer(r, "created")

\* The worker dies or the database connection is lost.
Abort(r) ==
    /\ pc[r] \notin {"idle", "done"}
    /\ Answer(r, "aborted")

Step(r) ==
    \/ InsertUser(r)
    \/ Commit(r)
    \/ DecodeToken(r)
    \/ SelectUser(r)
    \/ IssueTokens(r)
    \/ Serve(r)
    \/ Respond(r)

\* Somebody sets is_active to FALSE.
Deactivate(u) ==
    /\ u.id \notin inactive
    /\ inactive' = inactive \cup {u.id}
    /\ UNCHANGED <<now, users, tokens, pc, call, shown, found, flushed, answer,
                   began, locked>>

\* Bound: a request is over within the tick after the one it arrived in.
Tick ==
    /\ now < MaxTime
    /\ \A r \in Requests : pc[r] \notin {"idle", "done"} => began[r] = now
    /\ now' = now + 1
    /\ UNCHANGED <<users, inactive, tokens, pc, call, shown, found, flushed, answer,
                   began, locked>>

\* Every request has been answered: the clients are done.
Finished ==
    /\ \A r \in Requests : pc[r] = "done"
    /\ UNCHANGED vars

Next ==
    \/ \E r \in Requests : Begin(r) \/ Step(r) \/ Abort(r)
    \/ \E u \in users : Deactivate(u)
    \/ Tick
    \/ Finished

Spec == Init /\ [][Next]_vars

-----------------------------------------------------------------------------
(* What the component guarantees.                                          *)

(***************************************************************************)
(* Two accounts never share an email or a username, also when both are     *)
(* registered at once: register_new_user never looks, it leans on the      *)
(* unique constraints and the rollback of the loser.                       *)
(***************************************************************************)
IdentitiesUnique ==
    \A u, v \in users : SameIdentity(u, v) => u = v

(***************************************************************************)
(* 201 means the account is there, although the response is built inside   *)
(* the transaction; 409 that somebody ELSE has the email or the username,  *)
(* and not merely an attempt that failed later.                            *)
(***************************************************************************)
AnswersAreTruthful ==
    \A r \in Requests :
        /\ answer[r] = "created" => NewUser(r) \in users
        /\ answer[r] = "conflict" =>
             \E u \in users : u.id # r /\ SameIdentity(u, NewUser(r))

(***************************************************************************)
(* A password is not good for ever: however often a client refreshes, a    *)
(* request is only served within RefreshTTL + AccessTTL of the login its   *)
(* token goes back to, because a refresh returns the refresh token it was  *)
(* given and starts no new term.  A refresh that takes its time past the   *)
(* expiry adds that time, less than the tick that Tick allows a request.   *)
(***************************************************************************)
LoginsExpire ==
    [][\A r \in Requests : pc[r] = "serve" /\ answer'[r] = "served" =>
         \A t \in shown[r] : began[r] < t.login + RefreshTTL + AccessTTL]_vars

(***************************************************************************)
(* An account that is inactive when a request arrives is not served,       *)
(* although login and refresh go on giving it tokens: no chain of calls    *)
(* gets around the check of is_active.                                     *)
(***************************************************************************)
InactiveAreLockedOut ==
    [][\A r \in Requests : pc[r] = "serve" /\ answer'[r] = "served" =>
         \A t \in shown[r] : t.sub \notin locked[r]]_vars
=============================================================================
