--------------------------- MODULE AccountsProofs ---------------------------
(***************************************************************************)
(* Safety of accounts and tokens, for any number of accounts, requests,    *)
(* tokens and lifetimes.                                                   *)
(*                                                                         *)
(* Two arguments meet here.  The unique constraints keep what has been     *)
(* flushed apart from what is committed (Reservations), although nobody    *)
(* looks before inserting.  And a token carries its whole history in its   *)
(* expiry (TokensInTerm), because a refresh hands out access tokens only   *)
(* and is itself bound by the expiry of the refresh token it was shown.    *)
(***************************************************************************)
EXTENDS Accounts, TLAPS

Active(r) == pc[r] \notin {"idle", "done"}

ShowsToken(r) == call[r].op \in {"refresh", "use"}

\* Where a request stands, what it was asked and what it holds.
Progress(r) ==
    /\ Active(r) => call[r] \in Call
    /\ pc[r] \in {"insert", "commit", "respond"} => call[r].op = "register"
    /\ pc[r] = "decode" => ShowsToken(r)
    /\ pc[r] = "select" => call[r].op # "register"
    /\ pc[r] = "issue" => call[r].op \in {"login", "refresh"}
    /\ pc[r] = "serve" => call[r].op = "use"
    /\ Active(r) /\ ShowsToken(r) => \E t \in tokens : shown[r] = {t}
    /\ flushed[r] <=> pc[r] = "commit"
    /\ answer[r] # "none" => pc[r] = "done"

\* What a registration that is answered may claim.
Claim(r) ==
    /\ pc[r] = "respond" \/ answer[r] = "created" => NewUser(r) \in users
    /\ answer[r] = "conflict" =>
         \E u \in users : u.id # r /\ SameIdentity(u, NewUser(r))

\* A request is over within the tick after the one it arrived in, and what
\* it was shown had not expired when it arrived.
Timing(r) ==
    /\ Active(r) => began[r] <= now /\ now <= began[r] + 1
    /\ pc[r] \in {"select", "issue", "serve"} /\ ShowsToken(r) =>
         \A t \in shown[r] :
             /\ began[r] < t.exp
             /\ t.type = IF call[r].op = "refresh" THEN "refresh" ELSE "access"

\* An account that was inactive when the request arrived still is; one that
\* is about to be served was not.
Lockout(r) ==
    /\ locked[r] \subseteq inactive
    /\ pc[r] = "serve" => \A t \in shown[r] : t.sub \notin locked[r]

Fate(r) == Progress(r) /\ Claim(r) /\ Timing(r) /\ Lockout(r)

\* A registration that has been flushed meets neither a row nor another one.
Reservations ==
    \A r \in Requests : flushed[r] =>
        /\ \A u \in users : ~SameIdentity(u, NewUser(r))
        /\ \A q \in Requests \ {r} :
             flushed[q] => ~SameIdentity(NewUser(q), NewUser(r))

\* An account with the id of a request was registered by that request.
IdsAreOwn ==
    \A u \in users : u.id \in Requests => pc[u.id] \in {"respond", "done"}

\* No token outlives what the login it goes back to allows.
TokensInTerm ==
    \A t \in tokens :
        t.exp <= t.login + RefreshTTL + IF t.type = "access" THEN AccessTTL ELSE 0

IndInv ==
    /\ TypeOK
    /\ IdentitiesUnique
    /\ Reservations
    /\ IdsAreOwn
    /\ TokensInTerm
    /\ \A r \in Requests : Fate(r)

-----------------------------------------------------------------------------
(* What the steps have in common.                                          *)

\* Nothing of request q changes.
Untouched(q) ==
    /\ pc'[q] = pc[q] /\ call'[q] = call[q] /\ shown'[q] = shown[q]
    /\ flushed'[q] = flushed[q] /\ answer'[q] = answer[q]
    /\ began'[q] = began[q] /\ locked'[q] = locked[q]

\* Accounts, tokens and deactivations only become more, and the clock waits
\* for the requests that are late.
Progresses ==
    /\ users \subseteq users' /\ tokens \subseteq tokens' /\ inactive \subseteq inactive'
    /\ \/ now' = now
       \/ now' = now + 1 /\ \A r \in Requests : Active(r) => began[r] = now

LEMMA FateStays ==
    ASSUME IndInv, Progresses, NEW q \in Requests, Untouched(q)
    PROVE  Fate(q)'
<1>1. Fate(q) /\ now \in Nat /\ began[q] \in Nat
  BY TimesAreTyped DEF IndInv, TypeOK
<1>2. Progress(q)'
  BY <1>1 DEF Fate, Progress, Active, ShowsToken, Untouched, Progresses
<1>3. Claim(q)'
  BY <1>1 DEF Fate, Claim, NewUser, SameIdentity, Untouched, Progresses
<1>4. Timing(q)'
  BY <1>1 DEF Fate, Timing, Active, ShowsToken, Untouched, Progresses
<1>5. Lockout(q)'
  BY <1>1 DEF Fate, Lockout, Untouched, Progresses
<1> QED
  BY <1>2, <1>3, <1>4, <1>5 DEF Fate

\* A step of one request that leaves the accounts and what is flushed alone.
LEMMA StepIndInv ==
    ASSUME IndInv, TypeOK', TokensInTerm', Progresses, NEW r \in Requests,
           UNCHANGED users, pc[r] \notin {"respond", "done"} \/ pc'[r] = "done",
           flushed'[r] => flushed[r] /\ call'[r] = call[r],
           \A q \in Requests \ {r} : Untouched(q),
           Fate(r)'
    PROVE  IndInv'
<1>1. \A q \in Requests : Fate(q)'
  BY FateStays
<1>2. Reservations'
  BY DEF IndInv, Reservations, NewUser, SameIdentity, Untouched
<1>3. IdsAreOwn'
  BY DEF IndInv, IdsAreOwn, Untouched
<1>4. IdentitiesUnique'
  BY DEF IndInv, IdentitiesUnique, SameIdentity
<1> QED
  BY <1>1, <1>2, <1>3, <1>4 DEF IndInv

LEMMA InitIndInv == Init => IndInv
<1> SUFFICES ASSUME Init PROVE IndInv
  OBVIOUS
<1>1. TypeOK
  BY TimesAreTyped, HeldAreTokens, ExistingAreApart DEF Init, TypeOK, User
<1>2. IdentitiesUnique /\ Reservations /\ IdsAreOwn
  BY ExistingAreApart DEF Init, IdentitiesUnique, Reservations, IdsAreOwn
<1>3. TokensInTerm
  BY HeldAreTokens DEF Init, TokensInTerm
<1>4. ASSUME NEW r \in Requests PROVE Fate(r)
  BY <1>4 DEF Init, Fate, Progress, Claim, Timing, Lockout, Active
<1> QED
  BY <1>1, <1>2, <1>3, <1>4 DEF IndInv

\* A request is answered; a token may have been issued with the answer.
LEMMA EndIndInv ==
    ASSUME IndInv, NEW r \in Requests, Active(r),
           NEW a \in {"created", "tokens", "served", "conflict", "refused", "aborted"},
           End(r, a), UNCHANGED <<now, users, inactive>>,
           tokens \subseteq tokens', tokens' \subseteq Token, TokensInTerm',
           a = "created" => pc[r] = "respond",
           a = "conflict" => pc[r] = "insert" /\ \E u \in users : SameIdentity(u, NewUser(r))
    PROVE  IndInv'
<1>1. TypeOK'
  BY TimesAreTyped DEF End, IndInv, TypeOK
<1>2. /\ pc'[r] = "done" /\ answer'[r] = a /\ shown'[r] = {} /\ ~flushed'[r]
      /\ locked'[r] = {}
      /\ call[r].op = "register" => call' = call
      /\ \A q \in Requests \ {r} : Untouched(q)
  BY DEF End, Untouched, IndInv, TypeOK
<1>3. Fate(r)
  BY DEF IndInv
<1>4. Progress(r)' /\ Timing(r)' /\ Lockout(r)'
  BY <1>2 DEF Progress, Timing, Lockout, Active
<1>5. Claim(r)'
  <2>1. CASE a = "created"
    BY <1>2, <1>3, <2>1 DEF Fate, Progress, Claim, NewUser
  <2>2. CASE a = "conflict"
    <3>1. PICK u \in users : SameIdentity(u, NewUser(r))
      BY <2>2
    <3>2. u.id # r
      BY <2>2 DEF IndInv, IdsAreOwn
    <3>3. NewUser(r)' = NewUser(r)
      BY <1>2, <1>3, <2>2 DEF Fate, Progress, NewUser
    <3>4. users' = users
      OBVIOUS
    <3> QED
      BY <1>2, <2>2, <3>1, <3>2, <3>3, <3>4 DEF Claim, SameIdentity
  <2>3. CASE a \notin {"created", "conflict"}
    BY <1>2, <2>3 DEF Claim
  <2> QED
    BY <2>1, <2>2, <2>3
<1>6. Progresses
  BY DEF Progresses
<1> QED
  BY <1>1, <1>2, <1>4, <1>5, <1>6, StepIndInv DEF Fate

LEMMA AnswerIndInv ==
    ASSUME IndInv, NEW r \in Requests, Active(r),
           NEW a \in {"created", "served", "conflict", "refused", "aborted"},
           Answer(r, a),
           a = "created" => pc[r] = "respond",
           a = "conflict" => pc[r] = "insert" /\ \E u \in users : SameIdentity(u, NewUser(r))
    PROVE  IndInv'
<1>1. TokensInTerm'
  BY DEF Answer, IndInv, TokensInTerm
<1> QED
  BY <1>1, EndIndInv DEF Answer, IndInv, TypeOK

-----------------------------------------------------------------------------
(* The actions.                                                            *)

LEMMA BeginIndInv ==
    ASSUME IndInv, NEW r \in Requests, Begin(r)
    PROVE  IndInv'
<1>1. PICK c \in Calls :
        /\ Goto(r, "idle", FirstStep(c.op))
        /\ call' = [call EXCEPT ![r] = c]
        /\ shown' \in {[shown EXCEPT ![r] = T] :
                         T \in IF c.op \in {"refresh", "use"} THEN {{t} : t \in tokens}
                                                             ELSE {{}}}
        /\ began' = [began EXCEPT ![r] = now]
        /\ locked' = [locked EXCEPT ![r] = inactive]
        /\ UNCHANGED <<now, users, inactive, tokens, found, flushed, answer>>
  BY DEF Begin
<1>2. c \in Call /\ c.op \in {"register", "login", "refresh", "use"}
  BY CallsAreTyped DEF Call
<1>3. PICK T \in SUBSET tokens :
        /\ shown' = [shown EXCEPT ![r] = T]
        /\ c.op \in {"refresh", "use"} => \E t \in tokens : T = {t}
  BY <1>1
<1>4. /\ c.op = "register" => FirstStep(c.op) = "insert"
      /\ c.op = "login" => FirstStep(c.op) = "select"
      /\ c.op \in {"refresh", "use"} => FirstStep(c.op) = "decode"
  BY DEF FirstStep
<1>5. TypeOK'
  <2>1. FirstStep(c.op) \in {"insert", "select", "decode"}
    BY <1>2, <1>4
  <2> QED
    BY <1>1, <1>3, <2>1 DEF Goto, IndInv, TypeOK
<1>6. /\ pc[r] = "idle" /\ pc'[r] = FirstStep(c.op) /\ call'[r] = c /\ shown'[r] = T
      /\ began'[r] = now /\ locked'[r] = inactive
      /\ \A q \in Requests \ {r} : Untouched(q)
  BY <1>1, <1>3 DEF Goto, Untouched, IndInv, TypeOK
<1>7. answer[r] = "none" /\ ~flushed[r]
  BY <1>6 DEF IndInv, Fate, Progress
<1>8. Progress(r)' /\ Claim(r)'
  BY <1>1, <1>2, <1>3, <1>4, <1>6, <1>7 DEF Progress, Claim, Active, ShowsToken
<1>9. Timing(r)' /\ Lockout(r)'
  <2>1. now \in Nat
    BY TimesAreTyped DEF IndInv, TypeOK
  <2> QED
    BY <1>1, <1>2, <1>4, <1>6, <2>1 DEF Timing, Lockout, Active, ShowsToken
<1>10. TokensInTerm' /\ Progresses
  BY <1>1 DEF IndInv, TokensInTerm, Progresses
<1> QED
  BY <1>1, <1>5, <1>6, <1>7, <1>8, <1>9, <1>10, StepIndInv DEF Fate

\* The unique constraints at work.
LEMMA InsertUserIndInv ==
    ASSUME IndInv, NEW r \in Requests, InsertUser(r)
    PROVE  IndInv'
<1>1. pc[r] = "insert"
  BY DEF InsertUser
<1>2. CASE \E u \in users : SameIdentity(u, NewUser(r))
  BY <1>1, <1>2, AnswerIndInv DEF InsertUser, Active
<1>3. CASE ~\E u \in users : SameIdentity(u, NewUser(r))
  <2>1. /\ Goto(r, "insert", "commit")
        /\ flushed' = [flushed EXCEPT ![r] = TRUE]
        /\ \A q \in Requests \ {r} : flushed[q] => ~SameIdentity(NewUser(q), NewUser(r))
        /\ UNCHANGED <<now, users, inactive, tokens, call, shown, found, answer,
                       began, locked>>
    BY <1>3 DEF InsertUser
  <2>2. TypeOK'
    BY <2>1 DEF Goto, IndInv, TypeOK
  <2>3. /\ pc'[r] = "commit" /\ flushed'[r]
        /\ \A q \in Requests \ {r} : Untouched(q)
    BY <2>1 DEF Goto, Untouched, IndInv, TypeOK
  <2>4. Fate(r)' /\ Progresses
    BY <1>1, <2>1, <2>3 DEF IndInv, Fate, Progress, Claim, Timing, Lockout, Active,
                            ShowsToken, NewUser, SameIdentity, Progresses
  <2>5. \A q \in Requests : Fate(q)'
    BY <2>3, <2>4, FateStays
  <2>6. Reservations'
    BY <1>3, <2>1, <2>3 DEF IndInv, Reservations, NewUser, SameIdentity, Untouched
  <2>7. IdentitiesUnique' /\ IdsAreOwn' /\ TokensInTerm'
    BY <1>1, <2>1, <2>3 DEF IndInv, IdentitiesUnique, SameIdentity, IdsAreOwn,
                            TokensInTerm, Untouched
  <2> QED
    BY <2>2, <2>5, <2>6, <2>7 DEF IndInv
<1> QED
  BY <1>2, <1>3

LEMMA CommitIndInv ==
    ASSUME IndInv, NEW r \in Requests, Commit(r)
    PROVE  IndInv'
<1>1. /\ Goto(r, "commit", "respond")
      /\ users' = users \cup {NewUser(r)}
      /\ flushed' = [flushed EXCEPT ![r] = FALSE]
      /\ UNCHANGED <<now, inactive, tokens, call, shown, found, answer, began, locked>>
  BY DEF Commit
<1>2. /\ pc[r] = "commit" /\ pc'[r] = "respond" /\ ~flushed'[r]
      /\ \A q \in Requests \ {r} : Untouched(q)
  BY <1>1 DEF Goto, Untouched, IndInv, TypeOK
<1>3. Fate(r) /\ flushed[r] /\ call[r] \in Call
  BY <1>2 DEF IndInv, Fate, Progress, Active
<1>4. NewUser(r) \in User /\ NewUser(r).id = r
  BY <1>3, ExistingAreApart DEF NewUser, User, Call
<1>5. TypeOK'
  BY <1>1, <1>4 DEF Goto, IndInv, TypeOK
<1>6. Fate(r)' /\ Progresses
  BY <1>1, <1>2, <1>3 DEF Fate, Progress, Claim, Timing, Lockout, Active, ShowsToken,
                          NewUser, SameIdentity, Progresses, IndInv
<1>7. \A q \in Requests : Fate(q)'
  BY <1>2, <1>6, FateStays
<1>8. \A u \in users : ~SameIdentity(u, NewUser(r)) /\ ~SameIdentity(NewUser(r), u)
  BY <1>3 DEF IndInv, Reservations, SameIdentity
<1>9. IdentitiesUnique'
  BY <1>1, <1>8 DEF IndInv, IdentitiesUnique, SameIdentity
<1>10. Reservations'
  BY <1>1, <1>2, <1>3 DEF IndInv, Reservations, NewUser, SameIdentity, Untouched
<1>11. IdsAreOwn' /\ TokensInTerm'
  BY <1>1, <1>2, <1>4 DEF IndInv, IdsAreOwn, TokensInTerm, Untouched
<1> QED
  BY <1>5, <1>7, <1>9, <1>10, <1>11 DEF IndInv

LEMMA DecodeTokenIndInv ==
    ASSUME IndInv, NEW r \in Requests, DecodeToken(r)
    PROVE  IndInv'
<1>1. pc[r] = "decode" /\ ShowsToken(r)
  BY DEF DecodeToken, IndInv, Fate, Progress
<1>2. CASE ~Decodes(r)
  BY <1>1, <1>2, AnswerIndInv DEF DecodeToken, Active
<1>3. CASE Decodes(r)
  <2>1. /\ Goto(r, "decode", "select")
        /\ UNCHANGED <<now, users, inactive, tokens, call, shown, found, flushed,
                       answer, began, locked>>
    BY <1>3 DEF DecodeToken
  <2>2. TypeOK'
    BY <2>1 DEF Goto, IndInv, TypeOK
  <2>3. pc'[r] = "select" /\ \A q \in Requests \ {r} : Untouched(q)
    BY <2>1 DEF Goto, Untouched, IndInv, TypeOK
  <2>4. Fate(r) /\ now \in Nat /\ began[r] \in Nat
    BY TimesAreTyped DEF IndInv, TypeOK
  <2>5. Progress(r)' /\ Claim(r)' /\ Lockout(r)'
    BY <1>1, <2>1, <2>3, <2>4 DEF Fate, Progress, Claim, Lockout, Active, ShowsToken,
                                  NewUser, SameIdentity
  <2>6. Timing(r)'
    <3>1. \A t \in shown[r] : t \in Token /\ t.exp \in Nat
      BY DEF IndInv, TypeOK, Token
    <3>2. began[r] <= now
      BY <1>1, <2>4 DEF Fate, Timing, Active
    <3> QED
      BY <1>1, <1>3, <2>1, <2>3, <2>4, <3>1, <3>2
      DEF Fate, Timing, Active, ShowsToken, Decodes
  <2>7. TokensInTerm' /\ Progresses
    BY <2>1 DEF IndInv, TokensInTerm, Progresses
  <2> QED
    BY <1>1, <2>1, <2>2, <2>3, <2>5, <2>6, <2>7, StepIndInv DEF Fate
<1> QED
  BY <1>2, <1>3

\* is_active is looked at here, and was not better when the request arrived.
LEMMA SelectUserIndInv ==
    ASSUME IndInv, NEW r \in Requests, SelectUser(r)
    PROVE  IndInv'
<1> DEFINE rows == {u \in users : Matches(r, u)}
           op == call[r].op
           refused == \/ rows = {}
                      \/ op = "login" /\ ~call[r].right
                      \/ op = "use" /\ \E u \in rows : u.id \in inactive
<1>1. pc[r] = "select" /\ Active(r)
  BY DEF SelectUser, Active
<1>2. CASE refused
  BY <1>1, <1>2, AnswerIndInv DEF SelectUser
<1>3. CASE ~refused
  <2>1. /\ Goto(r, "select", IF op = "use" THEN "serve" ELSE "issue")
        /\ found' = [found EXCEPT ![r] = rows]
        /\ UNCHANGED <<now, users, inactive, tokens, call, shown, flushed,
                       answer, began, locked>>
    BY <1>3 DEF SelectUser
  <2>2. TypeOK'
    BY <2>1 DEF Goto, IndInv, TypeOK
  <2>3. /\ pc'[r] = IF op = "use" THEN "serve" ELSE "issue"
        /\ \A q \in Requests \ {r} : Untouched(q)
    BY <2>1 DEF Goto, Untouched, IndInv, TypeOK
  <2>4. Fate(r) /\ op \in {"login", "refresh", "use"}
    BY <1>1 DEF IndInv, Fate, Progress, Call
  <2>5. Progress(r)' /\ Claim(r)' /\ Timing(r)'
    BY <1>1, <2>1, <2>3, <2>4 DEF Fate, Progress, Claim, Timing, Active, ShowsToken,
                                  NewUser, SameIdentity
  <2>6. Lockout(r)'
    <3>1. CASE op = "use"
      <4>1. PICK u \in rows : u.id \notin inactive
        BY <1>3, <3>1
      <4>2. \A t \in shown[r] : u.id = t.sub
        BY <3>1, <4>1 DEF Matches
      <4>3. \A t \in shown[r] : t.sub \notin inactive
        BY <4>1, <4>2
      <4> QED
        BY <2>1, <2>4, <4>3 DEF Fate, Lockout
    <3>2. CASE op # "use"
      BY <2>1, <2>3, <2>4, <3>2 DEF Fate, Lockout
    <3> QED
      BY <3>1, <3>2
  <2>7. TokensInTerm' /\ Progresses
    BY <2>1 DEF IndInv, TokensInTerm, Progresses
  <2> QED
    BY <1>1, <2>1, <2>2, <2>3, <2>5, <2>6, <2>7, StepIndInv DEF Fate
<1> QED
  BY <1>2, <1>3

\* The term of a new token: that of the login, or what the refresh token
\* leaves of it and AccessTTL more.
LEMMA IssuedInTerm ==
    ASSUME IndInv, NEW r \in Requests, pc[r] = "issue", NEW t \in Issued(r)
    PROVE  /\ t \in Token
           /\ t.exp <= t.login + RefreshTTL + IF t.type = "access" THEN AccessTTL ELSE 0
<1>1. /\ call[r].op \in {"login", "refresh"}
      /\ Fate(r) /\ now \in Nat /\ began[r] \in Nat /\ now <= began[r] + 1
      /\ \A u \in found[r] : u.id \in Ids
  BY TimesAreTyped DEF IndInv, TypeOK, Fate, Progress, Timing, Active, User
<1>2. CASE call[r].op = "login"
  <2>1. LoginTime(r) = now
    BY <1>2 DEF LoginTime
  <2>2. PICK u \in found[r] :
          \/ t = [sub |-> u.id, type |-> "access", login |-> now, exp |-> now + AccessTTL]
          \/ t = [sub |-> u.id, type |-> "refresh", login |-> now, exp |-> now + RefreshTTL]
    BY <1>2, <2>1 DEF Issued, NewToken
  <2> QED
    BY <1>1, <2>2, TimesAreTyped DEF Token
<1>3. CASE call[r].op = "refresh"
  <2>1. PICK s \in tokens : shown[r] = {s}
    BY <1>1, <1>3 DEF Fate, Progress, Active, ShowsToken
  <2>2. /\ s \in Token /\ s.type = "refresh" /\ began[r] < s.exp
        /\ s.exp <= s.login + RefreshTTL
        /\ s.exp \in Nat /\ s.login \in Nat
    <3>1. s \in Token /\ s.type = "refresh" /\ began[r] < s.exp
      BY <1>1, <1>3, <2>1 DEF Fate, Timing, ShowsToken, IndInv, TypeOK
    <3>2. s.exp <= s.login + RefreshTTL + IF s.type = "access" THEN AccessTTL ELSE 0
      BY DEF IndInv, TokensInTerm
    <3> QED
      BY <3>1, <3>2, TimesAreTyped DEF Token
  <2>3. LoginTime(r) = s.login
    <3>1. {n.login : n \in shown[r]} = {s.login}
      BY <2>1
    <3> QED
      BY <1>3, <3>1 DEF LoginTime
  <2>4. CASE t \in shown[r]
    BY <2>1, <2>2, <2>4, TimesAreTyped
  <2>5. CASE t \notin shown[r]
    <3>1. PICK u \in found[r] :
            t = [sub |-> u.id, type |-> "access", login |-> s.login, exp |-> now + AccessTTL]
      BY <1>3, <2>3, <2>5 DEF Issued, NewToken
    <3>2. now <= s.exp
      BY <1>1, <2>2
    <3> QED
      BY <1>1, <2>2, <3>1, <3>2, TimesAreTyped DEF Token
  <2> QED
    BY <2>4, <2>5
<1> QED
  BY <1>1, <1>2, <1>3

LEMMA IssueTokensIndInv ==
    ASSUME IndInv, NEW r \in Requests, IssueTokens(r)
    PROVE  IndInv'
<1>1. /\ pc[r] = "issue" /\ End(r, "tokens")
      /\ tokens' = tokens \cup Issued(r)
      /\ UNCHANGED <<now, users, inactive>>
  BY DEF IssueTokens
<1>2. tokens \subseteq tokens' /\ tokens' \subseteq Token
  BY <1>1, IssuedInTerm DEF IndInv, TypeOK
<1>3. TokensInTerm'
  BY <1>1, IssuedInTerm DEF IndInv, TokensInTerm
<1> QED
  BY <1>1, <1>2, <1>3, EndIndInv DEF Active

LEMMA DeactivateIndInv ==
    ASSUME IndInv, NEW u \in users, Deactivate(u)
    PROVE  IndInv'
<1>1. TypeOK'
  BY DEF Deactivate, IndInv, TypeOK, User
<1>2. Progresses /\ \A q \in Requests : Untouched(q)
  BY DEF Deactivate, Progresses, Untouched
<1>3. \A q \in Requests : Fate(q)'
  BY <1>2, FateStays
<1>4. IdentitiesUnique' /\ Reservations' /\ IdsAreOwn' /\ TokensInTerm'
  BY DEF Deactivate, IndInv, IdentitiesUnique, Reservations, IdsAreOwn, TokensInTerm,
         NewUser, SameIdentity
<1> QED
  BY <1>1, <1>3, <1>4 DEF IndInv

LEMMA TickIndInv ==
    ASSUME IndInv, Tick
    PROVE  IndInv'
<1>1. TypeOK'
  BY TimesAreTyped DEF Tick, IndInv, TypeOK
<1>2. Progresses /\ \A q \in Requests : Untouched(q)
  BY DEF Tick, Progresses, Untouched, Active
<1>3. \A q \in Requests : Fate(q)'
  BY <1>2, FateStays
<1>4. IdentitiesUnique' /\ Reservations' /\ IdsAreOwn' /\ TokensInTerm'
  BY DEF Tick, IndInv, IdentitiesUnique, Reservations, IdsAreOwn, TokensInTerm,
         NewUser, SameIdentity
<1> QED
  BY <1>1, <1>3, <1>4 DEF IndInv

LEMMA StutterIndInv ==
    ASSUME IndInv, UNCHANGED vars
    PROVE  IndInv'
<1>1. TypeOK'
  BY DEF vars, IndInv, TypeOK
<1>2. Progresses /\ \A q \in Requests : Untouched(q)
  BY DEF vars, Progresses, Untouched
<1>3. \A q \in Requests : Fate(q)'
  BY <1>2, FateStays
<1>4. IdentitiesUnique' /\ Reservations' /\ IdsAreOwn' /\ TokensInTerm'
  BY DEF vars, IndInv, IdentitiesUnique, Reservations, IdsAreOwn, TokensInTerm,
         NewUser, SameIdentity
<1> QED
  BY <1>1, <1>3, <1>4 DEF IndInv

LEMMA NextIndInv == IndInv /\ [Next]_vars => IndInv'
<1> SUFFICES ASSUME IndInv, [Next]_vars PROVE IndInv'
  OBVIOUS
<1>1. ASSUME NEW r \in Requests, Begin(r) PROVE IndInv'
  BY <1>1, BeginIndInv
<1>2. ASSUME NEW r \in Requests, Serve(r) \/ Respond(r) \/ Abort(r) PROVE IndInv'
  BY <1>2, AnswerIndInv DEF Serve, Respond, Abort, Active
<1>3. ASSUME NEW r \in Requests, Step(r) PROVE IndInv'
  BY <1>2, <1>3, InsertUserIndInv, CommitIndInv, DecodeTokenIndInv, SelectUserIndInv,
     IssueTokensIndInv
  DEF Step
<1>4. ASSUME NEW u \in users, Deactivate(u) PROVE IndInv'
  BY <1>4, DeactivateIndInv
<1>5. CASE Tick
  BY <1>5, TickIndInv
<1>6. CASE UNCHANGED vars
  BY <1>6, StutterIndInv
<1> QED
  BY <1>1, <1>2, <1>3, <1>4, <1>5, <1>6 DEF Next, Finished

-----------------------------------------------------------------------------
(* The theorems.                                                           *)

(***************************************************************************)
(* The inductive invariant holds in every reachable state.                 *)
(***************************************************************************)
THEOREM Invariance == Spec => []IndInv
  BY InitIndInv, NextIndInv, PTL DEF Spec

(***************************************************************************)
(* Accounts, tokens and requests keep their types.                         *)
(***************************************************************************)
THEOREM TypeCorrect == Spec => []TypeOK
<1>1. IndInv => TypeOK
  BY DEF IndInv
<1> QED
  BY <1>1, Invariance, PTL

(***************************************************************************)
(* However many registrations run at once, no two accounts share an email  *)
(* or a username.                                                          *)
(***************************************************************************)
THEOREM UniqueIdentities == Spec => []IdentitiesUnique
<1>1. IndInv => IdentitiesUnique
  BY DEF IndInv
<1> QED
  BY <1>1, Invariance, PTL

(***************************************************************************)
(* A registration answered 201 is in the table, and one answered 409 has   *)
(* met an account of somebody else.                                        *)
(***************************************************************************)
THEOREM TruthfulAnswers == Spec => []AnswersAreTruthful
<1>1. IndInv => AnswersAreTruthful
  BY DEF IndInv, Fate, Claim, AnswersAreTruthful
<1> QED
  BY <1>1, Invariance, PTL

(***************************************************************************)
(* For all lifetimes of tokens: no chain of refreshes keeps a login alive  *)
(* beyond RefreshTTL + AccessTTL.                                          *)
(***************************************************************************)
THEOREM LoginsDoExpire == Spec => LoginsExpire
<1> DEFINE InTerm(r) == \A t \in shown[r] : began[r] < t.login + RefreshTTL + AccessTTL
<1>1. ASSUME IndInv, NEW r \in Requests, pc[r] = "serve"
      PROVE  InTerm(r)
  <2>1. SUFFICES ASSUME NEW t \in shown[r]
                 PROVE  began[r] < t.login + RefreshTTL + AccessTTL
    OBVIOUS
  <2>2. /\ t \in tokens /\ t \in Token /\ began[r] \in Nat
    BY <1>1, TimesAreTyped DEF IndInv, TypeOK
  <2>3. began[r] < t.exp /\ t.type = "access"
    BY <1>1 DEF IndInv, Fate, Progress, Timing, ShowsToken
  <2>4. t.exp <= t.login + RefreshTTL + IF t.type = "access" THEN AccessTTL ELSE 0
    BY <1>1, <2>2 DEF IndInv, TokensInTerm
  <2> QED
    BY <2>2, <2>3, <2>4, TimesAreTyped DEF Token
<1>2. IndInv /\ [Next]_vars =>
        [\A r \in Requests : pc[r] = "serve" /\ answer'[r] = "served" => InTerm(r)]_vars
  BY <1>1
<1> QED
  BY <1>2, Invariance, PTL DEF Spec, LoginsExpire

(***************************************************************************)
(* An account that is inactive when a request arrives is not served,       *)
(* whatever tokens it has been given since.                                *)
(***************************************************************************)
THEOREM InactiveStayOut == Spec => InactiveAreLockedOut
<1>1. ASSUME IndInv, NEW r \in Requests, pc[r] = "serve"
      PROVE  \A t \in shown[r] : t.sub \notin locked[r]
  BY <1>1 DEF IndInv, Fate, Lockout
<1>2. IndInv /\ [Next]_vars =>
        [\A r \in Requests : pc[r] = "serve" /\ answer'[r] = "served" =>
             \A t \in shown[r] : t.sub \notin locked[r]]_vars
  BY <1>1
<1> QED
  BY <1>2, Invariance, PTL DEF Spec, InactiveAreLockedOut
=============================================================================
