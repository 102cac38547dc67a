------------------------ MODULE NotificationsProofs ------------------------
(***************************************************************************)
(* Safety of the assignment notifications, for any number of requests and  *)
(* jobs, any bound on the tries and any interleaving of the handlers with  *)
(* the worker, its faults and its restarts.                                *)
(*                                                                         *)
(* The worker never writes what the handlers read and they never write     *)
(* what it keeps, so the inductive invariant of the handlers holds as it   *)
(* stands.  What is added says of every job how often it has been started, *)
(* that a second start comes after a stop, and which tries have sent.      *)
(***************************************************************************)
EXTENDS AssignmentNotifications, TaskServiceProofs, FiniteSetTheorems

\* Nobody is ever at "unknown".
Stages == {"waiting", "lookup", "enter", "send", "exit", "done", "failed"}

WorkerType ==
    /\ stage \in [Requests -> Stages]
    /\ tries \in [Requests -> Nat]
    /\ connected \subseteq Requests
    /\ disturbed \subseteq Requests
    /\ mails \subseteq [job : Requests, try : Nat]
    /\ stopped \subseteq Requests

Queued(j) == \E k \in jobs : k.id = j

\* What the worker has taken from the queue was in it, and it takes nothing
\* twice unless it has been stopped, and more than MaxTries times never.
Starts(j) ==
    /\ tries[j] <= MaxTries
    /\ stage[j] # "waiting" => Queued(j)
    /\ j \in Worker!Running => tries[j] > 0
    /\ stage[j] = "waiting" /\ tries[j] > 0 => j \in stopped
    /\ tries[j] > 1 => j \in stopped

\* A mail is from a try that has been started, and the present try has sent
\* none before it gets there.
Sent(m) ==
    /\ Queued(m.job)
    /\ m.try > 0 /\ m.try <= tries[m.job]
    /\ stage[m.job] \in {"lookup", "enter", "send"} => m.try # tries[m.job]

\* A job that has been through with the backend has sent a mail or has been
\* disturbed, and while it is about to send it has its connection or has been
\* disturbed.
Served(j) ==
    /\ stage[j] = "send" => j \in connected \cup disturbed
    /\ stage[j] \in {"exit", "done"} /\ (\A m \in mails : m.job # j) => j \in disturbed

WorkerInv ==
    /\ WorkerType
    /\ \A j \in Requests : Starts(j)
    /\ \A m \in mails : Sent(m)
    /\ \A j \in Requests : Served(j)

-----------------------------------------------------------------------------
(* The handlers.                                                           *)

\* What the worker does is a stuttering step of the handlers.
LEMMA HandlersStep == NotifyNext => [Next]_vars
  BY DEF NotifyNext, HandlersMove, WorkerMoves

(***************************************************************************)
(* The inductive invariant of the handlers survives the worker.            *)
(***************************************************************************)
THEOREM HandlersInvariance == NotifySpec => []IndInv
<1>1. NotifyInit => IndInv
  BY InitIndInv DEF NotifyInit
<1>2. IndInv /\ [NotifyNext]_all => IndInv'
  <2>1. [NotifyNext]_all => [Next]_vars
    BY HandlersStep DEF all
  <2> QED
    BY <2>1, NextIndInv
<1> QED
  BY <1>1, <1>2, PTL DEF NotifySpec

\* A job is the notification of a committed assignment to an account that is
\* a member of the organization of the task.
LEMMA JobsAreAssignments ==
    ASSUME IndInv, NEW k \in jobs
    PROVE  LET c == call[k.id] IN
           /\ k.id \in committed /\ c.op = "assign" /\ k.user = c.target
           /\ c.target \in Accounts
           /\ <<c.target, ProjectOrg[tasks[c.task].project]>> \in members
<1>1. k.id \in committed /\ call[k.id].op = "assign" /\ k = JobOf(k.id)
  BY DEF IndInv, Notifications
<1>2. <<call[k.id].target, ProjectOrg[tasks[call[k.id].task].project]>> \in members
  BY <1>1 DEF IndInv, OutsidersNeverWrite
<1>3. k.user = call[k.id].target
  BY <1>1 DEF JobOf
<1> QED
  BY <1>1, <1>2, <1>3 DEF IndInv, TypeOK

\* The queue only grows.
LEMMA JobsStay == Next => jobs \subseteq jobs'
  BY DEF Next, Begin, Step, Abort, Rollback, Authorize, Load, Check, CheckAssignee,
         InsertTask, UpdateStatus, AssignTask, Flush, Commit, EnqueueJob, EnqueueFails,
         Respond, Join, Finished, vars

-----------------------------------------------------------------------------
(* The worker.                                                             *)

LEMMA StartInv ==
    ASSUME WorkerInv, NEW j \in Requests, Worker!Start(j), UNCHANGED vars
    PROVE  WorkerInv'
<1>1. /\ Queued(j) /\ stage[j] = "waiting"
      /\ UNCHANGED <<jobs, connected, mails, stopped, disturbed>>
  BY DEF Worker!Start, Worker!Goto, Queued, vars
<1>2. CASE tries[j] = MaxTries
  <2>1. stage' = [stage EXCEPT ![j] = "failed"] /\ tries' = tries
    BY <1>2 DEF Worker!Start, Worker!Goto
  <2> QED
    BY <1>1, <2>1
    DEF WorkerInv, WorkerType, Stages, Starts, Sent, Served, Queued, Worker!Running, Worker!Inside
<1>3. CASE tries[j] # MaxTries
  <2>1. /\ stage' = [stage EXCEPT ![j] = "lookup"]
        /\ tries' = [tries EXCEPT ![j] = @ + 1]
    BY <1>3 DEF Worker!Start, Worker!Goto
  <2>2. WorkerType'
    BY <1>1, <2>1 DEF WorkerInv, WorkerType, Stages
  <2>3. \A i \in Requests : Starts(i)'
    BY <1>1, <1>3, <2>1, MaxTriesIsPositive
    DEF WorkerInv, WorkerType, Starts, Queued, Worker!Running, Worker!Inside
  <2>4. \A m \in mails' : Sent(m)'
    BY <1>1, <2>1 DEF WorkerInv, WorkerType, Sent, Queued
  <2>5. \A i \in Requests : Served(i)'
    BY <1>1, <2>1 DEF WorkerInv, WorkerType, Served
  <2> QED
    BY <2>2, <2>3, <2>4, <2>5 DEF WorkerInv
<1> QED
  BY <1>2, <1>3

\* The user of a job has an account, so the lookup finds it.
LEMMA LookUpInv ==
    ASSUME IndInv, WorkerInv, NEW j \in Requests, Worker!LookUp(j), UNCHANGED vars
    PROVE  WorkerInv'
<1>1. PICK k \in jobs :
        k.id = j /\ Worker!Goto(j, "lookup", IF k.user \in Accounts THEN "enter" ELSE "unknown")
  BY DEF Worker!LookUp
<1>2. k.user \in Accounts
  BY JobsAreAssignments
<1>3. /\ stage[j] = "lookup" /\ stage' = [stage EXCEPT ![j] = "enter"]
      /\ UNCHANGED <<jobs, tries, connected, mails, stopped, disturbed>>
  BY <1>1, <1>2 DEF Worker!LookUp, Worker!Goto, vars
<1> QED
  BY <1>3
  DEF WorkerInv, WorkerType, Stages, Starts, Sent, Served, Queued, Worker!Running, Worker!Inside

\* A job that enters has a connection, one that cannot is done and disturbed.
LEMMA EnterInv ==
    ASSUME WorkerInv, NEW j \in Requests, Worker!Enter(j), UNCHANGED vars
    PROVE  WorkerInv'
<1>1. stage[j] = "enter" /\ UNCHANGED <<jobs, tries, mails, stopped>>
  BY DEF Worker!Enter, Worker!Goto, vars
<1>2. CASE /\ stage' = [stage EXCEPT ![j] = "send"]
           /\ connected' = connected \cup {j}
           /\ UNCHANGED disturbed
  BY <1>1, <1>2
  DEF WorkerInv, WorkerType, Stages, Starts, Sent, Served, Queued, Worker!Running, Worker!Inside
<1>3. CASE /\ stage' = [stage EXCEPT ![j] = "done"]
           /\ disturbed' = disturbed \cup {j}
           /\ UNCHANGED connected
  BY <1>1, <1>3
  DEF WorkerInv, WorkerType, Stages, Starts, Sent, Served, Queued, Worker!Running, Worker!Inside
<1> QED
  BY <1>2, <1>3 DEF Worker!Enter, Worker!Goto

LEMMA SendInv ==
    ASSUME WorkerInv, NEW j \in Requests, Worker!Send(j), UNCHANGED vars
    PROVE  WorkerInv'
<1>1. /\ stage[j] = "send" /\ stage' = [stage EXCEPT ![j] = "exit"]
      /\ mails' = mails \/ mails' = mails \cup {Worker!Mail(j)}
      /\ connected' = connected \ {j}
      /\ UNCHANGED <<jobs, tries, stopped>>
  BY DEF Worker!Send, Worker!Delivers, Worker!ServerFails, Worker!FindsItClosed, Worker!Goto, vars
<1>2. Worker!Mail(j) = [job |-> j, try |-> tries[j]] /\ tries[j] \in Nat /\ tries[j] > 0
  BY <1>1 DEF Worker!Mail, WorkerInv, WorkerType, Starts, Worker!Running, Worker!Inside
<1>3. /\ disturbed' \in {disturbed, disturbed \cup {j}}
      /\ Worker!Mail(j) \in mails' \/ j \in disturbed'
  BY <1>1 DEF Worker!Send, Worker!Delivers, Worker!ServerFails, Worker!FindsItClosed,
              WorkerInv, Served
<1>4. WorkerType'
  BY <1>1, <1>2, <1>3 DEF WorkerInv, WorkerType, Stages
<1>5. \A i \in Requests : Starts(i)'
  BY <1>1 DEF WorkerInv, WorkerType, Starts, Queued, Worker!Running, Worker!Inside
<1>6. ASSUME NEW m \in mails' PROVE Sent(m)'
  <2>1. CASE m \in mails
    BY <1>1, <2>1 DEF WorkerInv, WorkerType, Sent, Queued
  <2>2. CASE m = Worker!Mail(j)
    BY <1>1, <1>2, <2>2 DEF WorkerInv, WorkerType, Starts, Sent, Queued
  <2> QED
    BY <1>1, <2>1, <2>2
<1>7. ASSUME NEW i \in Requests PROVE Served(i)'
  <2>1. CASE i = j
    BY <1>1, <1>2, <1>3, <2>1 DEF WorkerInv, WorkerType, Served
  <2>2. CASE i # j
    BY <1>1, <1>3, <2>2 DEF WorkerInv, WorkerType, Served
  <2> QED
    BY <2>1, <2>2
<1> QED
  BY <1>4, <1>5, <1>6, <1>7 DEF WorkerInv

\* A job ends, because it has returned or because the database or its timeout
\* has failed it.  It may close the backend, which disturbs those that send.
LEMMA EndInv ==
    ASSUME WorkerInv, NEW j \in Requests, Worker!Exit(j) \/ Worker!Fail(j), UNCHANGED vars
    PROVE  WorkerInv'
<1>1. /\ stage[j] # "waiting"
      /\ \/ stage' = [stage EXCEPT ![j] = "failed"]
         \/ stage[j] = "exit" /\ stage' = [stage EXCEPT ![j] = "done"]
      /\ Worker!Close(j) \/ UNCHANGED <<connected, disturbed>>
      /\ UNCHANGED <<jobs, tries, mails, stopped>>
  BY DEF Worker!Exit, Worker!Fail, Worker!Goto, Worker!Running, Worker!Inside, vars
<1>2. /\ disturbed \subseteq disturbed' /\ disturbed' \subseteq Requests
      /\ connected' \subseteq Requests
      /\ \A i \in Requests \ {j} :
           stage[i] = "send" /\ i \in connected \cup disturbed => i \in connected' \cup disturbed'
  BY <1>1 DEF Worker!Close, WorkerInv, WorkerType
<1>3. WorkerType'
  BY <1>1, <1>2 DEF WorkerInv, WorkerType, Stages
<1>4. \A i \in Requests : Starts(i)'
  BY <1>1 DEF WorkerInv, WorkerType, Starts, Queued, Worker!Running, Worker!Inside
<1>5. \A m \in mails' : Sent(m)'
  BY <1>1 DEF WorkerInv, WorkerType, Sent, Queued
<1>6. ASSUME NEW i \in Requests PROVE Served(i)'
  BY <1>1, <1>2 DEF WorkerInv, WorkerType, Served
<1> QED
  BY <1>3, <1>4, <1>5, <1>6 DEF WorkerInv

LEMMA StopInv ==
    ASSUME WorkerInv, Worker!Stop, UNCHANGED vars
    PROVE  WorkerInv'
<1>1. /\ stage' = [j \in Requests |-> IF j \in Worker!Running THEN "waiting" ELSE stage[j]]
      /\ connected' = {}
      /\ stopped' = stopped \cup Worker!Running
      /\ disturbed' = disturbed \ Worker!Running
      /\ UNCHANGED <<jobs, tries, mails>>
  BY DEF Worker!Stop, vars
<1> QED
  BY <1>1
  DEF WorkerInv, WorkerType, Stages, Starts, Sent, Served, Queued, Worker!Running, Worker!Inside

LEMMA NextWorkerInv == IndInv /\ WorkerInv /\ [NotifyNext]_all => WorkerInv'
<1> SUFFICES ASSUME IndInv, WorkerInv, [NotifyNext]_all PROVE WorkerInv'
  OBVIOUS
<1>1. ASSUME UNCHANGED progress, jobs \subseteq jobs' PROVE WorkerInv'
  BY <1>1
  DEF progress, WorkerInv, WorkerType, Starts, Sent, Served, Queued, Worker!Running, Worker!Inside
<1>2. CASE UNCHANGED all
  BY <1>1, <1>2 DEF all, vars
<1>3. CASE HandlersMove
  BY <1>1, <1>3, JobsStay DEF HandlersMove
<1>4. CASE WorkerMoves
  BY <1>4, StartInv, LookUpInv, EnterInv, SendInv, EndInv, StopInv
  DEF WorkerMoves, Worker!Next, Worker!Step
<1> QED
  BY <1>2, <1>3, <1>4 DEF NotifyNext

(***************************************************************************)
(* What is said of the starts and the mails of the worker holds under      *)
(* every interleaving with the handlers.                                   *)
(***************************************************************************)
THEOREM WorkerInvariance == NotifySpec => []WorkerInv
<1>1. NotifyInit => WorkerInv
  BY MaxTriesIsPositive
  DEF NotifyInit, Worker!Init, WorkerInv, WorkerType, Stages, Starts, Sent, Served,
      Worker!Running, Worker!Inside
<1> QED
  BY <1>1, NextWorkerInv, HandlersInvariance, PTL DEF NotifySpec

(***************************************************************************)
(* A mail tells a member, with an account, of a committed assignment, and  *)
(* the worker finds the user of every job: UserNotFound is never raised.   *)
(***************************************************************************)
THEOREM MailsAreOfAssignments == NotifySpec => []MailsFollowAssignments
<1>1. IndInv /\ WorkerInv => MailsFollowAssignments
  <2> SUFFICES ASSUME IndInv, WorkerInv PROVE MailsFollowAssignments
    OBVIOUS
  <2>1. ASSUME NEW m \in mails
        PROVE  \E k \in jobs : k.id = m.job
    BY DEF WorkerInv, Sent, Queued
  <2>2. \A r \in Requests : stage[r] # "unknown"
    BY DEF WorkerInv, WorkerType, Stages
  <2> QED
    BY <2>1, <2>2, JobsAreAssignments DEF MailsFollowAssignments
<1> QED
  BY <1>1, HandlersInvariance, WorkerInvariance, PTL

(***************************************************************************)
(* A second mail of one job is from a second try, and that is started only *)
(* because the worker was stopped during the first.                        *)
(***************************************************************************)
THEOREM OneMailUnlessStopped == NotifySpec => []DuplicatesNeedAStop
<1>1. WorkerInv => DuplicatesNeedAStop
  <2> SUFFICES ASSUME WorkerInv, NEW m \in mails, NEW n \in mails, m.job = n.job, m # n
               PROVE  m.job \in stopped
    BY DEF DuplicatesNeedAStop
  <2>1. m \in [job : Requests, try : Nat] /\ n \in [job : Requests, try : Nat]
    BY DEF WorkerInv, WorkerType
  <2>2. m.try # n.try
    BY <2>1
  <2>3. tries[m.job] > 1
    BY <2>1, <2>2 DEF WorkerInv, WorkerType, Sent
  <2> QED
    BY <2>1, <2>3 DEF WorkerInv, Starts
<1> QED
  BY <1>1, WorkerInvariance, PTL

(***************************************************************************)
(* A job that ends without a mail has met an error of the SMTP server or   *)
(* another job's exit from the backend they share: using it in turn loses  *)
(* nothing.                                                                *)
(***************************************************************************)
THEOREM LossesAreExplained == NotifySpec => []LossesHaveACause
<1>1. WorkerInv => LossesHaveACause
  BY DEF WorkerInv, Served, LossesHaveACause
<1> QED
  BY <1>1, WorkerInvariance, PTL

MailsWithinTries ==
    \A j \in Requests :
        LET sent == {m \in mails : m.job = j} IN
        IsFiniteSet(sent) /\ Cardinality(sent) <= MaxTries

(***************************************************************************)
(* However often the worker is stopped in the middle of a job, its user is *)
(* not mailed more often than arq tries a job.                             *)
(***************************************************************************)
THEOREM NoMoreMailsThanTries == NotifySpec => []MailsWithinTries
<1>1. WorkerInv => MailsWithinTries
  <2> SUFFICES ASSUME WorkerInv, NEW j \in Requests
               PROVE  LET sent == {m \in mails : m.job = j}
                      IN  IsFiniteSet(sent) /\ Cardinality(sent) <= MaxTries
    BY DEF MailsWithinTries
  <2> DEFINE sent == {m \in mails : m.job = j}
             tryOf == [m \in sent |-> m.try]
  <2>1. ASSUME NEW m \in sent
        PROVE  m \in [job : Requests, try : Nat] /\ m.job = j /\ m.try \in 1 .. MaxTries
    BY MaxTriesIsPositive DEF WorkerInv, WorkerType, Sent, Starts
  <2>2. \A m, n \in sent : m.try = n.try => m = n
    BY <2>1
  <2>3. tryOf \in Injection(sent, 1 .. MaxTries)
    BY <2>1, <2>2 DEF Injection, IsInjective
  <2>4. IsFiniteSet(1 .. MaxTries) /\ Cardinality(1 .. MaxTries) = MaxTries
    BY MaxTriesIsPositive, FS_Interval
  <2> HIDE DEF sent, tryOf
  <2>5. IsFiniteSet(sent) /\ Cardinality(sent) <= MaxTries
    BY <2>3, <2>4, FS_Injection
  <2> QED
    BY <2>5 DEF sent
<1> QED
  BY <1>1, WorkerInvariance, PTL
=============================================================================
