---------------------------- MODULE EmailWorker ----------------------------
(***************************************************************************)
(* The arq worker and its job send_task_assigned_email (src/workers/).     *)
(*                                                                         *)
(* One worker takes jobs from the queue and runs several at once in its    *)
(* event loop.  They share the SMTP backend that startup has made: each    *)
(* connects it, or finds it connected, when it enters `async with`, and    *)
(* closes it when it leaves, whoever else is inside.                       *)
(*                                                                         *)
(* The queue, the retries and the SMTP library are external: arq counts    *)
(* the tries of a job in Redis, runs it again when its worker was stopped  *)
(* in the middle, and gives it up when it raises, when it takes too long,  *)
(* or when it has been tried MaxTries times; a call of sendmail delivers   *)
(* one mail or none, and without a connection it raises or makes another.  *)
(*                                                                         *)
(* A definition marked "Fault:" is no part of the system: it is the form   *)
(* its neighbour would take with a bug in the code, kept to show which     *)
(* property notices.                                                       *)
(***************************************************************************)
EXTENDS Naturals

CONSTANTS
    JobIds,
    Accounts,   \* the rows of users
    MaxTries    \* arq's max_tries: WorkerSettings keeps the default

VARIABLES
    jobs,       \* the jobs put into the queue, records with an id and a user
    stage,      \* where each job stands, "waiting" also before it is queued
    tries,      \* how often each job has been started
    connected,  \* the jobs about to send whose connection nobody has closed
    mails,      \* the mails delivered: of which job, by which of its tries
    stopped,    \* history: the jobs that were running when the worker stopped
    disturbed   \* history: the jobs that, in their present try, the SMTP server
                \* has failed or another job's exit from the backend has hit

Inside == {"send", "exit"}

Running == {j \in JobIds : stage[j] \in {"lookup", "enter"} \cup Inside}

Init ==
    /\ stage = [j \in JobIds |-> "waiting"]
    /\ tries = [j \in JobIds |-> 0]
    /\ connected = {}
    /\ mails = {}
    /\ stopped = {}
    /\ disturbed = {}

Goto(j, from, to) ==
    /\ stage[j] = from
    /\ stage' = [stage EXCEPT ![j] = to]

\* The worker takes a job from the queue.
Start(j) ==
    /\ \E k \in jobs : k.id = j
    /\ IF tries[j] = MaxTries
       THEN Goto(j, "waiting", "failed") /\ UNCHANGED tries
       ELSE Goto(j, "waiting", "lookup") /\ tries' = [tries EXCEPT ![j] = @ + 1]
    /\ UNCHANGED <<connected, mails, stopped, disturbed>>

\* UserRepository.get_by_id; UserNotFound fails the job.
LookUp(j) ==
    /\ \E k \in jobs :
         k.id = j /\ Goto(j, "lookup", IF k.user \in Accounts THEN "enter" ELSE "unknown")
    /\ UNCHANGED <<tries, connected, mails, stopped, disturbed>>

(* The backend.  What it raises is logged and forgotten. *)

\* Leaving async with closes the backend, also under jobs that are sending.
Close(j) ==
    /\ connected' = {}
    /\ disturbed' = disturbed \cup {i \in JobIds \ {j} : stage[i] = "send"}

\* Fault: sendmail is called below the async with, not in it.
EnterAndLeave(j) ==
    /\ Goto(j, "enter", "send")
    /\ Close(j)
    /\ UNCHANGED <<tries, mails, stopped>>

\* async with: the server may not be there.
Enter(j) ==
    /\ \/ /\ Goto(j, "enter", "send")
          /\ connected' = connected \cup {j}
          /\ UNCHANGED disturbed
       \/ /\ Goto(j, "enter", "done")
          /\ disturbed' = disturbed \cup {j}
          /\ UNCHANGED connected
    /\ UNCHANGED <<tries, mails, stopped>>

Mail(j) == [job |-> j, try |-> tries[j]]

\* Fault: an error of the SMTP server, also one after it has taken the mail,
\* asks arq for another try.
SendOrRetry(j) ==
    /\ \/ Goto(j, "send", "exit")
       \/ Goto(j, "send", "waiting")
    /\ connected' = connected \ {j}
    /\ mails' \in {mails, mails \cup {Mail(j)}}
    /\ disturbed' = disturbed \cup {j}
    /\ UNCHANGED <<tries, stopped>>

\* The server takes the mail, whatever is raised after that.
Delivers(j) ==
    /\ mails' = mails \cup {Mail(j)}
    /\ UNCHANGED disturbed

\* The server fails sendmail.
ServerFails(j) ==
    /\ disturbed' = disturbed \cup {j}
    /\ UNCHANGED mails

\* The backend has been closed, and sendmail raises.
FindsItClosed(j) ==
    /\ j \notin connected
    /\ UNCHANGED <<mails, disturbed>>

\* sendmail, which without a connection may also make another.
Send(j) ==
    /\ Goto(j, "send", "exit")
    /\ connected' = connected \ {j}
    /\ Delivers(j) \/ ServerFails(j) \/ FindsItClosed(j)
    /\ UNCHANGED <<tries, stopped>>

\* The coroutine returns and arq records the result.
Exit(j) ==
    /\ Goto(j, "exit", "done")
    /\ Close(j)
    /\ UNCHANGED <<tries, mails, stopped>>

\* The database fails the lookup, or the job runs into arq's job_timeout, which
\* cancels it: the backend is closed as it always is.
Fail(j) ==
    /\ j \in Running
    /\ stage' = [stage EXCEPT ![j] = "failed"]
    /\ IF stage[j] \in Inside THEN Close(j) ELSE UNCHANGED <<connected, disturbed>>
    /\ UNCHANGED <<tries, mails, stopped>>

\* The worker is shut down, which cancels its jobs, or dies: whatever it was
\* running is still in the queue for the one that is started next, which makes
\* a backend of its own.
Stop ==
    /\ Running # {}
    /\ stage' = [j \in JobIds |-> IF j \in Running THEN "waiting" ELSE stage[j]]
    /\ connected' = {}
    /\ stopped' = stopped \cup Running
    /\ disturbed' = disturbed \ Running
    /\ UNCHANGED <<tries, mails>>

Step(j) == Start(j) \/ LookUp(j) \/ Enter(j) \/ Send(j) \/ Exit(j)

Next == Stop \/ \E j \in JobIds : Step(j) \/ Fail(j)
=============================================================================
