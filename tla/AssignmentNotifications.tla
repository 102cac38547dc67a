---------------------- MODULE AssignmentNotifications ----------------------
(***************************************************************************)
(* The notification of an assignee from end to end: the handlers of        *)
(* TaskService put jobs into the queue, EmailWorker takes them out.  The   *)
(* two processes share nothing but the queue and the database.             *)
(***************************************************************************)
EXTENDS TaskService, Naturals

CONSTANT MaxTries   \* arq's max_tries

ASSUME MaxTriesIsPositive == MaxTries \in Nat \ {0}

VARIABLES stage, tries, connected, mails, stopped, disturbed

Worker == INSTANCE EmailWorker WITH JobIds <- Requests

progress == <<stage, tries, connected, mails, stopped, disturbed>>

all == <<vars, progress>>

HandlersMove == Next /\ UNCHANGED progress

WorkerMoves == Worker!Next /\ UNCHANGED vars

NotifyInit == Init /\ Worker!Init

NotifyNext == HandlersMove \/ WorkerMoves

\* The event loops of both processes resume what can go on, and the worker is
\* started again when it has been stopped.
NotifySpec ==
    /\ NotifyInit /\ [][NotifyNext]_all
    /\ \A r \in Requests : WF_all(Step(r) /\ UNCHANGED progress)
    /\ \A r \in Requests : WF_all(Worker!Step(r) /\ UNCHANGED vars)

-----------------------------------------------------------------------------
(* What the two guarantee together.                                        *)

(***************************************************************************)
(* A mail only tells of an assignment that has been committed, and tells a *)
(* member of the organization of the task; and no job fails for want of    *)
(* its user, although the worker is another process, which looks the user  *)
(* up in a session of its own.                                             *)
(***************************************************************************)
MailsFollowAssignments ==
    /\ \A m \in mails :
         LET c == call[m.job] IN
         /\ m.job \in committed /\ c.op = "assign"
         /\ c.target \in Accounts
         /\ <<c.target, ProjectOrg[tasks[c.task].project]>> \in members
    /\ \A r \in Requests : stage[r] # "unknown"

(***************************************************************************)
(* Nobody is mailed twice about an assignment unless the worker was        *)
(* stopped in the middle of the job: neither a failing SMTP server nor a   *)
(* failing enqueue, whose client is told to try again, leads to a second   *)
(* mail of the same job.                                                   *)
(***************************************************************************)
DuplicatesNeedAStop ==
    \A m, n \in mails : m.job = n.job /\ m # n => m.job \in stopped

(***************************************************************************)
(* A job that arq takes for done without a mail of it, which nobody will   *)
(* ever send again, has met an error of the SMTP server, or another job    *)
(* that left the backend they share while this one was sending: jobs that  *)
(* use it one after the other lose nothing, also after an exit, a timeout  *)
(* or a restart has closed it.                                             *)
(***************************************************************************)
LossesHaveACause ==
    \A j \in Requests :
        stage[j] = "done" /\ (\A m \in mails : m.job # j) => j \in disturbed

(***************************************************************************)
(* Whoever is told that an assignment has taken place can count on its     *)
(* notification being worked on to an end, however often the worker is     *)
(* stopped: again and again there is a moment when nobody waits for a job  *)
(* that is not done, or that arq has not given up.                         *)
(***************************************************************************)
EveryNotificationConcludes ==
    []<>\A r \in Requests :
          answer[r] = "ok" /\ call[r].op = "assign" => stage[r] \in {"done", "failed"}
=============================================================================
