------------------------------ MODULE Printing ------------------------------
(***************************************************************************)
(* Print jobs (printing.service.ts) and the local connector that prints    *)
(* them (apps/local-connector): it polls for pending jobs on a timer, does *)
(* not wait for the poll before, and reports each job by calls that may    *)
(* fail.  The API changes a job's status whatever it is, for the connector *)
(* and for users who may operate the printers.  Nobody learns of the       *)
(* paper: a dry run, the connector's default, only logs the job, and a     *)
(* printer has printed when the socket was closed.                         *)
(***************************************************************************)
CONSTANTS
    Jobs,       \* rows that can be inserted
    Polls,      \* polls in progress at once
    NoJob

VARIABLES
    job,        \* the status of each print_jobs row
    poll,       \* the connector's polls: what they fetched and where they are
    desk        \* the retry in flight: what it read

printVars == <<job, poll, desk>>
-----------------------------------------------------------------------------
NoPoll == [at |-> "idle", jobs |-> {}, job |-> NoJob]

Step(p, at) == poll' = [poll EXCEPT ![p].at = at]

\* A ticket's route, the drawer, a cancellation or reprintJob inserts one.
Enqueue(j) ==
    /\ job[j] = "absent"
    /\ job' = [job EXCEPT ![j] = "pending"]
    /\ UNCHANGED <<poll, desk>>

\* transitionJob and failJob, without a look at the status.
SetStatus(j, status) == job' = [job EXCEPT ![j] = status]

\* startJob, completeJob and failJob by a user: of any job.
Operate(j) ==
    /\ job[j] # "absent"
    /\ \E status \in {"printing", "printed", "failed"} : SetStatus(j, status)
    /\ UNCHANGED <<poll, desk>>

\* processPendingJobs: the newest pending ones, at most five.
Fetch(p) ==
    LET pending == {j \in Jobs : job[j] = "pending"} IN
    /\ poll[p] = NoPoll /\ pending # {}
    /\ poll' = [poll EXCEPT ![p] = [NoPoll EXCEPT !.at = "next", !.jobs = pending]]
    /\ UNCHANGED <<job, desk>>

StartJob(p, j) ==
    /\ poll[p].at = "next" /\ j \in poll[p].jobs
    /\ SetStatus(j, "printing")
    /\ poll' = [poll EXCEPT ![p] = [at |-> "print", jobs |-> @.jobs \ {j}, job |-> j]]
    /\ UNCHANGED desk

\* printJob: the job is logged or its copies sent, or it throws.
PrintJob(p) ==
    /\ poll[p].at = "print"
    /\ \E at \in {"complete", "fail"} : Step(p, at)
    /\ UNCHANGED <<job, desk>>

After(p) == poll' = [poll EXCEPT ![p] = IF @.jobs = {} THEN NoPoll ELSE [@ EXCEPT !.at = "next", !.job = NoJob]]

\* completeJob; when its answer is lost the catch reports a failure.
CompleteJob(p) ==
    /\ poll[p].at = "complete"
    /\ SetStatus(poll[p].job, "printed")
    /\ After(p) \/ Step(p, "fail")
    /\ UNCHANGED desk

CompleteLost(p) ==
    /\ poll[p].at = "complete"
    /\ Step(p, "fail")
    /\ UNCHANGED <<job, desk>>

FailJob(p) ==
    /\ poll[p].at = "fail"
    /\ SetStatus(poll[p].job, "failed")
    /\ After(p)
    /\ UNCHANGED desk

\* A call that fails outside the try ends the poll; a crash ends them all.
Abandon(p) ==
    /\ poll[p].at \in {"next", "fail"}
    /\ poll' = [poll EXCEPT ![p] = NoPoll]
    /\ UNCHANGED <<job, desk>>

Crash ==
    /\ \E p \in Polls : poll[p] # NoPoll
    /\ poll' = [p \in Polls |-> NoPoll]
    /\ UNCHANGED <<job, desk>>

\* retryJob reads the status and then makes the job pending.
ReadRetry(j) ==
    /\ desk = NoJob /\ job[j] \in {"failed", "canceled"}
    /\ desk' = j
    /\ UNCHANGED <<job, poll>>

WriteRetry ==
    /\ desk # NoJob
    /\ SetStatus(desk, "pending")
    /\ desk' = NoJob
    /\ UNCHANGED poll
-----------------------------------------------------------------------------
PrintInit ==
    /\ job = [j \in Jobs |-> "absent"]
    /\ poll = [p \in Polls |-> NoPoll]
    /\ desk = NoJob

PrintNext ==
    \/ \E j \in Jobs : Enqueue(j) \/ Operate(j) \/ ReadRetry(j)
    \/ \E p \in Polls : \/ Fetch(p) \/ PrintJob(p) \/ CompleteJob(p) \/ CompleteLost(p) \/ FailJob(p) \/ Abandon(p)
                        \/ \E j \in Jobs : StartJob(p, j)
    \/ Crash
    \/ WriteRetry

PrintSpec == PrintInit /\ [][PrintNext]_printVars
-----------------------------------------------------------------------------
(*                                Properties                               *)

PrintTypeOK ==
    /\ job \in [Jobs -> {"absent", "pending", "printing", "printed", "failed"}]
    /\ poll \in [Polls -> [at : {"idle", "next", "print", "complete", "fail"}, jobs : SUBSET Jobs,
                           job : Jobs \cup {NoJob}]]
    /\ desk \in Jobs \cup {NoJob}
=============================================================================
