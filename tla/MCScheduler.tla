---------------------------- MODULE MCScheduler ----------------------------
(***************************************************************************)
(* A small instance of Scheduler: a cron job, and an event job that is     *)
(* triggered from outside and by the failures of the cron job.  Their runs *)
(* share one worker.                                                       *)
(***************************************************************************)
EXTENDS Scheduler

CONSTANTS report, hedge, key1, nobody, none   \* model values

TwoJobs == {report, hedge}

TwoJobDefs == [j \in TwoJobs |->
    IF j = report
    THEN [cron |-> TRUE,  interval |-> FALSE, topics |-> {}, maxRetries |-> 2, key |-> key1]
    ELSE [cron |-> FALSE, interval |-> FALSE, topics |-> {"price", "job_failed"},
          maxRetries |-> 1, key |-> NoKey]]

ReportOnly == {report}
=============================================================================
