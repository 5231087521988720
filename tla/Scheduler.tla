----------------------------- MODULE Scheduler -----------------------------
(***************************************************************************)
(* services/distributed-scheduler/scheduler.ts with its retry engine       *)
(* (retry-engine.ts) and event bus (event-bus.ts), on top of WorkerPool.   *)
(*                                                                         *)
(* A chain is what one trigger of a job sets off: a run and, when it fails *)
(* and attempts are left, a timer that starts the next run of the same     *)
(* chain.  The code has no name for it: it is the promise of triggerJob()  *)
(* and the timer's closure.  A job can have several chains at once.  A     *)
(* chain is a caller of the pool, a member of Call: how many there are     *)
(* bounds how many chains there can be at one time.  The scheduler and its *)
(* pool start and stop together: they share the variable running.          *)
(*                                                                         *)
(* The code is single-threaded, and the bus calls its subscribers in a     *)
(* microtask, which runs before the next timer, answer or request: an      *)
(* event is delivered in the step that publishes it.  So is the end of a   *)
(* run: releasing the worker, recording the result and deciding on a retry *)
(* are parts of one step.                                                  *)
(*                                                                         *)
(* Time is abstract: a job's next run comes due, a retry timer fires, and  *)
(* a run ends (or times out) at any moment.                                *)
(***************************************************************************)
EXTENDS WorkerPool

CONSTANTS
    Job,             \* jobs that may be registered
    JobDef,          \* for each: [cron, interval, topics, maxRetries, key]
    NoKey,           \* the key of a job that has no idempotency key
    ExternalTopics,  \* topics published by anyone but the scheduler
    HistoryCap,      \* maxExecutionHistoryPerJob
    Swept,           \* bound: the jobs whose records may age out of the history
    Attended,        \* bound: the jobs whose owner does more than register them
    NoJob

Topic == ExternalTopics \cup {"job_completed", "job_failed", "job_dead"}

ASSUME JobAssumption == /\ NoJob \notin Job
                        /\ \A j \in Job : JobDef[j].topics \subseteq Topic
                        /\ \A j \in Job : JobDef[j].maxRetries \in Nat
                        /\ \A j \in Job : JobDef[j].cron \in BOOLEAN /\ JobDef[j].interval \in BOOLEAN
ASSUME HistoryAssumption == HistoryCap \in Nat \ {0} /\ Swept \subseteq Job
ASSUME BoundAssumption   == Attended \subseteq Job /\ IsFiniteSet(Call)

VARIABLES
    registered,                       \* the job registry: jobs in the order they came
    status, due,                      \* of each job; due: nextRunAt has passed
    retryTimers,                      \* job -> the chain whose timer cancelJob() would clear
    executionHistory,                 \* job -> was it a success, oldest first
    deadLetterQueue,
    chains,                           \* chain -> its job, and whether its timer is armed
    meddled                           \* history: jobs that were triggered by hand,
                                      \* resumed or taken from the dead letter queue

jobVars   == <<registered, status, due>>
retryVars == <<retryTimers, executionHistory, deadLetterQueue>>
schedulerVars == <<vars, jobVars, retryVars, chains, meddled>>

Status == {"unregistered", "pending", "running", "failed", "paused", "dead", "cancelled"}

NoChain == [job |-> NoJob, armed |-> FALSE]

SchedulerInit ==
    /\ Init
    /\ registered = << >>
    /\ status = [j \in Job |-> "unregistered"]
    /\ due = [j \in Job |-> FALSE]
    /\ retryTimers = << >>
    /\ executionHistory = [j \in Job |-> << >>]
    /\ deadLetterQueue = {}
    /\ chains = [c \in Call |-> NoChain]
    /\ meddled = {}

-----------------------------------------------------------------------------
(* Helpers.                                                                *)

Registered(j)  == status[j] # "unregistered"
ChainsOf(j)    == {c \in Call : chains[c].job = j}
InFlight(j)    == {c \in ChainsOf(j) : ~chains[c].armed}
Armed(j)       == {c \in ChainsOf(j) : chains[c].armed}

Without(f, k) == [x \in DOMAIN f \ {k} |-> f[x]]

\* What a trigger changes, as one record.
Now == [pool |-> pool, status |-> status, chains |-> chains]

FreeChains(s) == {c \in Call : s.chains[c] = NoChain}

\* triggerJob(), up to its await, for a chain that exists already.
RunAgain(s, c) ==
    [s EXCEPT !.status[s.chains[c].job] = "running",
              !.chains[c].armed = FALSE,
              !.pool = Acquire(s.pool, c)]

\* triggerJob(), up to its await, as a chain of its own.
Launch(s, j) ==
    LET c == CHOOSE c \in FreeChains(s) : TRUE
    IN  RunAgain([s EXCEPT !.chains[c] = [job |-> j, armed |-> FALSE]], c)

\* tickCron() and onBusEvent() go through the registry and trigger the jobs js
\* that match.
LaunchAll(s, js) ==
    LET after[i \in 0..Len(registered)] ==
            IF i = 0 THEN s
            ELSE IF registered[i] \in js THEN Launch(after[i - 1], registered[i])
            ELSE after[i - 1]
    IN  after[Len(registered)]

\* Bound: no step makes more workers than MaxSpawned.
Become(s) ==
    /\ Len(s.pool.workers) <= MaxSpawned
    /\ pool' = s.pool
    /\ status' = s.status
    /\ chains' = s.chains

\* Bound: a chain must be free for each of the jobs js to trigger.
Room(s, js) == Cardinality(FreeChains(s)) >= Cardinality(js)

\* (Faulty: the schedule also triggers jobs that wait for a retry.)
Triggerable_Failed(s, j) == s.status[j] \in {"pending", "failed"}
Triggerable(s, j)        == s.status[j] = "pending"

Subscribed(s, topic) == {j \in Job : Triggerable(s, j) /\ topic \in JobDef[j].topics}

\* The jobs js are triggered.
TriggerAll(s, js) == Room(s, js) /\ Become(LaunchAll(s, js))

\* publish() and, in the microtask that follows, onBusEvent().  The scheduler
\* stays subscribed after stop().
Publish(s, topic) == TriggerAll(s, Subscribed(s, topic))

-----------------------------------------------------------------------------
(* Life cycle.                                                             *)

StartScheduler ==
    /\ Start
    /\ UNCHANGED <<jobVars, retryVars, chains, meddled>>

StopScheduler ==
    /\ running
    /\ Stop
    /\ chains' = [c \in Call |-> IF \E j \in DOMAIN retryTimers : retryTimers[j] = c
                                  THEN NoChain ELSE chains[c]]
    /\ retryTimers' = << >>
    /\ UNCHANGED <<jobVars, executionHistory, deadLetterQueue, meddled>>

-----------------------------------------------------------------------------
(* Requests of the owner.                                                  *)

\* A second registration under the same idempotency key returns the first job.
RegisterJob(j) ==
    /\ running
    /\ ~Registered(j)
    /\ JobDef[j].key = NoKey \/ \A k \in Job : Registered(k) => JobDef[k].key # JobDef[j].key
    /\ registered' = Append(registered, j)
    /\ status' = [status EXCEPT ![j] = "pending"]
    /\ UNCHANGED <<vars, due, retryVars, chains, meddled>>

PauseJob(j) ==
    /\ Registered(j)
    /\ status' = [status EXCEPT ![j] = "paused"]
    /\ UNCHANGED <<vars, registered, due, retryVars, chains, meddled>>

\* The next run is computed anew for a cron expression only.
ResumeJob(j) ==
    /\ status[j] = "paused"
    /\ status' = [status EXCEPT ![j] = "pending"]
    /\ due' = [due EXCEPT ![j] = @ /\ ~JobDef[j].cron]
    /\ meddled' = meddled \cup {j}
    /\ UNCHANGED <<vars, registered, retryVars, chains>>

CancelJob(j) ==
    /\ Registered(j)
    /\ status' = [status EXCEPT ![j] = "cancelled"]
    /\ IF j \in DOMAIN retryTimers
       THEN /\ chains' = [chains EXCEPT ![retryTimers[j]] = NoChain]
            /\ retryTimers' = Without(retryTimers, j)
       ELSE UNCHANGED <<chains, retryTimers>>
    /\ UNCHANGED <<vars, registered, due, executionHistory,
                   deadLetterQueue, meddled>>

TriggerJobManually(j) ==
    /\ Registered(j)
    /\ status[j] # "running"
    /\ Room(Now, {j})
    /\ Become(Launch(Now, j))
    /\ meddled' = meddled \cup {j}
    /\ UNCHANGED <<running, history, registered, due, retryVars>>

RetryFromDlq(j) ==
    /\ j \in deadLetterQueue
    /\ deadLetterQueue' = deadLetterQueue \ {j}
    /\ executionHistory' = [executionHistory EXCEPT ![j] = << >>]
    /\ status' = [status EXCEPT ![j] = "pending"]
    /\ meddled' = meddled \cup {j}
    /\ UNCHANGED <<vars, registered, due, retryTimers, chains>>

-----------------------------------------------------------------------------
(* Triggers.                                                               *)

\* The instant nextRunAt passes.
ComesDue(j) ==
    /\ Registered(j)
    /\ JobDef[j].cron \/ JobDef[j].interval
    /\ ~due[j]
    /\ due' = [due EXCEPT ![j] = TRUE]
    /\ UNCHANGED <<vars, registered, status, retryVars, chains, meddled>>

TickCron ==
    LET js == {j \in Job : Triggerable(Now, j) /\ due[j]}
    IN  /\ running
        /\ js # {}
        /\ TriggerAll(Now, js)
        /\ UNCHANGED <<running, history, registered, due, retryVars, meddled>>

\* An on-chain listener or any other holder of the bus publishes.
ExternalEvent(topic) ==
    /\ Subscribed(Now, topic) # {}
    /\ Publish(Now, topic)
    /\ UNCHANGED <<running, history, registered, due, retryVars, meddled>>

\* (Faulty: the entry of the timer that fires stays.)
TimersAfter_Kept(j) == retryTimers
TimersAfter(j)      == Without(retryTimers, j)

\* The callback of a retry timer: whatever the job's status is by now, and
\* whichever timer retryTimers holds.
RetryTimerFires(c) ==
    /\ chains[c].armed
    /\ retryTimers' = TimersAfter(chains[c].job)
    /\ Become(RunAgain(Now, c))
    /\ UNCHANGED <<running, history, registered, due, executionHistory,
                   deadLetterQueue, meddled>>

-----------------------------------------------------------------------------
(* Runs.                                                                   *)

\* A worker takes the run up.
RunBegins(c) ==
    /\ Continue(c)
    /\ UNCHANGED <<jobVars, retryVars, chains, meddled>>

\* recordExecution(): the newest HistoryCap records are kept.  (Faulty: all.)
Recorded_Uncapped(h, ok) == Append(h, ok)
Recorded(h, ok) == LET all == Append(h, ok)
                   IN  IF Len(all) > HistoryCap THEN Tail(all) ELSE all

FailedAttempts(h) == Cardinality({i \in DOMAIN h : ~h[i]})

\* Faulty: a run that fails leaves the status alone; a last failure is retried.
FailedStatus_Kept(j)     == status[j]
Exhausted_OffByOne(j, h) == FailedAttempts(h) > JobDef[j].maxRetries
FailedStatus(j)          == "failed"
RetryChain(j)            == [job |-> j, armed |-> TRUE]
Exhausted(j, h)          == FailedAttempts(h) >= JobDef[j].maxRetries

\* The run's worker is released; next is where its chain and its job stand.
\* (Faulty: the worker is kept.)
AfterRun_Leaks(c, next, state) ==
    [pool |-> [pool EXCEPT !.calls[c] = Out],
     status |-> [status EXCEPT ![chains[c].job] = state],
     chains |-> [chains EXCEPT ![c] = next]]
AfterRun(c, next, state) ==
    [pool |-> End(pool, c, running),
     status |-> [status EXCEPT ![chains[c].job] = state],
     chains |-> [chains EXCEPT ![c] = next]]

Record(j, ok) ==
    executionHistory' = [executionHistory EXCEPT ![j] = Recorded(@, ok)]

RunSucceeds(c) ==
    LET j == chains[c].job
        s == AfterRun(c, NoChain, "pending")
    IN  /\ pool.calls[c].phase = "executing"
        /\ Record(j, TRUE)
        /\ due' = [due EXCEPT ![j] = @ /\ ~(JobDef[j].cron \/ JobDef[j].interval)]
        /\ Publish(s, "job_completed")
        /\ UNCHANGED <<running, history, registered, retryTimers, deadLetterQueue, meddled>>

RunFails(c) ==
    LET j == chains[c].job
        s == AfterRun(c, RetryChain(j), FailedStatus(j))
    IN  /\ pool.calls[c].phase = "executing"
        /\ ~Exhausted(j, Recorded(executionHistory[j], FALSE))
        /\ Record(j, FALSE)
        /\ retryTimers' = [k \in DOMAIN retryTimers \cup {j} |-> IF k = j THEN c ELSE retryTimers[k]]
        /\ Publish(s, "job_failed")
        /\ UNCHANGED <<running, history, registered, due, deadLetterQueue, meddled>>

RunFailsForGood(c) ==
    LET j == chains[c].job
        s == AfterRun(c, NoChain, "dead")
    IN  /\ pool.calls[c].phase = "executing"
        /\ Exhausted(j, Recorded(executionHistory[j], FALSE))
        /\ Record(j, FALSE)
        /\ deadLetterQueue' = deadLetterQueue \cup {j}
        /\ Publish(s, "job_dead")
        /\ UNCHANGED <<running, history, registered, due, retryTimers, meddled>>

\* Records older than the retention window are dropped.
SweepExecutionHistory(j) ==
    /\ j \in Swept
    /\ executionHistory[j] # << >>
    /\ executionHistory' = [executionHistory EXCEPT ![j] = Tail(@)]
    /\ UNCHANGED <<vars, jobVars, retryTimers, deadLetterQueue,
                   chains, meddled>>

RunStep(c) == RunBegins(c) \/ RunSucceeds(c) \/ RunFails(c) \/ RunFailsForGood(c)

OwnerRequest(j) ==
    \/ PauseJob(j) \/ ResumeJob(j) \/ CancelJob(j) \/ TriggerJobManually(j) \/ RetryFromDlq(j)

SchedulerNext ==
    \/ StartScheduler \/ StopScheduler \/ TickCron
    \/ \E j \in Job : RegisterJob(j) \/ ComesDue(j) \/ SweepExecutionHistory(j)
    \/ \E j \in Attended : OwnerRequest(j)
    \/ \E topic \in ExternalTopics : ExternalEvent(topic)
    \/ \E c \in Call : RetryTimerFires(c) \/ RunStep(c)

\* Timers fire, and a run ends at its timeout at the latest (WorkerPool).
\* How it ends is not promised.
SchedulerFairness == \A c \in Call : WF_schedulerVars(RetryTimerFires(c) \/ RunStep(c))

SchedulerSpec == SchedulerInit /\ [][SchedulerNext]_schedulerVars /\ SchedulerFairness

-----------------------------------------------------------------------------
(* Properties.                                                             *)

\* A chain is free, waits for its timer or is one call of the pool; the history
\* of a job keeps within its cap.
SchedulerTypeOK ==
    /\ running \in BOOLEAN
    /\ registered \in Seq(Job)
    /\ status \in [Job -> Status]
    /\ due \in [Job -> BOOLEAN]
    /\ DOMAIN retryTimers \subseteq Job
    /\ \A j \in DOMAIN retryTimers : retryTimers[j] \in Call
    /\ \A j \in Job : executionHistory[j] \in Seq(BOOLEAN) /\ Len(executionHistory[j]) <= HistoryCap
    /\ deadLetterQueue \subseteq Job
    /\ chains \in [Call -> [job : Job \cup {NoJob}, armed : BOOLEAN]]
    /\ \A c \in Call : (\E j \in Job : c \in InFlight(j)) <=> pool.calls[c].phase # "out"

\* What listJobs() shows is so: a running job has a run in flight, a failed one
\* has a retry ahead of it (stop() drops the timers and leaves the status), a
\* dead one is in the dead letter queue; whichever of its runs ended last.
StatusIsHonest ==
    \A j \in Job :
      /\ status[j] = "running" => InFlight(j) # {}
      /\ status[j] = "failed" /\ stops = 0 => Armed(j) # {}
      /\ status[j] = "dead" => j \in deadLetterQueue

\* The "zero duplicate executions" of scheduler.ts:193: a job that only its
\* schedule and events trigger has one chain at a time, and none while it is
\* pending; so two runs of it never overlap, retries, pauses and cancellations
\* included.
ScheduledRunsNeverOverlap ==
    \A j \in Job \ meddled :
      /\ Cardinality(ChainsOf(j)) <= 1
      /\ status[j] = "pending" => ChainsOf(j) = {}

\* cancelJob() and stop() find the timers they mean to clear: an entry of
\* retryTimers is a timer of that job that has not fired, and every timer of a
\* job that only its schedule and events trigger has its entry.
RetryTimersTracked ==
    /\ \A j \in DOMAIN retryTimers : retryTimers[j] \in Armed(j)
    /\ \A j \in Job \ meddled : \A c \in Armed(j) : j \in DOMAIN retryTimers /\ retryTimers[j] = c

\* A job that has failed maxRetries times is done with: no run, no timer and no
\* trigger is left, until its owner intervenes.
ExhaustedJobsRest ==
    \A j \in Job \ meddled :
      FailedAttempts(executionHistory[j]) >= 1 /\ FailedAttempts(executionHistory[j]) >= JobDef[j].maxRetries
        => status[j] \in {"dead", "paused", "cancelled"} /\ ChainsOf(j) = {}

\* In a scheduler that is not stopped every run ends, also one that waits for
\* a worker while others come and go.
RunsEnd ==
    \A c \in Call : pool.calls[c].phase # "out" ~> pool.calls[c].phase = "out" \/ stops > 0
=============================================================================
