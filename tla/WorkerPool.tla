----------------------------- MODULE WorkerPool -----------------------------
(***************************************************************************)
(* services/distributed-scheduler/worker-pool.ts: the pool of workers that *)
(* runs the scheduler's jobs, grows up to maxWorkers and makes the calls   *)
(* beyond that wait in a queue.                                            *)
(*                                                                         *)
(* The code is single-threaded: what runs between two awaits is one step.  *)
(* A call of execute() has two: acquireWorker(), and what follows the      *)
(* await once it holds a worker; its end (the executor's answer or the     *)
(* timeout, whichever comes first) is the third.  The executor is          *)
(* external: it may answer, fail or never come back.                       *)
(*                                                                         *)
(* The pool's fields are one record, and each method is an operator on it, *)
(* so that the scheduler can make several calls in one step.               *)
(***************************************************************************)
EXTENDS Integers, Sequences, FiniteSets

CONSTANTS
    Call,          \* callers of execute(), each with one call at a time
    NoCall,
    MinWorkers, MaxWorkers,
    MaxStarts,     \* bound: number of calls of start() that take effect
    MaxStops,      \* bound: number of calls of stop()
    MaxSpawned     \* bound: workers made so far, from which on no call begins

ASSUME CallAssumption   == NoCall \notin Call
ASSUME SizeAssumption   == MaxWorkers \in Nat \ {0} /\ MinWorkers \in 0..MaxWorkers
ASSUME LimitsAssumption == MaxStarts \in Nat /\ MaxStops \in Nat /\ MaxSpawned \in Nat

VARIABLES
    running,
    pool,          \* workers, waiters and, for every call, how far it got
    starts, stops, \* history: how often start() and stop() took effect
    restarts       \* history: how many starts came while calls held workers

history == <<starts, stops, restarts>>
vars    == <<running, pool, history>>

Worker == [status : {"idle", "busy", "draining", "stopped"}, serving : Call \cup {NoCall}]

\* "out" is no call at all; a call waits, holds a reserved worker, executes.
CallState == [phase : {"out", "waiting", "reserved", "executing"}, worker : Nat]

Out == [phase |-> "out", worker |-> 0]

EmptyPool == [workers |-> << >>, waiters |-> << >>, calls |-> [c \in Call |-> Out]]

Init ==
    /\ running = FALSE
    /\ pool = EmptyPool
    /\ starts = 0
    /\ stops = 0
    /\ restarts = 0

-----------------------------------------------------------------------------
(* The methods.                                                            *)

Idle(p)   == {i \in DOMAIN p.workers : p.workers[i].status = "idle"}
Active(p) == {i \in DOMAIN p.workers : p.workers[i].status # "stopped"}

First(S) == CHOOSE i \in S : \A j \in S : i <= j

NewWorker == [status |-> "idle", serving |-> NoCall]

\* Faulty: a worker handed out is not marked, is allowed one too many, is not
\* handed over by a pool that shuts down, leaves the waiter in the queue.
TakenStatus_Idle         == "idle"
MayGrow_OffByOne(p)      == Cardinality(Active(p)) <= MaxWorkers
HandsOver_Running(p, on) == on /\ p.waiters # << >>
Rest_Kept(s)             == s

TakenStatus      == "busy"
MayGrow(p)       == Cardinality(Active(p)) < MaxWorkers
HandsOver(p, on) == p.waiters # << >>
Rest(s)          == Tail(s)

Reserve(p, i, c) ==
    [p EXCEPT !.workers[i] = [status |-> TakenStatus, serving |-> NoCall],
              !.calls[c] = [phase |-> "reserved", worker |-> i]]

Spawn(p) == [p EXCEPT !.workers = Append(@, NewWorker)]

\* acquireWorker(): the first idle worker, a new one, or the queue.
Acquire(p, c) ==
    IF Idle(p) # {} THEN Reserve(p, First(Idle(p)), c)
    ELSE IF MayGrow(p) THEN Reserve(Spawn(p), Len(p.workers) + 1, c)
    ELSE [p EXCEPT !.waiters = Append(@, c), !.calls[c].phase = "waiting"]

\* execute() after the await.
Begin(p, c) ==
    [p EXCEPT !.workers[p.calls[c].worker].serving = c, !.calls[c].phase = "executing"]

\* releaseWorker(): to the oldest waiter, also while the pool shuts down.
Release(p, i, on) ==
    IF HandsOver(p, on)
    THEN [Reserve(p, i, Head(p.waiters)) EXCEPT !.waiters = Rest(@)]
    ELSE [p EXCEPT !.workers[i] = [status |-> IF on THEN "idle" ELSE "stopped", serving |-> NoCall]]

\* The end of execute(): finally { currentJobId = null; releaseWorker() }.
End(p, c, on) == Release([p EXCEPT !.calls[c] = Out], p.calls[c].worker, on)

StartWorkers(p) == [p EXCEPT !.workers = @ \o [i \in 1..MinWorkers |-> NewWorker]]

\* Every worker that is not idle becomes "draining", a stopped one included.
Retired(w)     == [w EXCEPT !.status = IF w.status = "idle" THEN "stopped" ELSE "draining"]
StopWorkers(p) == [p EXCEPT !.workers = [i \in DOMAIN @ |-> Retired(@[i])]]

-----------------------------------------------------------------------------
(* The steps.                                                              *)

Holds(p, c) == p.calls[c].phase \in {"reserved", "executing"}
InUse(p)    == \E c \in Call : Holds(p, c)

Start ==
    /\ ~running
    /\ starts < MaxStarts
    /\ running' = TRUE
    /\ pool' = StartWorkers(pool)
    /\ starts' = starts + 1
    /\ restarts' = restarts + (IF InUse(pool) THEN 1 ELSE 0)
    /\ UNCHANGED stops

Stop ==
    /\ stops < MaxStops
    /\ running' = FALSE
    /\ pool' = StopWorkers(pool)
    /\ stops' = stops + 1
    /\ UNCHANGED <<starts, restarts>>

Execute(c) ==
    /\ pool.calls[c].phase = "out"
    /\ Len(pool.workers) <= MaxSpawned
    /\ pool' = Acquire(pool, c)
    /\ UNCHANGED <<running, history>>

Continue(c) ==
    /\ pool.calls[c].phase = "reserved"
    /\ pool' = Begin(pool, c)
    /\ UNCHANGED <<running, history>>

\* The executor answers or fails, or its time is up.
Finish(c) ==
    /\ pool.calls[c].phase = "executing"
    /\ pool' = End(pool, c, running)
    /\ UNCHANGED <<running, history>>

Next == Start \/ Stop \/ \E c \in Call : Execute(c) \/ Continue(c) \/ Finish(c)

\* withTimeout() arms a timer for every execution and the event loop runs
\* every continuation: a call that holds a worker goes on and ends.
Fairness == \A c \in Call : WF_vars(Continue(c)) /\ WF_vars(Finish(c))

Spec == Init /\ [][Next]_vars /\ Fairness

-----------------------------------------------------------------------------
(* Properties.                                                             *)

Waiting == {c \in Call : pool.calls[c].phase = "waiting"}

\* The queue holds the calls that wait, each of them once.
TypeOK ==
    /\ running \in BOOLEAN
    /\ pool.workers \in Seq(Worker)
    /\ pool.calls \in [Call -> CallState]
    /\ pool.waiters \in Seq(Call)
    /\ {pool.waiters[i] : i \in DOMAIN pool.waiters} = Waiting
    /\ Len(pool.waiters) = Cardinality(Waiting)

\* acquireWorker(), "it can never be handed to a second concurrent job": every
\* call that holds a worker has one of its own, which is not free and, once
\* the call executes, serves it; whatever stops and restarts in between.
OneCallPerWorker ==
    /\ \A c \in Call : Holds(pool, c) =>
         /\ pool.calls[c].worker \in DOMAIN pool.workers
         /\ pool.workers[pool.calls[c].worker].status \in {"busy", "draining"}
         /\ pool.workers[pool.calls[c].worker].serving =
              (IF pool.calls[c].phase = "executing" THEN c ELSE NoCall)
    /\ \A c, d \in Call :
         Holds(pool, c) /\ Holds(pool, d) /\ pool.calls[c].worker = pool.calls[d].worker => c = d

\* Calls that execute together, and workers ready for more, stay within
\* maxWorkers; only a start() before the old calls have ended can add to that,
\* minWorkers each time.
ConcurrencyBound ==
    Cardinality({c \in Call : Holds(pool, c)}) + Cardinality(Idle(pool))
        <= MaxWorkers + MinWorkers * restarts

\* Workers that drain though no call holds them: stopped ones that a second
\* stop() has turned back.
Phantoms == {i \in DOMAIN pool.workers :
               /\ pool.workers[i].status = "draining"
               /\ \A c \in Call : ~(Holds(pool, c) /\ pool.calls[c].worker = i)}

\* worker-pool.ts:265-293: a call waits only while the pool has given out all it
\* may: every worker up to maxWorkers is held by a call, which will hand it on,
\* or lost to a phantom; through releases, stops and restarts in between.
WaitersHaveAServer ==
    Waiting # {} =>
        Cardinality({c \in Call : Holds(pool, c)}) + Cardinality(Phantoms) >= MaxWorkers

\* worker-pool.ts:265-269: the queue drains "instead of leaving queued jobs
\* hung forever", as long as no stop() leaves phantoms.
WaitersAreServed ==
    [](Phantoms = {}) => \A c \in Call : pool.calls[c].phase = "waiting" ~> Holds(pool, c)

\* The same without that condition.
NoCallHangs == \A c \in Call : pool.calls[c].phase = "waiting" ~> Holds(pool, c)
=============================================================================
