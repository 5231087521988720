--------------------------- MODULE SchedulerProofs ---------------------------
(***************************************************************************)
(* Proofs about WorkerPool and about Scheduler, which extends it, for any  *)
(* number of calls, workers and jobs.  First the pool: its methods keep    *)
(* PoolInv and the queue (theorems about Spec).  Then the scheduler: its   *)
(* invariant SchedulerInv puts what is true of each job, JobSound, next to *)
(* the correspondence between chains and calls of the pool, StateOK        *)
(* (theorems about SchedulerSpec).                                         *)
(***************************************************************************)
EXTENDS Scheduler, FiniteSetTheorems, WellFoundedInduction, TLAPS

\* The fields of the pool have their types.
PoolType(p) ==
    /\ p \in [workers : Seq(Worker), waiters : Seq(Call), calls : [Call -> CallState]]

\* OneCallPerWorker of any pool, in two parts: what a call holds, and that it
\* holds it alone.
HoldsItsWorker(p, c) ==
    /\ p.calls[c].worker \in DOMAIN p.workers
    /\ p.workers[p.calls[c].worker].status \in {"busy", "draining"}
    /\ p.workers[p.calls[c].worker].serving = (IF p.calls[c].phase = "executing" THEN c ELSE NoCall)

Exclusive(p) ==
    /\ \A c \in Call : Holds(p, c) => HoldsItsWorker(p, c)
    /\ \A c, d \in Call :
         Holds(p, c) /\ Holds(p, d) /\ p.calls[c].worker = p.calls[d].worker => c = d

PoolInv(p) == PoolType(p) /\ Exclusive(p)

\* No call holds worker i.
Free(p, i) == \A c \in Call : Holds(p, c) => p.calls[c].worker # i

\* A set of numbers has a least one.
LEMMA LeastFacts ==
    ASSUME NEW S \in SUBSET Nat, S # {}
    PROVE  \E i \in S : \A j \in S : i <= j
  <1> DEFINE R == OpToRel(<, Nat)
  <1>1. \E i \in S : \A j \in S : ~ (<<j, i>> \in R)
    <2>1. IsWellFoundedOn(R, Nat)
      BY NatLessThanWellFounded
    <2> HIDE DEF R
    <2> QED
      BY <2>1, WFMin
  <1>2. \A i, j \in Nat : j < i => <<j, i>> \in R
    BY DEF OpToRel
  <1> HIDE DEF R
  <1>3. \E i \in S : \A j \in S : ~ (j < i)
    BY <1>1, <1>2
  <1> QED
    BY <1>3

LEMMA FirstFacts ==
    ASSUME NEW S \in SUBSET Nat, S # {}
    PROVE  First(S) \in S
  <1>1. \E i \in S : \A j \in S : i <= j
    BY LeastFacts
  <1> QED
    BY <1>1 DEF First

\* An update of a pool, field by field.
LEMMA FieldFacts ==
    ASSUME NEW p, PoolType(p), NEW w, NEW ws, NEW cs
    PROVE  /\ [p EXCEPT !.workers = w]  = [workers |-> w, waiters |-> p.waiters, calls |-> p.calls]
           /\ [p EXCEPT !.waiters = ws] = [workers |-> p.workers, waiters |-> ws, calls |-> p.calls]
           /\ [p EXCEPT !.calls = cs]   = [workers |-> p.workers, waiters |-> p.waiters, calls |-> cs]
           /\ p = [workers |-> p.workers, waiters |-> p.waiters, calls |-> p.calls]
  BY DEF PoolType

-----------------------------------------------------------------------------
(* The methods keep the invariant.                                         *)

\* What Reserve() makes of each field.
LEMMA ReserveFields ==
    ASSUME NEW p, PoolType(p), NEW i \in DOMAIN p.workers, NEW c \in Call, NEW q, q = Reserve(p, i, c)
    PROVE  /\ q.workers = [p.workers EXCEPT ![i] = [status |-> "busy", serving |-> NoCall]]
           /\ q.waiters = p.waiters
           /\ q.calls = [p.calls EXCEPT ![c] = [phase |-> "reserved", worker |-> i]]
           /\ q = [workers |-> q.workers, waiters |-> q.waiters, calls |-> q.calls]
  <1> DEFINE w  == [p.workers EXCEPT ![i] = [status |-> "busy", serving |-> NoCall]]
             cs == [p.calls EXCEPT ![c] = [phase |-> "reserved", worker |-> i]]
  <1>0. p = [workers |-> p.workers, waiters |-> p.waiters, calls |-> p.calls]
    BY DEF PoolType
  <1>1. q = [[p EXCEPT !.workers = w] EXCEPT !.calls = cs]
    BY DEF Reserve, TakenStatus
  <1> HIDE DEF w, cs
  <1>2. q = [workers |-> w, waiters |-> p.waiters, calls |-> cs]
    BY <1>0, <1>1
  <1> QED
    BY <1>2 DEF w, cs

\* A worker that nobody holds can be given to any call.
LEMMA ReserveFacts ==
    ASSUME NEW p, PoolInv(p), NEW i \in DOMAIN p.workers, Free(p, i), NEW c \in Call
    PROVE  PoolInv(Reserve(p, i, c))
  <1> DEFINE q == Reserve(p, i, c)
  <1>0. /\ p.workers \in Seq(Worker) /\ p.waiters \in Seq(Call) /\ p.calls \in [Call -> CallState]
        /\ p = [workers |-> p.workers, waiters |-> p.waiters, calls |-> p.calls]
    BY DEF PoolInv, PoolType
  <1>1. /\ q.workers = [p.workers EXCEPT ![i] = [status |-> "busy", serving |-> NoCall]]
        /\ q.waiters = p.waiters
        /\ q.calls = [p.calls EXCEPT ![c] = [phase |-> "reserved", worker |-> i]]
        /\ q = [workers |-> q.workers, waiters |-> q.waiters, calls |-> q.calls]
    BY ReserveFields DEF PoolInv
  <1> HIDE DEF q
  <1>2. [status |-> "busy", serving |-> NoCall] \in Worker
    BY DEF Worker
  <1>3. i \in Nat /\ [phase |-> "reserved", worker |-> i] \in CallState
    BY <1>0 DEF CallState
  <1>4. q.workers \in Seq(Worker) /\ DOMAIN q.workers = DOMAIN p.workers
    BY <1>0, <1>1, <1>2
  <1>5. q.calls \in [Call -> CallState]
    BY <1>0, <1>1, <1>3
  <1>6. PoolType(q)
    BY <1>0, <1>1, <1>4, <1>5 DEF PoolType
  <1>7. /\ q.calls[c] = [phase |-> "reserved", worker |-> i]
        /\ \A d \in Call \ {c} : q.calls[d] = p.calls[d]
        /\ q.workers[i] = [status |-> "busy", serving |-> NoCall]
        /\ \A j \in DOMAIN p.workers \ {i} : q.workers[j] = p.workers[j]
    BY <1>0, <1>1
  <1>8. \A d \in Call \ {c} : Holds(q, d) => Holds(p, d) /\ HoldsItsWorker(p, d) /\ p.calls[d].worker # i
    BY <1>7 DEF PoolInv, Exclusive, Holds, Free
  <1>9. HoldsItsWorker(q, c)
    BY <1>4, <1>7 DEF HoldsItsWorker
  <1>10. \A d \in Call \ {c} : Holds(q, d) => HoldsItsWorker(q, d)
    BY <1>4, <1>7, <1>8 DEF HoldsItsWorker
  <1>11. ASSUME NEW d \in Call, NEW e \in Call, Holds(q, d), Holds(q, e),
                q.calls[d].worker = q.calls[e].worker
         PROVE  d = e
    BY <1>7, <1>8, <1>11 DEF PoolInv, Exclusive
  <1>12. Exclusive(q)
    BY <1>9, <1>10, <1>11 DEF Exclusive
  <1> QED
    BY <1>6, <1>12 DEF PoolInv, q

\* New workers come without a caller.
LEMMA AppendWorkersFacts ==
    ASSUME NEW p, PoolInv(p), NEW more \in Seq(Worker), NEW q,
           q = [workers |-> p.workers \o more, waiters |-> p.waiters, calls |-> p.calls]
    PROVE  /\ PoolInv(q)
           /\ \A i \in DOMAIN q.workers \ DOMAIN p.workers : Free(q, i)
  <1>0. p.workers \in Seq(Worker) /\ p.waiters \in Seq(Call) /\ p.calls \in [Call -> CallState]
    BY DEF PoolInv, PoolType
  <1>2. q.workers = p.workers \o more /\ q.calls = p.calls
    OBVIOUS
  <1>3. PoolType(q)
    BY <1>0 DEF PoolType
  <1>4. /\ DOMAIN p.workers \subseteq DOMAIN q.workers
        /\ \A j \in DOMAIN p.workers : q.workers[j] = p.workers[j]
    BY <1>0, <1>2
  <1>5. \A c \in Call : Holds(q, c) => Holds(p, c) /\ HoldsItsWorker(p, c)
    BY <1>2 DEF Holds, PoolInv, Exclusive
  <1>6. Exclusive(q)
    BY <1>2, <1>4, <1>5 DEF PoolInv, Exclusive, HoldsItsWorker
  <1>7. \A i \in DOMAIN q.workers \ DOMAIN p.workers : Free(q, i)
    BY <1>2, <1>5 DEF Free, HoldsItsWorker
  <1> QED
    BY <1>3, <1>6, <1>7 DEF PoolInv

\* A call that waits, or is out, holds nothing.
LEMMA LetGoFacts ==
    ASSUME NEW p, PoolInv(p), NEW c \in Call, NEW ws \in Seq(Call),
           NEW s \in CallState, s.phase \in {"out", "waiting"}, NEW q,
           q = [workers |-> p.workers, waiters |-> ws, calls |-> [p.calls EXCEPT ![c] = s]]
    PROVE  /\ PoolInv(q)
           /\ \A i : (\A d \in Call \ {c} : Holds(p, d) => p.calls[d].worker # i) => Free(q, i)
  <1>0. p.workers \in Seq(Worker) /\ p.calls \in [Call -> CallState]
    BY DEF PoolInv, PoolType
  <1>2. /\ q.workers = p.workers /\ q.waiters = ws /\ q.calls \in [Call -> CallState]
        /\ q.calls[c] = s /\ \A d \in Call \ {c} : q.calls[d] = p.calls[d]
    BY <1>0
  <1>3. PoolType(q)
    BY <1>0, <1>2 DEF PoolType
  <1>4. \A d \in Call : Holds(q, d) => d # c /\ Holds(p, d) /\ HoldsItsWorker(p, d)
    BY <1>2 DEF Holds, PoolInv, Exclusive
  <1>5. Exclusive(q)
    BY <1>2, <1>4 DEF PoolInv, Exclusive, HoldsItsWorker
  <1>6. \A i : (\A d \in Call \ {c} : Holds(p, d) => p.calls[d].worker # i) => Free(q, i)
    BY <1>2, <1>4 DEF Free
  <1> QED
    BY <1>3, <1>5, <1>6 DEF PoolInv

\* acquireWorker() hands out an idle worker, which no call holds, or a new one.
LEMMA AcquireFacts ==
    ASSUME NEW p, PoolInv(p), NEW c \in Call
    PROVE  PoolInv(Acquire(p, c))
  <1>0. p.workers \in Seq(Worker) /\ p.waiters \in Seq(Call) /\ p.calls \in [Call -> CallState]
    BY DEF PoolInv, PoolType
  <1>1. CASE Idle(p) # {}
    <2>1. Idle(p) \subseteq Nat
      BY <1>0 DEF Idle
    <2>2. First(Idle(p)) \in Idle(p)
      BY <1>1, <2>1, FirstFacts
    <2>3. First(Idle(p)) \in DOMAIN p.workers /\ Free(p, First(Idle(p)))
      BY <2>2 DEF Idle, Free, PoolInv, Exclusive, HoldsItsWorker
    <2> QED
      BY <1>1, <2>3, ReserveFacts DEF Acquire
  <1>2. CASE Idle(p) = {} /\ MayGrow(p)
    <2>1. <<NewWorker>> \in Seq(Worker) /\ Append(p.workers, NewWorker) = p.workers \o <<NewWorker>>
      BY <1>0 DEF NewWorker, Worker
    <2>2. Spawn(p) = [workers |-> p.workers \o <<NewWorker>>, waiters |-> p.waiters, calls |-> p.calls]
      BY <2>1, FieldFacts DEF Spawn, PoolInv
    <2> DEFINE more == <<NewWorker>>
               q    == Spawn(p)
    <2> HIDE DEF more, q
    <2>0. more \in Seq(Worker) /\ q = [workers |-> p.workers \o more, waiters |-> p.waiters, calls |-> p.calls]
      BY <2>1, <2>2 DEF more, q
    <2>3. /\ PoolInv(Spawn(p))
          /\ Spawn(p).workers = p.workers \o <<NewWorker>>
          /\ \A i \in DOMAIN Spawn(p).workers \ DOMAIN p.workers : Free(Spawn(p), i)
      <3>1. /\ PoolInv(q)
            /\ \A i \in DOMAIN q.workers \ DOMAIN p.workers : Free(q, i)
        BY <2>0, AppendWorkersFacts
      <3>2. q.workers = p.workers \o more
        BY <2>0
      <3> QED
        BY <3>1, <3>2 DEF q, more
    <2>4. Len(p.workers) + 1 \in DOMAIN Spawn(p).workers \ DOMAIN p.workers
      BY <1>0, <2>3
    <2>5. PoolInv(Reserve(Spawn(p), Len(p.workers) + 1, c))
      BY <2>3, <2>4, ReserveFacts
    <2> QED
      BY <1>2, <2>5 DEF Acquire
  <1>3. CASE Idle(p) = {} /\ ~MayGrow(p)
    <2> DEFINE s == [p.calls[c] EXCEPT !.phase = "waiting"]
    <2>1. s \in CallState /\ s.phase = "waiting" /\ Append(p.waiters, c) \in Seq(Call)
      BY <1>0 DEF CallState
    <2> DEFINE r == [p EXCEPT !.waiters = Append(p.waiters, c)]
    <2>2. r = [workers |-> p.workers, waiters |-> Append(p.waiters, c), calls |-> p.calls]
      BY FieldFacts DEF PoolInv
    <2> DEFINE cs == [p.calls EXCEPT ![c] = s]
               q  == Acquire(p, c)
    <2>3. q = [r EXCEPT !.calls = cs]
      BY <1>3, <2>2 DEF Acquire
    <2>4. PoolType(r) /\ r.workers = p.workers /\ r.waiters = Append(p.waiters, c)
      BY <1>0, <2>1, <2>2 DEF PoolType
    <2> HIDE DEF r, cs, q
    <2>5. q = [workers |-> p.workers, waiters |-> Append(p.waiters, c), calls |-> cs]
      BY <2>3, <2>4, FieldFacts
    <2> HIDE DEF s
    <2>6. PoolInv(q)
      BY <2>1, <2>5, LetGoFacts DEF cs
    <2> QED
      BY <2>6 DEF q
  <1> QED
    BY <1>1, <1>2, <1>3

\* A change of the workers that leaves alone the ones that calls hold, except
\* that they may start to drain.
LEMMA WorkersFacts ==
    ASSUME NEW p, PoolInv(p), NEW w \in Seq(Worker), NEW q,
           q = [workers |-> w, waiters |-> p.waiters, calls |-> p.calls],
           DOMAIN w = DOMAIN p.workers,
           \A c \in Call : Holds(p, c) =>
             /\ w[p.calls[c].worker].status \in {"busy", "draining"}
             /\ w[p.calls[c].worker].serving = p.workers[p.calls[c].worker].serving
    PROVE  PoolInv(q)
  <1>1. q.workers = w /\ q.calls = p.calls
    OBVIOUS
  <1>2. PoolType(q)
    BY DEF PoolInv, PoolType
  <1>3. \A c \in Call : Holds(q, c) => Holds(p, c) /\ HoldsItsWorker(p, c)
    BY <1>1 DEF Holds, PoolInv, Exclusive
  <1>4. Exclusive(q)
    BY <1>1, <1>3 DEF PoolInv, Exclusive, HoldsItsWorker
  <1> QED
    BY <1>2, <1>4 DEF PoolInv

\* What Begin() makes of each field: the call's worker serves it, nothing else
\* moves.
LEMMA BeginFields ==
    ASSUME NEW p, PoolInv(p), NEW c \in Call, p.calls[c].phase = "reserved",
           NEW i, i = p.calls[c].worker, NEW q, q = Begin(p, c)
    PROVE  /\ PoolType(q) /\ HoldsItsWorker(p, c) /\ i \in DOMAIN p.workers
           /\ DOMAIN q.workers = DOMAIN p.workers /\ q.waiters = p.waiters
           /\ q.workers[i].status = p.workers[i].status /\ q.workers[i].serving = c
           /\ \A j \in DOMAIN p.workers \ {i} : q.workers[j] = p.workers[j]
           /\ q.calls[c].phase = "executing" /\ q.calls[c].worker = i
           /\ \A d \in Call \ {c} : q.calls[d] = p.calls[d]
  <1> DEFINE v  == [p.workers[i] EXCEPT !.serving = c]
             s  == [p.calls[c] EXCEPT !.phase = "executing"]
             w  == [p.workers EXCEPT ![i] = v]
             cs == [p.calls EXCEPT ![c] = s]
             r  == [p EXCEPT !.workers = w]
  <1>0. /\ p.workers \in Seq(Worker) /\ p.waiters \in Seq(Call) /\ p.calls \in [Call -> CallState]
        /\ PoolType(p)
    BY DEF PoolInv, PoolType
  <1>1. r = [workers |-> w, waiters |-> p.waiters, calls |-> p.calls]
    <2> HIDE DEF w
    <2> QED
      BY <1>0, FieldFacts
  <1>2. q = [r EXCEPT !.calls = cs]
    BY <1>1 DEF Begin
  <1>3. HoldsItsWorker(p, c) /\ i \in DOMAIN p.workers
    BY DEF PoolInv, Exclusive, Holds, HoldsItsWorker
  <1>4. /\ v \in Worker /\ v.status = p.workers[i].status /\ v.serving = c
        /\ s \in CallState /\ s.phase = "executing" /\ s.worker = i
    <2>1. \A x \in Worker : LET y == [x EXCEPT !.serving = c]
                            IN  y \in Worker /\ y.status = x.status /\ y.serving = c
      BY DEF Worker
    <2>2. \A x \in CallState : LET y == [x EXCEPT !.phase = "executing"]
                               IN  y \in CallState /\ y.phase = "executing" /\ y.worker = x.worker
      BY DEF CallState
    <2>3. p.workers[i] \in Worker
      BY <1>0, <1>3
    <2>4. p.calls[c] \in CallState
      BY <1>0
    <2>5. v \in Worker /\ v.status = p.workers[i].status /\ v.serving = c
      BY <2>1, <2>3
    <2>6. s \in CallState /\ s.phase = "executing" /\ s.worker = i
      BY <2>2, <2>4
    <2> QED
      BY <2>5, <2>6
  <1> HIDE DEF v, s
  <1>5. /\ w \in Seq(Worker) /\ DOMAIN w = DOMAIN p.workers
        /\ w[i] = v /\ \A j \in DOMAIN p.workers \ {i} : w[j] = p.workers[j]
    BY <1>0, <1>3, <1>4
  <1>6. /\ cs \in [Call -> CallState]
        /\ cs[c] = s /\ \A d \in Call \ {c} : cs[d] = p.calls[d]
    BY <1>0, <1>4
  <1> HIDE DEF w, cs, r
  <1>7. PoolType(r)
    BY <1>0, <1>1, <1>5 DEF PoolType
  <1>8. q = [workers |-> w, waiters |-> p.waiters, calls |-> cs]
    BY <1>1, <1>2, <1>7, FieldFacts
  <1>9. PoolType(q) /\ q.workers = w /\ q.calls = cs /\ q.waiters = p.waiters
    BY <1>0, <1>5, <1>6, <1>8 DEF PoolType
  <1> QED
    BY <1>3, <1>4, <1>5, <1>6, <1>9

\* execute() after the await: the call's worker now serves it.
LEMMA BeginFacts ==
    ASSUME NEW p, PoolInv(p), NEW c \in Call, p.calls[c].phase = "reserved"
    PROVE  PoolInv(Begin(p, c))
  <1> DEFINE q == Begin(p, c)
             i == p.calls[c].worker
  <1>1. /\ PoolType(q) /\ HoldsItsWorker(p, c) /\ i \in DOMAIN p.workers
        /\ DOMAIN q.workers = DOMAIN p.workers
        /\ q.workers[i].status = p.workers[i].status /\ q.workers[i].serving = c
        /\ \A j \in DOMAIN p.workers \ {i} : q.workers[j] = p.workers[j]
        /\ q.calls[c].phase = "executing" /\ q.calls[c].worker = i
        /\ \A d \in Call \ {c} : q.calls[d] = p.calls[d]
    BY BeginFields
  <1> HIDE DEF q
  <1>2. \A d \in Call \ {c} : Holds(q, d) => Holds(p, d) /\ HoldsItsWorker(p, d) /\ p.calls[d].worker # i
    BY <1>1 DEF PoolInv, Exclusive, Holds
  <1>3. HoldsItsWorker(q, c)
    BY <1>1 DEF HoldsItsWorker
  <1>4. \A d \in Call \ {c} : Holds(q, d) => HoldsItsWorker(q, d)
    BY <1>1, <1>2 DEF HoldsItsWorker
  <1>5. ASSUME NEW d \in Call, NEW e \in Call, Holds(q, d), Holds(q, e),
               q.calls[d].worker = q.calls[e].worker
        PROVE  d = e
    BY <1>1, <1>2, <1>5 DEF PoolInv, Exclusive
  <1>6. Exclusive(q)
    BY <1>3, <1>4, <1>5 DEF Exclusive
  <1> QED
    BY <1>1, <1>6 DEF PoolInv, q

\* releaseWorker() is called for a worker that no call holds any more.
LEMMA ReleaseFacts ==
    ASSUME NEW p, PoolInv(p), NEW i \in DOMAIN p.workers, Free(p, i), NEW on \in BOOLEAN
    PROVE  PoolInv(Release(p, i, on))
  <1>0. /\ p.workers \in Seq(Worker) /\ p.waiters \in Seq(Call) /\ p.calls \in [Call -> CallState]
        /\ PoolType(p)
    BY DEF PoolInv, PoolType
  <1>1. CASE p.waiters # << >>
    <2> DEFINE r == Reserve(p, i, Head(p.waiters))
               q == [r EXCEPT !.waiters = Tail(@)]
    <2>1. Release(p, i, on) = q
      BY <1>1 DEF Release, HandsOver, Rest
    <2>2. Head(p.waiters) \in Call
      BY <1>0, <1>1
    <2>3. PoolInv(r)
      BY <2>2, ReserveFacts
    <2>4. r.waiters = p.waiters
      BY <1>0 DEF Reserve, PoolType
    <2> HIDE DEF r
    <2>5. Tail(r.waiters) \in Seq(Call)
      BY <1>0, <1>1, <2>4
    <2>6. q = [workers |-> r.workers, waiters |-> Tail(r.waiters), calls |-> r.calls]
      BY <2>3, FieldFacts DEF PoolInv
    <2> HIDE DEF q
    <2>7. PoolType(q)
      BY <2>3, <2>5, <2>6 DEF PoolInv, PoolType
    <2>8. q.workers = r.workers /\ q.calls = r.calls
      BY <2>6
    <2>9. Exclusive(q)
      BY <2>3, <2>8 DEF PoolInv, Exclusive, HoldsItsWorker, Holds
    <2> QED
      BY <2>1, <2>7, <2>9 DEF PoolInv
  <1>2. CASE p.waiters = << >>
    <2> DEFINE v == [status |-> IF on THEN "idle" ELSE "stopped", serving |-> NoCall]
               w == [p.workers EXCEPT ![i] = v]
    <2>1. v \in Worker
      BY DEF Worker
    <2>2. Release(p, i, on) = [p EXCEPT !.workers = w]
      BY <1>2 DEF Release, HandsOver
    <2> HIDE DEF v
    <2>3. /\ w \in Seq(Worker) /\ DOMAIN w = DOMAIN p.workers
          /\ \A j \in DOMAIN p.workers \ {i} : w[j] = p.workers[j]
      BY <1>0, <2>1
    <2> HIDE DEF w
    <2>4. Release(p, i, on) = [workers |-> w, waiters |-> p.waiters, calls |-> p.calls]
      BY <1>0, <2>2, FieldFacts
    <2>5. \A c \in Call : Holds(p, c) =>
            HoldsItsWorker(p, c) /\ w[p.calls[c].worker] = p.workers[p.calls[c].worker]
      BY <2>3 DEF PoolInv, Exclusive, HoldsItsWorker, Free
    <2> QED
      BY <2>3, <2>4, <2>5, WorkersFacts DEF HoldsItsWorker
  <1> QED
    BY <1>1, <1>2

\* The end of execute(): the call lets its worker go, and nobody else holds it.
LEMMA EndFacts ==
    ASSUME NEW p, PoolInv(p), NEW c \in Call, p.calls[c].phase = "executing", NEW on \in BOOLEAN
    PROVE  PoolInv(End(p, c, on))
  <1> DEFINE i == p.calls[c].worker
             q == [p EXCEPT !.calls[c] = Out]
  <1>0. /\ p.workers \in Seq(Worker) /\ p.waiters \in Seq(Call) /\ p.calls \in [Call -> CallState]
        /\ PoolType(p)
    BY DEF PoolInv, PoolType
  <1>1. Out \in CallState /\ Out.phase = "out"
    BY DEF Out, CallState
  <1>2. q = [workers |-> p.workers, waiters |-> p.waiters, calls |-> [p.calls EXCEPT ![c] = Out]]
    BY <1>0, FieldFacts
  <1>3. i \in DOMAIN p.workers /\ \A d \in Call \ {c} : Holds(p, d) => p.calls[d].worker # i
    BY DEF PoolInv, Exclusive, Holds, HoldsItsWorker
  <1> HIDE DEF i, q
  <1>4. PoolInv(q) /\ Free(q, i) /\ q.workers = p.workers
    BY <1>0, <1>1, <1>2, <1>3, LetGoFacts
  <1>5. PoolInv(Release(q, i, on))
    BY <1>3, <1>4, ReleaseFacts
  <1> QED
    BY <1>5 DEF End, i, q

\* start() adds idle workers.
LEMMA StartWorkersFacts ==
    ASSUME NEW p, PoolInv(p)
    PROVE  PoolInv(StartWorkers(p))
  <1> DEFINE more == [i \in 1..MinWorkers |-> NewWorker]
  <1>1. NewWorker \in Worker /\ MinWorkers \in Nat
    BY SizeAssumption DEF NewWorker, Worker
  <1>2. more \in Seq(Worker)
    BY <1>1
  <1>3. StartWorkers(p) = [workers |-> p.workers \o more, waiters |-> p.waiters, calls |-> p.calls]
    BY FieldFacts DEF StartWorkers, PoolInv
  <1> HIDE DEF more
  <1> QED
    BY <1>2, <1>3, AppendWorkersFacts

\* stop() makes the workers in use drain.
LEMMA StopWorkersFacts ==
    ASSUME NEW p, PoolInv(p)
    PROVE  PoolInv(StopWorkers(p))
  <1> DEFINE w == [i \in DOMAIN p.workers |-> Retired(p.workers[i])]
  <1>0. p.workers \in Seq(Worker) /\ PoolType(p)
    BY DEF PoolInv, PoolType
  <1>1. \A x \in Worker : /\ Retired(x) \in Worker /\ Retired(x).serving = x.serving
                          /\ x.status \in {"busy", "draining"} => Retired(x).status = "draining"
    BY DEF Worker, Retired
  <1>2. StopWorkers(p) = [p EXCEPT !.workers = w]
    BY DEF StopWorkers
  <1>3. w \in Seq(Worker) /\ DOMAIN w = DOMAIN p.workers
    BY <1>0, <1>1
  <1>4. \A j \in DOMAIN p.workers : w[j] = Retired(p.workers[j]) /\ p.workers[j] \in Worker
    BY <1>0
  <1> HIDE DEF w
  <1>5. StopWorkers(p) = [workers |-> w, waiters |-> p.waiters, calls |-> p.calls]
    BY <1>0, <1>2, FieldFacts
  <1>6. \A c \in Call : Holds(p, c) =>
          /\ w[p.calls[c].worker].status \in {"busy", "draining"}
          /\ w[p.calls[c].worker].serving = p.workers[p.calls[c].worker].serving
    BY <1>1, <1>4 DEF PoolInv, Exclusive, HoldsItsWorker
  <1> QED
    BY <1>3, <1>5, <1>6, WorkersFacts

-----------------------------------------------------------------------------
(* The invariant.                                                          *)

PoolTypeInv == PoolInv(pool) /\ running \in BOOLEAN

LEMMA InitPool == Init => PoolTypeInv
  <1> SUFFICES ASSUME Init PROVE PoolTypeInv
    OBVIOUS
  <1>1. Out \in CallState /\ Out.phase = "out"
    BY DEF Out, CallState
  <1>2. pool = [workers |-> << >>, waiters |-> << >>, calls |-> [c \in Call |-> Out]] /\ running = FALSE
    BY DEF Init, EmptyPool
  <1>3. PoolType(pool)
    BY <1>1, <1>2 DEF PoolType
  <1>4. \A c \in Call : ~Holds(pool, c)
    BY <1>1, <1>2 DEF Holds
  <1> QED
    BY <1>2, <1>3, <1>4 DEF PoolTypeInv, PoolInv, Exclusive

LEMMA NextPool == PoolTypeInv /\ [Next]_vars => PoolTypeInv'
  <1> SUFFICES ASSUME PoolTypeInv, [Next]_vars PROVE PoolTypeInv'
    OBVIOUS
  <1> USE DEF PoolTypeInv
  <1>1. CASE Start
    BY <1>1, StartWorkersFacts DEF Start
  <1>2. CASE Stop
    BY <1>2, StopWorkersFacts DEF Stop
  <1>3. ASSUME NEW c \in Call, Execute(c)
        PROVE  PoolTypeInv'
    BY <1>3, AcquireFacts DEF Execute
  <1>4. ASSUME NEW c \in Call, Continue(c)
        PROVE  PoolTypeInv'
    BY <1>4, BeginFacts DEF Continue
  <1>5. ASSUME NEW c \in Call, Finish(c)
        PROVE  PoolTypeInv'
    BY <1>5, EndFacts DEF Finish
  <1>6. CASE UNCHANGED vars
    BY <1>6 DEF vars
  <1> QED
    BY <1>1, <1>2, <1>3, <1>4, <1>5, <1>6 DEF Next

\* acquireWorker(), worker-pool.ts:236-260: for any number of callers and
\* workers, and through any stops and restarts, no worker is ever in the hands
\* of two calls, and a call's worker is not free and serves that call.
THEOREM OneCallPerWorkerHolds == Spec => []OneCallPerWorker
  <1>1. PoolTypeInv => OneCallPerWorker
    BY DEF PoolTypeInv, PoolInv, Exclusive, HoldsItsWorker, OneCallPerWorker
  <1> QED
    BY <1>1, InitPool, NextPool, PTL DEF Spec

-----------------------------------------------------------------------------
(* The queue, and the workers that are idle or held.                       *)

WaitingIn(p) == {c \in Call : p.calls[c].phase = "waiting"}

\* The queue holds the calls that wait, and each of them once.
Queued(p) ==
    /\ {p.waiters[i] : i \in DOMAIN p.waiters} = WaitingIn(p)
    /\ \A i, j \in DOMAIN p.waiters : p.waiters[i] = p.waiters[j] => i = j

Held(p) == {i \in DOMAIN p.workers : ~Free(p, i)}
Live(p) == Idle(p) \cup Held(p)

\* A step from p to q leaves the queue be; it makes no worker idle, nor live.
SameQueue(p, q) == q.waiters = p.waiters /\ WaitingIn(q) = WaitingIn(p)
NoneAdded(p, q) == Idle(q) \subseteq Idle(p) /\ Live(q) \subseteq Live(p)

\* A reserved worker is not idle, and its call does not wait.
LEMMA ReserveMoves ==
    ASSUME NEW p, PoolType(p), NEW i \in DOMAIN p.workers, NEW c \in Call, NEW q, q = Reserve(p, i, c)
    PROVE  /\ q.waiters = p.waiters /\ WaitingIn(q) = WaitingIn(p) \ {c}
           /\ DOMAIN q.workers = DOMAIN p.workers
           /\ Idle(q) = Idle(p) \ {i} /\ Held(q) \subseteq Held(p) \cup {i}
  <1>1. /\ q.workers = [p.workers EXCEPT ![i] = [status |-> "busy", serving |-> NoCall]]
        /\ q.waiters = p.waiters
        /\ q.calls = [p.calls EXCEPT ![c] = [phase |-> "reserved", worker |-> i]]
    BY ReserveFields
  <1>2. p.workers \in Seq(Worker) /\ p.calls \in [Call -> CallState]
    BY DEF PoolType
  <1>3. /\ DOMAIN q.workers = DOMAIN p.workers /\ q.workers[i].status = "busy"
        /\ \A j \in DOMAIN p.workers \ {i} : q.workers[j] = p.workers[j]
        /\ q.calls[c].phase = "reserved" /\ q.calls[c].worker = i
        /\ \A d \in Call \ {c} : q.calls[d] = p.calls[d]
    BY <1>1, <1>2
  <1>4. WaitingIn(q) = WaitingIn(p) \ {c}
    BY <1>3 DEF WaitingIn
  <1>5. Idle(q) = Idle(p) \ {i}
    BY <1>3 DEF Idle
  <1>6. Held(q) \subseteq Held(p) \cup {i}
    BY <1>3 DEF Held, Free, Holds
  <1> QED
    BY <1>1, <1>3, <1>4, <1>5, <1>6

\* New workers are idle, and nobody waits for them.
LEMMA AppendWorkersMoves ==
    ASSUME NEW p, PoolInv(p), NEW more \in Seq(Worker), NEW q,
           q = [workers |-> p.workers \o more, waiters |-> p.waiters, calls |-> p.calls]
    PROVE  /\ SameQueue(p, q) /\ DOMAIN q.workers = 1..Len(p.workers) + Len(more)
           /\ DOMAIN p.workers = 1..Len(p.workers) /\ Len(p.workers) \in Nat
           /\ Idle(p) \subseteq Idle(q)
           /\ Live(q) \subseteq Live(p) \cup (DOMAIN q.workers \ DOMAIN p.workers)
  <1>1. p.workers \in Seq(Worker)
    BY DEF PoolInv, PoolType
  <1>2. q.workers = p.workers \o more /\ q.waiters = p.waiters /\ q.calls = p.calls
    OBVIOUS
  <1>3. /\ DOMAIN q.workers = 1..Len(p.workers) + Len(more) /\ DOMAIN p.workers = 1..Len(p.workers)
        /\ Len(p.workers) \in Nat /\ Len(more) \in Nat
        /\ \A j \in DOMAIN p.workers : q.workers[j] = p.workers[j]
    BY <1>1, <1>2
  <1>4. SameQueue(p, q)
    BY <1>2 DEF SameQueue, WaitingIn
  <1>5. Idle(p) \subseteq Idle(q)
    BY <1>3 DEF Idle
  <1>6. Live(q) \subseteq Live(p) \cup (DOMAIN q.workers \ DOMAIN p.workers)
    BY <1>2, <1>3 DEF Live, Idle, Held, Free, Holds
  <1> QED
    BY <1>3, <1>4, <1>5, <1>6

\* acquireWorker(): only a pool that may grow makes a worker live, and the one
\* it adds; the call waits only if it gets none.
LEMMA AcquireMoves ==
    ASSUME NEW p, PoolInv(p), Queued(p), NEW c \in Call, p.calls[c].phase = "out",
           NEW q, q = Acquire(p, c)
    PROVE  /\ Queued(q) /\ Idle(q) \subseteq Idle(p)
           /\ \/ Live(q) \subseteq Live(p)
              \/ MayGrow(p) /\ Live(q) \subseteq Live(p) \cup {Len(p.workers) + 1}
  <1>0. /\ p.workers \in Seq(Worker) /\ p.waiters \in Seq(Call) /\ p.calls \in [Call -> CallState]
        /\ PoolType(p) /\ c \notin WaitingIn(p)
    BY DEF PoolInv, PoolType, WaitingIn
  <1>1. CASE Idle(p) # {}
    <2> DEFINE i == First(Idle(p))
    <2>1. Idle(p) \subseteq Nat
      BY <1>0 DEF Idle
    <2>2. i \in Idle(p) /\ i \in DOMAIN p.workers
      BY <1>1, <2>1, FirstFacts DEF Idle
    <2>3. q = Reserve(p, i, c)
      BY <1>1 DEF Acquire
    <2> HIDE DEF i
    <2>4. /\ q.waiters = p.waiters /\ WaitingIn(q) = WaitingIn(p) \ {c}
          /\ Idle(q) = Idle(p) \ {i} /\ Held(q) \subseteq Held(p) \cup {i}
      BY <1>0, <2>2, <2>3, ReserveMoves
    <2> QED
      BY <1>0, <2>2, <2>4 DEF Queued, Live
  <1>2. CASE Idle(p) = {} /\ MayGrow(p)
    <2> DEFINE more == <<NewWorker>>
               s    == Spawn(p)
               i    == Len(p.workers) + 1
    <2>1. more \in Seq(Worker) /\ Len(more) = 1 /\ Append(p.workers, NewWorker) = p.workers \o more
      <3>1. NewWorker \in Worker
        BY DEF NewWorker, Worker
      <3>2. \A x \in Worker : /\ <<x>> \in Seq(Worker) /\ Len(<<x>>) = 1
                              /\ Append(p.workers, x) = p.workers \o <<x>>
        BY <1>0
      <3> QED
        BY <3>1, <3>2
    <2>2. s = [workers |-> p.workers \o more, waiters |-> p.waiters, calls |-> p.calls]
      BY <2>1, <1>0, FieldFacts DEF Spawn
    <2> HIDE DEF more, s
    <2>3. /\ PoolInv(s) /\ SameQueue(p, s) /\ DOMAIN s.workers = 1..i
          /\ DOMAIN p.workers = 1..Len(p.workers) /\ Len(p.workers) \in Nat
          /\ Live(s) \subseteq Live(p) \cup (DOMAIN s.workers \ DOMAIN p.workers)
      <3>0. more \in Seq(Worker)
        BY <2>1
      <3>1. PoolInv(s)
        BY <3>0, <2>2, AppendWorkersFacts
      <3>2. \A r : r = [workers |-> p.workers \o more, waiters |-> p.waiters, calls |-> p.calls]
                    => /\ SameQueue(p, r) /\ DOMAIN r.workers = 1..Len(p.workers) + Len(more)
                       /\ DOMAIN p.workers = 1..Len(p.workers) /\ Len(p.workers) \in Nat
                       /\ Live(r) \subseteq Live(p) \cup (DOMAIN r.workers \ DOMAIN p.workers)
        BY <3>0, AppendWorkersMoves, Zenon
      <3>3. /\ SameQueue(p, s) /\ DOMAIN s.workers = 1..Len(p.workers) + Len(more)
            /\ DOMAIN p.workers = 1..Len(p.workers) /\ Len(p.workers) \in Nat
            /\ Live(s) \subseteq Live(p) \cup (DOMAIN s.workers \ DOMAIN p.workers)
        BY <2>2, <3>2, Zenon
      <3>4. DOMAIN s.workers = 1..i
        BY <2>1, <3>3
      <3> QED
        BY <3>1, <3>3, <3>4
    <2>4. i \in DOMAIN s.workers /\ DOMAIN s.workers \ DOMAIN p.workers = {i}
      BY <2>3
    <2>5. Live(s) \subseteq Live(p) \cup {i}
      BY <2>3, <2>4
    <2>6. q = Reserve(s, i, c)
      BY <1>2 DEF Acquire, s
    <2> HIDE DEF i
    <2>7. /\ q.waiters = s.waiters /\ WaitingIn(q) = WaitingIn(s) \ {c}
          /\ Idle(q) = Idle(s) \ {i} /\ Held(q) \subseteq Held(s) \cup {i}
      <3>1. PoolType(s)
        BY <2>3 DEF PoolInv
      <3> QED
        BY <2>4, <2>6, <3>1, ReserveMoves
    <2>8. Idle(s) \ {i} \subseteq Idle(p)
      <3>1. \A j \in DOMAIN p.workers : s.workers[j] = p.workers[j]
        BY <1>0, <2>1, <2>2
      <3> QED
        BY <2>4, <3>1 DEF Idle
    <2> QED
      BY <1>0, <1>2, <2>3, <2>5, <2>7, <2>8 DEF Queued, Live, SameQueue, i
  <1>3. CASE Idle(p) = {} /\ ~MayGrow(p)
    <2> DEFINE t == [p.calls[c] EXCEPT !.phase = "waiting"]
               r == [p EXCEPT !.waiters = Append(p.waiters, c)]
               cs == [p.calls EXCEPT ![c] = t]
    <2>1. t.phase = "waiting"
      BY <1>0 DEF CallState
    <2>2. r = [workers |-> p.workers, waiters |-> Append(p.waiters, c), calls |-> p.calls]
      BY FieldFacts, <1>0
    <2>3. q = [r EXCEPT !.calls = cs]
      BY <1>3, <2>2 DEF Acquire
    <2>4. PoolType(r)
      <3>1. Append(p.waiters, c) \in Seq(Call)
        BY <1>0
      <3> QED
        BY <1>0, <2>2, <3>1 DEF PoolType
    <2> HIDE DEF r, cs, t
    <2>5. q = [workers |-> p.workers, waiters |-> Append(p.waiters, c), calls |-> cs]
      BY <2>2, <2>3, <2>4, FieldFacts
    <2>6. /\ q.workers = p.workers /\ q.waiters = Append(p.waiters, c)
          /\ q.calls[c].phase = "waiting" /\ \A d \in Call \ {c} : q.calls[d] = p.calls[d]
      BY <1>0, <2>1, <2>5 DEF cs
    <2>7. WaitingIn(q) = WaitingIn(p) \cup {c}
      BY <2>6 DEF WaitingIn
    <2>8. Idle(q) = Idle(p) /\ Held(q) \subseteq Held(p)
      BY <2>6 DEF Idle, Held, Free, Holds
    <2>9. /\ Len(p.waiters) \in Nat /\ DOMAIN p.waiters = 1..Len(p.waiters)
          /\ DOMAIN q.waiters = 1..Len(p.waiters) + 1 /\ q.waiters[Len(p.waiters) + 1] = c
          /\ \A j \in DOMAIN p.waiters : q.waiters[j] = p.waiters[j]
      BY <1>0, <2>6
    <2>10. Queued(q)
      <3>1. \A j \in DOMAIN q.waiters : j \in DOMAIN p.waiters \/ j = Len(p.waiters) + 1
        BY <2>9
      <3>2. \A j \in DOMAIN p.waiters : q.waiters[j] \in WaitingIn(p)
        BY <2>9 DEF Queued
      <3>3. {q.waiters[j] : j \in DOMAIN q.waiters} = WaitingIn(q)
        BY <2>7, <2>9, <3>1 DEF Queued
      <3>4. \A j, k \in DOMAIN q.waiters : q.waiters[j] = q.waiters[k] => j = k
        BY <1>0, <2>9, <3>1, <3>2 DEF Queued
      <3> QED
        BY <3>3, <3>4 DEF Queued
    <2> QED
      BY <2>8, <2>10 DEF Live
  <1> QED
    BY <1>1, <1>2, <1>3

\* execute() after the await.
LEMMA BeginMoves ==
    ASSUME NEW p, PoolInv(p), Queued(p), NEW c \in Call, p.calls[c].phase = "reserved",
           NEW q, q = Begin(p, c)
    PROVE  Queued(q) /\ NoneAdded(p, q)
  <1> DEFINE i == p.calls[c].worker
  <1>1. /\ i \in DOMAIN p.workers /\ DOMAIN q.workers = DOMAIN p.workers /\ q.waiters = p.waiters
        /\ q.workers[i].status = p.workers[i].status
        /\ \A j \in DOMAIN p.workers \ {i} : q.workers[j] = p.workers[j]
        /\ q.calls[c].phase = "executing" /\ q.calls[c].worker = i
        /\ \A d \in Call \ {c} : q.calls[d] = p.calls[d]
    BY BeginFields
  <1>2. WaitingIn(q) = WaitingIn(p)
    BY <1>1 DEF WaitingIn
  <1>3. Idle(q) = Idle(p)
    BY <1>1 DEF Idle
  <1>4. Held(q) \subseteq Held(p)
    BY <1>1 DEF Held, Free, Holds
  <1> QED
    BY <1>1, <1>2, <1>3, <1>4 DEF Queued, NoneAdded, Live

\* releaseWorker(): the worker goes to the oldest waiter, which leaves the
\* queue; with nobody waiting it is idle only in a pool that runs.
LEMMA ReleaseMoves ==
    ASSUME NEW p, PoolInv(p), Queued(p), NEW i \in DOMAIN p.workers, NEW on \in BOOLEAN,
           NEW q, q = Release(p, i, on)
    PROVE  /\ Queued(q) /\ Live(q) \subseteq Live(p) \cup {i}
           /\ ~on => Idle(q) \subseteq Idle(p)
  <1>0. /\ p.workers \in Seq(Worker) /\ p.waiters \in Seq(Call) /\ p.calls \in [Call -> CallState]
        /\ PoolType(p)
    BY DEF PoolInv, PoolType
  <1>1. CASE p.waiters # << >>
    <2> DEFINE c == Head(p.waiters)
               r == Reserve(p, i, c)
    <2>1. /\ c \in Call /\ c = p.waiters[1] /\ Len(p.waiters) \in Nat \ {0}
          /\ Tail(p.waiters) \in Seq(Call) /\ Len(Tail(p.waiters)) = Len(p.waiters) - 1
          /\ \A j \in 1..Len(p.waiters) - 1 : Tail(p.waiters)[j] = p.waiters[j + 1]
      BY <1>0, <1>1
    <2>2. q = [r EXCEPT !.waiters = Tail(r.waiters)]
      BY <1>1 DEF Release, HandsOver, Rest
    <2> HIDE DEF c, r
    <2>3. /\ r.waiters = p.waiters /\ WaitingIn(r) = WaitingIn(p) \ {c}
          /\ DOMAIN r.workers = DOMAIN p.workers
          /\ Idle(r) = Idle(p) \ {i} /\ Held(r) \subseteq Held(p) \cup {i}
      BY <1>0, <2>1, ReserveMoves DEF r
    <2>4. r = [workers |-> r.workers, waiters |-> r.waiters, calls |-> r.calls]
      <3>1. r = Reserve(p, i, c)
        BY DEF r
      <3>2. /\ r.workers = [p.workers EXCEPT ![i] = [status |-> "busy", serving |-> NoCall]]
            /\ r.waiters = p.waiters
            /\ r.calls = [p.calls EXCEPT ![c] = [phase |-> "reserved", worker |-> i]]
            /\ r = [workers |-> r.workers, waiters |-> r.waiters, calls |-> r.calls]
        BY <1>0, <2>1, <3>1, ReserveFields
      <3> QED
        BY <3>2
    <2>5. q = [workers |-> r.workers, waiters |-> Tail(p.waiters), calls |-> r.calls]
      BY <2>2, <2>3, <2>4
    <2>6. q.workers = r.workers /\ q.calls = r.calls /\ q.waiters = Tail(p.waiters)
      BY <2>5
    <2>7. Idle(q) = Idle(r) /\ Held(q) = Held(r) /\ WaitingIn(q) = WaitingIn(r)
      BY <2>6 DEF Idle, Held, Free, Holds, WaitingIn
    <2>8. Queued(q)
      <3> DEFINE n == Len(p.waiters)
      <3>1. /\ DOMAIN p.waiters = 1..n /\ DOMAIN q.waiters = 1..n - 1
            /\ \A j \in 1..n - 1 : q.waiters[j] = p.waiters[j + 1]
        BY <1>0, <2>1, <2>6
      <3>2. n \in Nat \ {0}
        BY <2>1
      <3> HIDE DEF n
      <3>3. \A j \in 1..n - 1 : j + 1 \in 1..n /\ j + 1 # 1
        BY <3>2
      <3>4. \A k \in 1..n : k # 1 => k - 1 \in 1..n - 1 /\ (k - 1) + 1 = k
        BY <3>2
      <3>5. 1 \in 1..n
        BY <3>2
      <3>6. {q.waiters[j] : j \in DOMAIN q.waiters} \subseteq WaitingIn(p) \ {c}
        BY <2>1, <3>1, <3>3, <3>5 DEF Queued
      <3>7. WaitingIn(p) \ {c} \subseteq {q.waiters[j] : j \in DOMAIN q.waiters}
        <4> SUFFICES ASSUME NEW d \in WaitingIn(p), d # c
                     PROVE  d \in {q.waiters[j] : j \in DOMAIN q.waiters}
          OBVIOUS
        <4>1. PICK k \in 1..n : d = p.waiters[k]
          BY <3>1 DEF Queued
        <4>2. k # 1
          BY <2>1, <4>1
        <4>3. k - 1 \in 1..n - 1 /\ (k - 1) + 1 = k
          BY <3>4, <4>2
        <4>4. q.waiters[k - 1] = p.waiters[k]
          BY <3>1, <4>3
        <4> QED
          BY <3>1, <4>1, <4>3, <4>4
      <3>8. \A j, k \in DOMAIN q.waiters : q.waiters[j] = q.waiters[k] => j = k
        <4>1. \A j, k \in 1..n - 1 : p.waiters[j + 1] = p.waiters[k + 1] => j + 1 = k + 1
          BY <3>1, <3>3 DEF Queued
        <4>2. \A j, k \in 1..n - 1 : j + 1 = k + 1 => j = k
          BY <3>2
        <4> QED
          BY <3>1, <4>1, <4>2
      <3> QED
        BY <2>3, <2>7, <3>6, <3>7, <3>8 DEF Queued
    <2> QED
      BY <2>3, <2>7, <2>8 DEF Live
  <1>2. CASE p.waiters = << >>
    <2> DEFINE v == [status |-> IF on THEN "idle" ELSE "stopped", serving |-> NoCall]
               w == [p.workers EXCEPT ![i] = v]
    <2>1. ~on => v.status = "stopped"
      OBVIOUS
    <2>2. q = [p EXCEPT !.workers = w]
      BY <1>2 DEF Release, HandsOver
    <2> HIDE DEF v
    <2>3. /\ DOMAIN w = DOMAIN p.workers /\ w[i] = v
          /\ \A j \in DOMAIN p.workers \ {i} : w[j] = p.workers[j]
      BY <1>0
    <2> HIDE DEF w
    <2>4. q = [workers |-> w, waiters |-> p.waiters, calls |-> p.calls]
      BY <1>0, <2>2, FieldFacts
    <2>5. q.workers = w /\ q.waiters = p.waiters /\ q.calls = p.calls
      BY <2>4
    <2>6. WaitingIn(q) = WaitingIn(p) /\ Held(q) = Held(p)
      BY <2>3, <2>5 DEF WaitingIn, Held, Free, Holds
    <2>7. Idle(q) \subseteq Idle(p) \cup {i}
      BY <2>3, <2>5 DEF Idle
    <2>8. ~on => Idle(q) \subseteq Idle(p)
      BY <2>1, <2>3, <2>5 DEF Idle
    <2> QED
      BY <2>5, <2>6, <2>7, <2>8 DEF Queued, Live
  <1> QED
    BY <1>1, <1>2

\* The end of execute(): the worker was live, and stays so or stops.
LEMMA EndMoves ==
    ASSUME NEW p, PoolInv(p), Queued(p), NEW c \in Call, p.calls[c].phase = "executing",
           NEW on \in BOOLEAN, NEW q, q = End(p, c, on)
    PROVE  /\ Queued(q) /\ Live(q) \subseteq Live(p)
           /\ ~on => Idle(q) \subseteq Idle(p)
  <1> DEFINE i  == p.calls[c].worker
             cs == [p.calls EXCEPT ![c] = Out]
             r  == [p EXCEPT !.calls = cs]
  <1>0. p.calls \in [Call -> CallState] /\ p.waiters \in Seq(Call) /\ PoolType(p)
    BY DEF PoolInv, PoolType
  <1>1. Out \in CallState /\ Out.phase = "out"
    BY DEF Out, CallState
  <1>2. q = Release(r, i, on)
    BY DEF End
  <1>3. i \in Held(p)
    BY DEF PoolInv, Exclusive, Holds, HoldsItsWorker, Held, Free
  <1> HIDE DEF i
  <1>4. /\ cs[c] = Out /\ \A d \in Call \ {c} : cs[d] = p.calls[d]
    BY <1>0
  <1>5. r = [workers |-> p.workers, waiters |-> p.waiters, calls |-> [p.calls EXCEPT ![c] = Out]]
    BY <1>0, FieldFacts
  <1> HIDE DEF r
  <1>6. PoolInv(r)
    BY <1>0, <1>1, <1>5, LetGoFacts
  <1>7. r.workers = p.workers /\ r.waiters = p.waiters /\ r.calls = cs
    BY <1>5
  <1> HIDE DEF cs
  <1>8. WaitingIn(r) = WaitingIn(p)
    BY <1>1, <1>4, <1>7 DEF WaitingIn
  <1>9. Idle(r) = Idle(p) /\ Held(r) \subseteq Held(p)
    BY <1>1, <1>4, <1>7 DEF Idle, Held, Free, Holds
  <1>10. Queued(r)
    BY <1>7, <1>8 DEF Queued
  <1>11. i \in DOMAIN r.workers
    BY <1>3, <1>7 DEF Held
  <1>12. /\ Queued(q) /\ Live(q) \subseteq Live(r) \cup {i}
         /\ ~on => Idle(q) \subseteq Idle(r)
    BY <1>2, <1>6, <1>10, <1>11, ReleaseMoves
  <1> QED
    BY <1>3, <1>9, <1>12 DEF Live

\* start(): minWorkers more are live.
LEMMA StartMoves ==
    ASSUME NEW p, PoolInv(p), Queued(p), NEW q, q = StartWorkers(p)
    PROVE  /\ Queued(q) /\ Len(p.workers) \in Nat
           /\ Live(q) \subseteq Live(p) \cup (Len(p.workers) + 1 .. Len(p.workers) + MinWorkers)
  <1> DEFINE more == [i \in 1..MinWorkers |-> NewWorker]
  <1>1. NewWorker \in Worker /\ MinWorkers \in Nat
    BY SizeAssumption DEF NewWorker, Worker
  <1>2. more \in Seq(Worker) /\ Len(more) = MinWorkers
    BY <1>1
  <1>3. q = [workers |-> p.workers \o more, waiters |-> p.waiters, calls |-> p.calls]
    BY FieldFacts DEF StartWorkers, PoolInv
  <1> HIDE DEF more
  <1>4. /\ SameQueue(p, q) /\ DOMAIN q.workers = 1..Len(p.workers) + Len(more)
        /\ DOMAIN p.workers = 1..Len(p.workers) /\ Len(p.workers) \in Nat
        /\ Live(q) \subseteq Live(p) \cup (DOMAIN q.workers \ DOMAIN p.workers)
    BY <1>2, <1>3, AppendWorkersMoves
  <1>5. DOMAIN q.workers \ DOMAIN p.workers \subseteq Len(p.workers) + 1 .. Len(p.workers) + MinWorkers
    BY <1>1, <1>2, <1>4
  <1> QED
    BY <1>4, <1>5 DEF Queued, SameQueue

\* stop(): no worker is idle, and none becomes live.
LEMMA StopMoves ==
    ASSUME NEW p, PoolInv(p), Queued(p), NEW q, q = StopWorkers(p)
    PROVE  Queued(q) /\ Idle(q) = {} /\ Live(q) \subseteq Live(p)
  <1> DEFINE w == [i \in DOMAIN p.workers |-> Retired(p.workers[i])]
  <1>0. PoolType(p) /\ p.workers \in Seq(Worker)
    BY DEF PoolInv, PoolType
  <1>1. \A x \in Worker : Retired(x).status # "idle"
    BY DEF Worker, Retired
  <1>2. q = [p EXCEPT !.workers = w]
    BY DEF StopWorkers
  <1>3. DOMAIN w = DOMAIN p.workers /\ \A j \in DOMAIN w : w[j] = Retired(p.workers[j])
    OBVIOUS
  <1> HIDE DEF w
  <1>4. q = [workers |-> w, waiters |-> p.waiters, calls |-> p.calls]
    BY <1>0, <1>2, FieldFacts
  <1>5. q.workers = w /\ q.waiters = p.waiters /\ q.calls = p.calls
    BY <1>4
  <1>6. Idle(q) = {}
    BY <1>0, <1>1, <1>3, <1>5 DEF Idle
  <1>7. Held(q) = Held(p) /\ WaitingIn(q) = WaitingIn(p)
    BY <1>3, <1>5 DEF Held, Free, Holds, WaitingIn
  <1> QED
    BY <1>5, <1>6, <1>7 DEF Queued, Live

-----------------------------------------------------------------------------
(* The invariant that bounds the live workers.                             *)

BoundInv ==
    /\ PoolTypeInv
    /\ Queued(pool)
    /\ restarts \in Nat
    /\ ~running => Idle(pool) = {}
    /\ Cardinality(Live(pool)) <= MaxWorkers + MinWorkers * restarts

LEMMA LiveFinite ==
    ASSUME NEW p, PoolInv(p)
    PROVE  /\ IsFiniteSet(Live(p)) /\ IsFiniteSet(Idle(p)) /\ IsFiniteSet(Held(p))
           /\ Cardinality(Live(p)) \in Nat
           /\ Live(p) \subseteq Active(p) /\ IsFiniteSet(Active(p)) /\ Cardinality(Active(p)) \in Nat
           /\ Idle(p) \cap Held(p) = {}
  <1>1. DOMAIN p.workers = 1..Len(p.workers) /\ Len(p.workers) \in Nat
    BY DEF PoolInv, PoolType
  <1>2. IsFiniteSet(DOMAIN p.workers)
    BY <1>1, FS_Interval
  <1>3. \A i \in Held(p) : i \in DOMAIN p.workers /\ p.workers[i].status \in {"busy", "draining"}
    BY DEF PoolInv, Exclusive, HoldsItsWorker, Held, Free
  <1>4. /\ Idle(p) \subseteq DOMAIN p.workers /\ Held(p) \subseteq DOMAIN p.workers
        /\ Active(p) \subseteq DOMAIN p.workers /\ Live(p) \subseteq Active(p)
        /\ Idle(p) \cap Held(p) = {}
    BY <1>3 DEF Idle, Held, Active, Live
  <1>5. IsFiniteSet(Live(p)) /\ IsFiniteSet(Idle(p)) /\ IsFiniteSet(Held(p)) /\ IsFiniteSet(Active(p))
    BY <1>2, <1>4, FS_Subset
  <1> QED
    BY <1>4, <1>5, FS_CardinalityType

\* A set within a bound still is after a step that adds nothing to it.
LEMMA NoneAddedBound ==
    ASSUME NEW p, NEW q, PoolInv(p), PoolInv(q), Live(q) \subseteq Live(p)
    PROVE  Cardinality(Live(q)) <= Cardinality(Live(p))
  BY LiveFinite, FS_Subset

LEMMA InitBound == Init => BoundInv
  <1> SUFFICES ASSUME Init PROVE BoundInv
    OBVIOUS
  <1>1. PoolTypeInv
    BY InitPool
  <1>2. pool.workers = << >> /\ pool.waiters = << >> /\ \A c \in Call : pool.calls[c].phase = "out"
    BY DEF Init, EmptyPool, Out
  <1>3. Queued(pool)
    BY <1>2 DEF Queued, WaitingIn
  <1>4. Idle(pool) = {} /\ Held(pool) = {}
    BY <1>2 DEF Idle, Held
  <1>5. Cardinality(Live(pool)) = 0
    BY <1>4, FS_EmptySet DEF Live
  <1> QED
    BY <1>1, <1>3, <1>4, <1>5, SizeAssumption DEF BoundInv, Init

LEMMA NextBound == BoundInv /\ [Next]_vars => BoundInv'
  <1> SUFFICES ASSUME BoundInv, [Next]_vars PROVE BoundInv'
    OBVIOUS
  <1>1. PoolTypeInv' /\ PoolInv(pool) /\ PoolInv(pool') /\ running \in BOOLEAN
    BY NextPool DEF BoundInv, PoolTypeInv
  <1>2. /\ MinWorkers \in Nat /\ MaxWorkers \in Nat /\ MinWorkers <= MaxWorkers
        /\ restarts \in Nat /\ MinWorkers * restarts \in Nat
    BY SizeAssumption DEF BoundInv
  <1>3. /\ Cardinality(Live(pool)) \in Nat /\ Cardinality(Live(pool')) \in Nat
        /\ Cardinality(Live(pool)) <= MaxWorkers + MinWorkers * restarts
        /\ Queued(pool)
    BY <1>1, LiveFinite DEF BoundInv
  <1>4. CASE Start
    <2> DEFINE N == Len(pool.workers) + 1 .. Len(pool.workers) + MinWorkers
    <2>1. Queued(pool') /\ Len(pool.workers) \in Nat /\ Live(pool') \subseteq Live(pool) \cup N
      BY <1>1, <1>3, <1>4, StartMoves DEF Start
    <2>2. IsFiniteSet(N) /\ Cardinality(N) = MinWorkers
      BY <1>2, <2>1, FS_Interval
    <2> HIDE DEF N
    <2>3. CASE InUse(pool)
      <3>1. /\ IsFiniteSet(Live(pool) \cup N)
            /\ Cardinality(Live(pool) \cup N) <= Cardinality(Live(pool)) + MinWorkers
        <4>1. /\ IsFiniteSet(Live(pool) \cup N)
              /\ Cardinality(Live(pool) \cup N) =
                   Cardinality(Live(pool)) + Cardinality(N) - Cardinality(Live(pool) \cap N)
          BY <1>1, <2>2, LiveFinite, FS_Union
        <4>2. Cardinality(Live(pool) \cap N) \in Nat
          BY <1>1, LiveFinite, FS_Intersection, FS_CardinalityType
        <4> QED
          BY <1>2, <1>3, <2>2, <4>1, <4>2
      <3>2. /\ Cardinality(Live(pool')) <= Cardinality(Live(pool) \cup N)
            /\ Cardinality(Live(pool) \cup N) \in Nat
        BY <2>1, <3>1, FS_Subset, FS_CardinalityType
      <3>3. restarts' = restarts + 1
        BY <1>4, <2>3 DEF Start
      <3>4. MinWorkers * restarts' = MinWorkers * restarts + MinWorkers /\ restarts' \in Nat
        BY <1>2, <3>3
      <3>5. Cardinality(Live(pool')) <= MaxWorkers + MinWorkers * restarts'
        <4> DEFINE bound  == MinWorkers * restarts
                   bound2 == MinWorkers * restarts'
                   size   == Cardinality(Live(pool) \cup N)
        <4>1. bound2 = bound + MinWorkers /\ bound \in Nat
          BY <1>2, <3>4
        <4>2. /\ Cardinality(Live(pool)) <= MaxWorkers + bound
              /\ size <= Cardinality(Live(pool)) + MinWorkers /\ size \in Nat
              /\ Cardinality(Live(pool')) <= size
          BY <1>3, <3>1, <3>2
        <4> HIDE DEF bound, bound2, size
        <4>3. Cardinality(Live(pool')) <= MaxWorkers + bound2
          BY <1>2, <1>3, <4>1, <4>2
        <4> QED
          BY <4>3 DEF bound2
      <3> QED
        BY <1>1, <1>4, <2>1, <3>4, <3>5 DEF BoundInv, Start
    <2>4. CASE ~InUse(pool)
      <3>1. Live(pool) = {}
        BY <1>4, <2>4 DEF BoundInv, Start, Live, Held, Free, InUse
      <3>2. Cardinality(Live(pool')) <= MinWorkers
        BY <2>1, <2>2, <3>1, FS_Subset
      <3>3. restarts' = restarts
        BY <1>2, <1>4, <2>4 DEF Start
      <3>4. Cardinality(Live(pool')) <= MaxWorkers + MinWorkers * restarts'
        BY <1>2, <1>3, <3>2, <3>3
      <3> QED
        BY <1>1, <1>2, <1>4, <2>1, <3>3, <3>4 DEF BoundInv, Start
    <2> QED
      BY <2>3, <2>4
  <1>5. CASE Stop
    <2>1. Queued(pool') /\ Idle(pool') = {} /\ Live(pool') \subseteq Live(pool)
      BY <1>1, <1>3, <1>5, StopMoves DEF Stop
    <2>2. Cardinality(Live(pool')) <= Cardinality(Live(pool)) /\ restarts' = restarts
      BY <1>1, <1>5, <2>1, NoneAddedBound DEF Stop
    <2> QED
      BY <1>1, <1>2, <1>3, <2>1, <2>2 DEF BoundInv
  <1>6. ASSUME NEW c \in Call, Execute(c)
        PROVE  BoundInv'
    <2>1. /\ Queued(pool') /\ Idle(pool') \subseteq Idle(pool)
          /\ \/ Live(pool') \subseteq Live(pool)
             \/ MayGrow(pool) /\ Live(pool') \subseteq Live(pool) \cup {Len(pool.workers) + 1}
      BY <1>1, <1>3, <1>6, AcquireMoves DEF Execute
    <2>2. running' = running /\ restarts' = restarts
      BY <1>6 DEF Execute, history
    <2>3. ~running' => Idle(pool') = {}
      BY <2>1, <2>2 DEF BoundInv
    <2>4. CASE Live(pool') \subseteq Live(pool)
      <3>1. Cardinality(Live(pool')) <= Cardinality(Live(pool))
        BY <1>1, <2>4, NoneAddedBound
      <3> QED
        BY <1>1, <1>2, <1>3, <2>1, <2>2, <2>3, <3>1 DEF BoundInv
    <2>5. CASE MayGrow(pool) /\ Live(pool') \subseteq Live(pool) \cup {Len(pool.workers) + 1}
      <3>1. Cardinality(Live(pool)) < MaxWorkers
        <4>1. Cardinality(Live(pool)) <= Cardinality(Active(pool)) /\ Cardinality(Active(pool)) \in Nat
          BY <1>1, LiveFinite, FS_Subset
        <4> QED
          BY <1>2, <1>3, <2>5, <4>1 DEF MayGrow
      <3>2. /\ IsFiniteSet(Live(pool) \cup {Len(pool.workers) + 1})
            /\ Cardinality(Live(pool) \cup {Len(pool.workers) + 1}) <= Cardinality(Live(pool)) + 1
            /\ Cardinality(Live(pool) \cup {Len(pool.workers) + 1}) \in Nat
        <4> DEFINE i == Len(pool.workers) + 1
        <4> HIDE DEF i
        <4>1. IsFiniteSet(Live(pool))
          BY <1>1, LiveFinite
        <4>2. /\ IsFiniteSet(Live(pool) \cup {i})
              /\ Cardinality(Live(pool) \cup {i}) =
                   IF i \in Live(pool) THEN Cardinality(Live(pool)) ELSE Cardinality(Live(pool)) + 1
          BY <4>1, FS_AddElement
        <4> QED
          BY <1>3, <4>2 DEF i
      <3>3. Cardinality(Live(pool')) <= Cardinality(Live(pool) \cup {Len(pool.workers) + 1})
        BY <2>5, <3>2, FS_Subset
      <3>4. Cardinality(Live(pool')) <= MaxWorkers + MinWorkers * restarts'
        BY <1>2, <1>3, <2>2, <3>1, <3>2, <3>3
      <3> QED
        BY <1>1, <1>2, <2>1, <2>2, <2>3, <3>4 DEF BoundInv
    <2> QED
      BY <2>1, <2>4, <2>5
  <1>7. ASSUME NEW c \in Call, Continue(c)
        PROVE  BoundInv'
    <2>1. Queued(pool') /\ NoneAdded(pool, pool')
      BY <1>1, <1>3, <1>7, BeginMoves DEF Continue
    <2>2. running' = running /\ restarts' = restarts
      BY <1>7 DEF Continue, history
    <2>3. Cardinality(Live(pool')) <= Cardinality(Live(pool)) /\ (~running' => Idle(pool') = {})
      BY <1>1, <2>1, <2>2, NoneAddedBound DEF NoneAdded, BoundInv
    <2> QED
      BY <1>1, <1>2, <1>3, <2>1, <2>2, <2>3 DEF BoundInv
  <1>8. ASSUME NEW c \in Call, Finish(c)
        PROVE  BoundInv'
    <2>1. /\ Queued(pool') /\ Live(pool') \subseteq Live(pool)
          /\ ~running => Idle(pool') \subseteq Idle(pool)
      BY <1>1, <1>3, <1>8, EndMoves DEF Finish
    <2>2. running' = running /\ restarts' = restarts
      BY <1>8 DEF Finish, history
    <2>3. Cardinality(Live(pool')) <= Cardinality(Live(pool)) /\ (~running' => Idle(pool') = {})
      BY <1>1, <2>1, <2>2, NoneAddedBound DEF BoundInv
    <2> QED
      BY <1>1, <1>2, <1>3, <2>1, <2>2, <2>3 DEF BoundInv
  <1>9. CASE UNCHANGED vars
    BY <1>1, <1>9 DEF BoundInv, vars, history
  <1> QED
    BY <1>4, <1>5, <1>6, <1>7, <1>8, <1>9 DEF Next

LEMMA BoundInvHolds == Spec => []BoundInv
  BY InitBound, NextBound, PTL DEF Spec

\* worker-pool.ts:230-260 and releaseWorker(), 277-293: the queue holds exactly
\* the calls that wait, each of them once, through every hand-over.
THEOREM TypeOKHolds == Spec => []TypeOK
  <1>1. BoundInv => TypeOK
    <2> SUFFICES ASSUME BoundInv PROVE TypeOK
      OBVIOUS
    <2> DEFINE n == Len(pool.waiters)
    <2>1. /\ running \in BOOLEAN /\ pool.workers \in Seq(Worker) /\ pool.waiters \in Seq(Call)
          /\ pool.calls \in [Call -> CallState]
      BY DEF BoundInv, PoolTypeInv, PoolInv, PoolType
    <2>2. DOMAIN pool.waiters = 1..n /\ n \in Nat /\ WaitingIn(pool) = Waiting
      BY <2>1 DEF WaitingIn, Waiting
    <2>3. /\ {pool.waiters[i] : i \in 1..n} = Waiting
          /\ \A i, j \in 1..n : pool.waiters[i] = pool.waiters[j] => i = j
      BY <2>2 DEF BoundInv, Queued
    <2>4. pool.waiters \in [1..n -> Waiting]
      BY <2>1, <2>2, <2>3
    <2> HIDE DEF n
    <2>5. pool.waiters \in Surjection(1..n, Waiting) /\ pool.waiters \in Injection(1..n, Waiting)
      BY <2>3, <2>4 DEF Surjection, Injection, IsInjective
    <2>6. IsFiniteSet(1..n) /\ Cardinality(1..n) = n
      BY <2>2, FS_Interval
    <2>7. Cardinality(Waiting) = n
      BY <2>5, <2>6, FS_Surjection
    <2> QED
      BY <2>1, <2>2, <2>3, <2>7 DEF TypeOK, n
  <1> QED
    BY <1>1, BoundInvHolds, PTL

\* As many workers are held as calls hold one: each call has its own.
LEMMA HeldCalls ==
    ASSUME PoolInv(pool), NEW H, H = {c \in Call : Holds(pool, c)}
    PROVE  IsFiniteSet(H) /\ Cardinality(H) = Cardinality(Held(pool))
  <1> DEFINE f == [c \in H |-> pool.calls[c].worker]
  <1>1. /\ \A c \in H : f[c] = pool.calls[c].worker /\ f[c] \in Held(pool)
        /\ \A c, d \in H : f[c] = f[d] => c = d
        /\ \A i \in Held(pool) : \E c \in H : f[c] = i
    BY DEF PoolInv, Exclusive, HoldsItsWorker, Held, Free
  <1>2. f \in [H -> Held(pool)]
    BY <1>1
  <1> HIDE DEF f
  <1>3. f \in Injection(H, Held(pool)) /\ f \in Surjection(H, Held(pool))
    BY <1>1, <1>2 DEF Injection, IsInjective, Surjection
  <1> QED
    BY <1>3, LiveFinite, FS_Injection

\* acquireWorker(), worker-pool.ts:241-246, and start(): for any number of
\* callers, the calls that run together and the workers ready for more stay
\* within maxWorkers, but for minWorkers at each start() that comes before the
\* old calls have ended.
THEOREM ConcurrencyBoundHolds == Spec => []ConcurrencyBound
  <1>1. BoundInv => ConcurrencyBound
    <2> SUFFICES ASSUME BoundInv PROVE ConcurrencyBound
      OBVIOUS
    <2> DEFINE H == {c \in Call : Holds(pool, c)}
    <2>1. PoolInv(pool)
      BY DEF BoundInv, PoolTypeInv
    <2>5. /\ IsFiniteSet(Idle(pool)) /\ IsFiniteSet(Held(pool)) /\ Idle(pool) \cap Held(pool) = {}
      BY <2>1, LiveFinite
    <2>6. IsFiniteSet(H) /\ Cardinality(H) = Cardinality(Held(pool))
      BY <2>1, HeldCalls
    <2> HIDE DEF H
    <2>7. Cardinality(Live(pool)) = Cardinality(Idle(pool)) + Cardinality(Held(pool))
      <3>1. Cardinality(Live(pool)) =
              Cardinality(Idle(pool)) + Cardinality(Held(pool)) - Cardinality(Idle(pool) \cap Held(pool))
        BY <2>5, FS_Union DEF Live
      <3>2. Cardinality(Idle(pool) \cap Held(pool)) = 0
        BY <2>5, FS_EmptySet
      <3>3. Cardinality(Idle(pool)) \in Nat /\ Cardinality(Held(pool)) \in Nat
        BY <2>5, FS_CardinalityType
      <3> QED
        BY <3>1, <3>2, <3>3
    <2>8. /\ Cardinality(Idle(pool)) \in Nat /\ Cardinality(Held(pool)) \in Nat /\ Cardinality(H) \in Nat
          /\ MaxWorkers + MinWorkers * restarts \in Nat
      BY <2>5, <2>6, FS_CardinalityType, SizeAssumption DEF BoundInv
    <2>9. Cardinality(H) + Cardinality(Idle(pool)) <= MaxWorkers + MinWorkers * restarts
      BY <2>6, <2>7, <2>8 DEF BoundInv
    <2> QED
      BY <2>9 DEF ConcurrencyBound, H
  <1> QED
    BY <1>1, BoundInvHolds, PTL

-----------------------------------------------------------------------------
(* Who is there for the calls that wait.                                   *)

\* The workers that are not there for new calls, but count against maxWorkers.
Taken(p) == {i \in DOMAIN p.workers : p.workers[i].status \in {"busy", "draining"}}

\* A busy worker, one in W excepted, is in the hands of a call.
BusyAreHeld(p, W) == \A i \in DOMAIN p.workers \ W : p.workers[i].status = "busy" => ~Free(p, i)

\* While calls wait, maxWorkers workers are taken.
Full(p) == WaitingIn(p) # {} => Cardinality(Taken(p)) >= MaxWorkers

Staffed(p) == BusyAreHeld(p, {}) /\ Full(p)

StaffInv == BoundInv /\ Staffed(pool)

LEMMA AppendFacts ==
    ASSUME NEW S, NEW s \in Seq(S), NEW x \in S
    PROVE  <<x>> \in Seq({x}) /\ Append(s, x) = s \o <<x>>
  OBVIOUS

LEMMA TakenFinite ==
    ASSUME NEW p, PoolType(p)
    PROVE  IsFiniteSet(Taken(p)) /\ Cardinality(Taken(p)) \in Nat
  <1>1. IsFiniteSet(DOMAIN p.workers)
    <2>1. DOMAIN p.workers = 1..Len(p.workers) /\ Len(p.workers) \in Nat
      BY DEF PoolType
    <2> QED
      BY <2>1, FS_Interval
  <1>2. Taken(p) \subseteq DOMAIN p.workers
    BY DEF Taken
  <1> QED
    BY <1>1, <1>2, FS_Subset, FS_CardinalityType

\* A step that frees no worker leaves enough of them taken.
LEMMA FullKept ==
    ASSUME NEW p, NEW q, PoolType(p), PoolType(q), Full(p),
           WaitingIn(q) \subseteq WaitingIn(p), Taken(p) \subseteq Taken(q)
    PROVE  Full(q)
  <1>1. Cardinality(Taken(p)) <= Cardinality(Taken(q))
    BY TakenFinite, FS_Subset
  <1> QED
    BY <1>1, TakenFinite, SizeAssumption DEF Full

\* The call that is given worker i holds it.
LEMMA ReserveStaffs ==
    ASSUME NEW p, PoolType(p), NEW i \in DOMAIN p.workers, NEW c \in Call, ~Holds(p, c),
           BusyAreHeld(p, {i}), NEW q, q = Reserve(p, i, c)
    PROVE  /\ BusyAreHeld(q, {})
           /\ Taken(p) \subseteq Taken(q) /\ WaitingIn(q) \subseteq WaitingIn(p)
           /\ q = [workers |-> q.workers, waiters |-> q.waiters, calls |-> q.calls]
  <1>1. /\ q.workers = [p.workers EXCEPT ![i] = [status |-> "busy", serving |-> NoCall]]
        /\ q.calls = [p.calls EXCEPT ![c] = [phase |-> "reserved", worker |-> i]]
        /\ q = [workers |-> q.workers, waiters |-> q.waiters, calls |-> q.calls]
    BY ReserveFields
  <1>2. p.workers \in Seq(Worker) /\ p.calls \in [Call -> CallState]
    BY DEF PoolType
  <1>3. /\ DOMAIN q.workers = DOMAIN p.workers
        /\ \A j \in DOMAIN p.workers \ {i} : q.workers[j] = p.workers[j]
        /\ q.calls[c].phase = "reserved" /\ q.calls[c].worker = i
        /\ \A d \in Call \ {c} : q.calls[d] = p.calls[d]
        /\ q.workers[i].status = "busy"
    BY <1>1, <1>2
  <1>4. ~Free(q, i)
    BY <1>3 DEF Holds, Free
  <1>5. ASSUME NEW j \in DOMAIN q.workers \ {i}, q.workers[j].status = "busy"
        PROVE  ~Free(q, j)
    <2>1. ~Free(p, j)
      BY <1>3, <1>5 DEF BusyAreHeld
    <2>2. PICK d \in Call : Holds(p, d) /\ p.calls[d].worker = j
      BY <2>1 DEF Free
    <2>3. Holds(q, d) /\ q.calls[d].worker = j
      BY <1>3, <2>2 DEF Holds
    <2> QED
      BY <2>3 DEF Free
  <1>6. Taken(p) \subseteq Taken(q)
    BY <1>3 DEF Taken
  <1>7. WaitingIn(q) \subseteq WaitingIn(p)
    BY <1>3 DEF WaitingIn
  <1> QED
    BY <1>1, <1>4, <1>5, <1>6, <1>7 DEF BusyAreHeld

\* New workers are idle; the calls and the workers taken are as they were.
LEMMA AppendWorkersStaffs ==
    ASSUME NEW p, PoolType(p), Staffed(p), NEW more \in Seq({NewWorker}), NEW q, PoolType(q),
           q = [workers |-> p.workers \o more, waiters |-> p.waiters, calls |-> p.calls]
    PROVE  Staffed(q)
  <1>1. p.workers \in Seq(Worker) /\ q.workers = p.workers \o more /\ q.calls = p.calls
    BY DEF PoolType
  <1>2. /\ DOMAIN p.workers \subseteq DOMAIN q.workers
        /\ \A j \in DOMAIN p.workers : q.workers[j] = p.workers[j]
        /\ \A j \in DOMAIN q.workers \ DOMAIN p.workers : q.workers[j] = NewWorker
    <2>1. /\ Len(p.workers) \in Nat /\ Len(more) \in Nat
          /\ DOMAIN p.workers = 1..Len(p.workers) /\ DOMAIN more = 1..Len(more)
          /\ DOMAIN q.workers = 1..Len(p.workers) + Len(more)
          /\ \A j \in DOMAIN q.workers :
               q.workers[j] = IF j <= Len(p.workers) THEN p.workers[j] ELSE more[j - Len(p.workers)]
      BY <1>1
    <2>2. \A k \in 1..Len(more) : more[k] = NewWorker
      BY <2>1
    <2> QED
      BY <2>1, <2>2
  <1>3. \A c \in Call : Holds(q, c) <=> Holds(p, c)
    BY <1>1 DEF Holds
  <1>4. WaitingIn(q) = WaitingIn(p) /\ \A j : Free(q, j) <=> Free(p, j)
    BY <1>1, <1>3 DEF WaitingIn, Free
  <1>5. Taken(p) \subseteq Taken(q)
    BY <1>2 DEF Taken
  <1>6. BusyAreHeld(q, {})
    <2> SUFFICES ASSUME NEW j \in DOMAIN q.workers, q.workers[j].status = "busy"
                 PROVE  ~Free(q, j)
      BY DEF BusyAreHeld
    <2>1. NewWorker.status # "busy"
      BY DEF NewWorker
    <2>2. j \in DOMAIN p.workers /\ p.workers[j].status = "busy"
      BY <1>2, <2>1
    <2> QED
      BY <1>4, <2>2 DEF BusyAreHeld, Staffed
  <1> QED
    BY <1>4, <1>5, <1>6, FullKept DEF Staffed

\* acquireWorker(): a call has to wait only if every worker is at work.
LEMMA AcquireStaffs ==
    ASSUME NEW p, PoolInv(p), Staffed(p), NEW c \in Call, p.calls[c].phase = "out",
           NEW q, PoolType(q), q = Acquire(p, c)
    PROVE  Staffed(q)
  <1>0. /\ p.workers \in Seq(Worker) /\ p.waiters \in Seq(Call) /\ p.calls \in [Call -> CallState]
        /\ PoolType(p) /\ ~Holds(p, c)
    BY DEF PoolInv, PoolType, Holds
  <1>1. CASE Idle(p) # {}
    <2> DEFINE i == First(Idle(p))
    <2>1. Idle(p) \subseteq Nat
      BY <1>0 DEF Idle
    <2>2. i \in DOMAIN p.workers
      BY <1>1, <2>1, FirstFacts DEF Idle
    <2>3. q = Reserve(p, i, c)
      BY <1>1 DEF Acquire
    <2> HIDE DEF i
    <2>4. BusyAreHeld(p, {i})
      BY DEF BusyAreHeld, Staffed
    <2> QED
      BY <1>0, <2>2, <2>3, <2>4, ReserveStaffs, FullKept DEF Staffed
  <1>2. CASE Idle(p) = {} /\ MayGrow(p)
    <2> DEFINE s    == Spawn(p)
               i    == Len(p.workers) + 1
               more == <<NewWorker>>
    <2>1. s = [workers |-> Append(p.workers, NewWorker), waiters |-> p.waiters, calls |-> p.calls]
      BY <1>0, FieldFacts DEF Spawn
    <2>2. q = Reserve(s, i, c)
      BY <1>2 DEF Acquire
    <2>3. NewWorker \in Worker
      BY DEF NewWorker, Worker
    <2>4. more \in Seq({NewWorker}) /\ Append(p.workers, NewWorker) = p.workers \o more
      BY <1>0, <2>3, AppendFacts
    <2> HIDE DEF more, s
    <2>6. PoolType(s) /\ i \in DOMAIN s.workers /\ s.calls = p.calls
      BY <1>0, <2>1, <2>3 DEF PoolType
    <2>5. Staffed(s)
      BY <1>0, <2>1, <2>4, <2>6, AppendWorkersStaffs
    <2> HIDE DEF i
    <2>7. BusyAreHeld(s, {i}) /\ ~Holds(s, c)
      BY <1>0, <2>5, <2>6 DEF BusyAreHeld, Staffed, Holds
    <2> QED
      BY <2>2, <2>5, <2>6, <2>7, ReserveStaffs, FullKept DEF Staffed
  <1>3. CASE Idle(p) = {} /\ ~MayGrow(p)
    <2> DEFINE t  == [p.calls[c] EXCEPT !.phase = "waiting"]
               r  == [p EXCEPT !.waiters = Append(p.waiters, c)]
               cs == [p.calls EXCEPT ![c] = t]
    <2>1. t.phase = "waiting"
      BY <1>0 DEF CallState
    <2>2. r = [workers |-> p.workers, waiters |-> Append(p.waiters, c), calls |-> p.calls]
      BY <1>0, FieldFacts
    <2>3. q = [r EXCEPT !.calls = cs]
      BY <1>3, <2>2 DEF Acquire
    <2> HIDE DEF r, cs, t
    <2>4. q.workers = p.workers /\ q.calls = cs
      BY <2>2, <2>3
    <2>5. /\ q.calls[c].phase = "waiting"
          /\ \A d \in Call \ {c} : q.calls[d] = p.calls[d]
      BY <1>0, <2>1, <2>4 DEF cs
    <2>6. \A d \in Call : /\ Holds(q, d) <=> Holds(p, d)
                          /\ Holds(p, d) => q.calls[d].worker = p.calls[d].worker
      BY <1>0, <2>5 DEF Holds
    <2>7. \A j : Free(q, j) <=> Free(p, j)
      BY <2>6 DEF Free
    <2>8. BusyAreHeld(q, {}) /\ Taken(q) = Taken(p)
      BY <2>4, <2>7 DEF BusyAreHeld, Staffed, Taken
    <2>9. \A i \in DOMAIN p.workers : p.workers[i] \in Worker
      BY <1>0
    <2>10. Active(p) \subseteq Taken(p)
      BY <1>3, <2>9 DEF Active, Idle, Taken, Worker
    <2>11. Cardinality(Active(p)) \in Nat /\ Cardinality(Active(p)) <= Cardinality(Taken(p))
      BY <1>0, <2>10, LiveFinite, TakenFinite, FS_Subset
    <2>12. Cardinality(Taken(p)) >= MaxWorkers
      BY <1>0, <1>3, <2>11, TakenFinite, SizeAssumption DEF MayGrow
    <2> QED
      BY <2>8, <2>12 DEF Staffed, Full
  <1> QED
    BY <1>1, <1>2, <1>3

\* execute() after the await changes neither who holds what nor who waits.
LEMMA BeginStaffs ==
    ASSUME NEW p, PoolInv(p), Staffed(p), NEW c \in Call, p.calls[c].phase = "reserved",
           NEW q, PoolType(q), q = Begin(p, c)
    PROVE  Staffed(q)
  <1> DEFINE i == p.calls[c].worker
  <1>1. /\ i \in DOMAIN p.workers /\ DOMAIN q.workers = DOMAIN p.workers
        /\ q.workers[i].status = p.workers[i].status
        /\ \A j \in DOMAIN p.workers \ {i} : q.workers[j] = p.workers[j]
        /\ q.calls[c].phase = "executing" /\ q.calls[c].worker = i
        /\ \A d \in Call \ {c} : q.calls[d] = p.calls[d]
    BY BeginFields
  <1>2. \A d \in Call : /\ Holds(q, d) <=> Holds(p, d)
                        /\ q.calls[d].worker = p.calls[d].worker
                        /\ q.calls[d].phase = "waiting" <=> p.calls[d].phase = "waiting"
    BY <1>1 DEF Holds
  <1>3. \A j \in DOMAIN p.workers : q.workers[j].status = p.workers[j].status
    BY <1>1
  <1>4. WaitingIn(q) = WaitingIn(p) /\ (\A j : Free(q, j) <=> Free(p, j))
    BY <1>2 DEF WaitingIn, Free
  <1>5. Taken(q) = Taken(p) /\ BusyAreHeld(q, {})
    BY <1>1, <1>3, <1>4 DEF Taken, BusyAreHeld, Staffed
  <1> QED
    BY <1>4, <1>5, FullKept DEF Staffed, PoolInv

\* The end of execute(): the worker goes on to a waiter, if there is one.
LEMMA EndStaffs ==
    ASSUME NEW p, PoolInv(p), Queued(p), Staffed(p), NEW c \in Call, p.calls[c].phase = "executing",
           NEW on \in BOOLEAN, NEW q, PoolType(q), q = End(p, c, on)
    PROVE  Staffed(q)
  <1> DEFINE i  == p.calls[c].worker
             cs == [p.calls EXCEPT ![c] = Out]
             r  == [p EXCEPT !.calls = cs]
  <1>0. /\ p.workers \in Seq(Worker) /\ p.waiters \in Seq(Call) /\ p.calls \in [Call -> CallState]
        /\ PoolType(p) /\ i \in DOMAIN p.workers
    BY DEF PoolInv, PoolType, Exclusive, Holds, HoldsItsWorker
  <1>1. Out \in CallState /\ Out.phase = "out"
    BY DEF Out, CallState
  <1>2. q = Release(r, i, on)
    BY DEF End
  <1>3. cs \in [Call -> CallState] /\ cs[c] = Out /\ \A d \in Call \ {c} : cs[d] = p.calls[d]
    BY <1>0, <1>1
  <1> HIDE DEF cs, r
  <1>4. r = [workers |-> p.workers, waiters |-> p.waiters, calls |-> cs]
    BY <1>0, FieldFacts DEF r
  <1>5. PoolType(r) /\ r.workers = p.workers /\ r.calls = cs /\ r.waiters = p.waiters
    BY <1>0, <1>3, <1>4 DEF PoolType
  <1>6. BusyAreHeld(r, {i})
    <2> SUFFICES ASSUME NEW j \in DOMAIN p.workers \ {i}, p.workers[j].status = "busy"
                 PROVE  ~Free(r, j)
      BY <1>5 DEF BusyAreHeld
    <2>1. PICK d \in Call : Holds(p, d) /\ p.calls[d].worker = j
      BY DEF BusyAreHeld, Staffed, Free
    <2>2. d # c
      BY <2>1
    <2> QED
      BY <1>3, <1>5, <2>1, <2>2 DEF Free, Holds
  <1> HIDE DEF i
  <1>7. CASE p.waiters # << >>
    <2> DEFINE h == Head(p.waiters)
               t == Reserve(r, i, h)
    <2>1. h \in Call /\ \E k \in DOMAIN p.waiters : h = p.waiters[k]
      BY <1>0, <1>7
    <2>2. p.calls[h].phase = "waiting"
      BY <2>1 DEF Queued, WaitingIn
    <2>3. h # c
      BY <2>2
    <2>4. ~Holds(r, h)
      BY <1>3, <1>5, <2>1, <2>2, <2>3 DEF Holds
    <2>5. q = [t EXCEPT !.waiters = Rest(t.waiters)]
      BY <1>2, <1>5, <1>7 DEF Release, HandsOver
    <2> HIDE DEF h
    <2>0. t = Reserve(r, i, h) /\ i \in DOMAIN r.workers
      BY <1>0, <1>5
    <2> HIDE DEF t
    <2>6. /\ BusyAreHeld(t, {})
          /\ Taken(r) \subseteq Taken(t) /\ WaitingIn(t) \subseteq WaitingIn(r)
          /\ t = [workers |-> t.workers, waiters |-> t.waiters, calls |-> t.calls]
      BY <1>5, <1>6, <2>0, <2>1, <2>4, ReserveStaffs
    <2>7. q.workers = t.workers /\ q.calls = t.calls
      BY <2>5, <2>6
    <2>8. Taken(r) = Taken(p) /\ WaitingIn(r) \subseteq WaitingIn(p)
      BY <1>1, <1>3, <1>5 DEF Taken, WaitingIn
    <2>9. BusyAreHeld(q, {}) /\ Taken(q) = Taken(t) /\ WaitingIn(q) = WaitingIn(t)
      BY <2>6, <2>7 DEF BusyAreHeld, Free, Holds, Taken, WaitingIn
    <2>10. Taken(p) \subseteq Taken(q) /\ WaitingIn(q) \subseteq WaitingIn(p)
      BY <2>6, <2>8, <2>9
    <2> QED
      BY <1>0, <2>9, <2>10, FullKept DEF Staffed
  <1>8. CASE p.waiters = << >>
    <2> DEFINE v  == [status |-> IF on THEN "idle" ELSE "stopped", serving |-> NoCall]
               ws == [r.workers EXCEPT ![i] = v]
    <2>1. v.status # "busy"
      OBVIOUS
    <2>2. q = [r EXCEPT !.workers = ws]
      BY <1>2, <1>5, <1>8 DEF Release, HandsOver
    <2> HIDE DEF v
    <2>3. /\ DOMAIN ws = DOMAIN p.workers /\ ws[i] = v
          /\ \A j \in DOMAIN p.workers \ {i} : ws[j] = p.workers[j]
      BY <1>0, <1>5
    <2> HIDE DEF ws
    <2>4. q.calls = cs /\ q.workers = ws
      BY <1>4, <2>2
    <2>5. \A j : Free(q, j) <=> Free(r, j)
      BY <1>5, <2>4 DEF Free, Holds
    <2>6. BusyAreHeld(q, {})
      BY <1>5, <1>6, <2>1, <2>3, <2>4, <2>5 DEF BusyAreHeld
    <2>7. WaitingIn(p) = {}
      BY <1>8 DEF Queued
    <2>8. WaitingIn(q) = {}
      BY <1>1, <1>3, <2>4, <2>7 DEF WaitingIn
    <2> QED
      BY <2>6, <2>8 DEF Staffed, Full
  <1> QED
    BY <1>7, <1>8

\* stop(): no worker is busy any more, and one that is taken stays so.
LEMMA StopStaffs ==
    ASSUME NEW p, PoolInv(p), Staffed(p), NEW q, PoolType(q), q = StopWorkers(p)
    PROVE  Staffed(q)
  <1> DEFINE w == [i \in DOMAIN p.workers |-> Retired(p.workers[i])]
  <1>0. p.workers \in Seq(Worker) /\ PoolType(p)
    BY DEF PoolInv, PoolType
  <1>1. q = [p EXCEPT !.workers = w]
    BY DEF StopWorkers
  <1>2. /\ DOMAIN w = DOMAIN p.workers
        /\ \A j \in DOMAIN p.workers : w[j] = Retired(p.workers[j]) /\ p.workers[j] \in Worker
    BY <1>0
  <1>3. \A x \in Worker : /\ Retired(x).status \in {"stopped", "draining"}
                          /\ x.status # "idle" => Retired(x).status = "draining"
    BY DEF Worker, Retired
  <1> HIDE DEF w
  <1>4. q.workers = w /\ q.calls = p.calls
    BY <1>0, <1>1, FieldFacts
  <1>5. WaitingIn(q) = WaitingIn(p) /\ (\A j : Free(q, j) <=> Free(p, j))
    BY <1>4 DEF WaitingIn, Free, Holds
  <1>6. BusyAreHeld(q, {}) /\ Taken(p) \subseteq Taken(q)
    BY <1>2, <1>3, <1>4, <1>5 DEF BusyAreHeld, Taken
  <1> QED
    BY <1>0, <1>5, <1>6, FullKept DEF Staffed

LEMMA InitStaff == Init => StaffInv
  <1> SUFFICES ASSUME Init PROVE StaffInv
    OBVIOUS
  <1>1. pool.workers = << >> /\ \A c \in Call : pool.calls[c].phase = "out"
    BY DEF Init, EmptyPool, Out
  <1>2. Staffed(pool)
    BY <1>1 DEF Staffed, Full, BusyAreHeld, WaitingIn
  <1> QED
    BY <1>2, InitBound DEF StaffInv

LEMMA NextStaff == StaffInv /\ [Next]_vars => StaffInv'
  <1> SUFFICES ASSUME StaffInv, [Next]_vars PROVE StaffInv'
    OBVIOUS
  <1>1. /\ BoundInv' /\ PoolType(pool')
        /\ PoolInv(pool) /\ Queued(pool) /\ Staffed(pool) /\ running \in BOOLEAN
    BY NextBound DEF StaffInv, BoundInv, PoolTypeInv, PoolInv
  <1>2. CASE Start
    <2> DEFINE more == [i \in 1..MinWorkers |-> NewWorker]
    <2>1. more \in Seq({NewWorker})
      BY SizeAssumption
    <2>2. pool' = [workers |-> pool.workers \o more, waiters |-> pool.waiters, calls |-> pool.calls]
      BY <1>1, <1>2, FieldFacts DEF Start, StartWorkers, PoolInv
    <2> HIDE DEF more
    <2> QED
      BY <1>1, <2>1, <2>2, AppendWorkersStaffs DEF StaffInv, PoolInv
  <1>3. CASE Stop
    BY <1>1, <1>3, StopStaffs DEF Stop, StaffInv
  <1>4. ASSUME NEW c \in Call, Execute(c)
        PROVE  StaffInv'
    BY <1>1, <1>4, AcquireStaffs DEF Execute, StaffInv
  <1>5. ASSUME NEW c \in Call, Continue(c)
        PROVE  StaffInv'
    BY <1>1, <1>5, BeginStaffs DEF Continue, StaffInv
  <1>6. ASSUME NEW c \in Call, Finish(c)
        PROVE  StaffInv'
    BY <1>1, <1>6, EndStaffs DEF Finish, StaffInv
  <1>7. CASE UNCHANGED vars
    BY <1>1, <1>7 DEF StaffInv, vars
  <1> QED
    BY <1>2, <1>3, <1>4, <1>5, <1>6, <1>7 DEF Next

\* releaseWorker(), worker-pool.ts:265-293: for any number of callers and
\* workers, and through any stops and restarts, a call waits only while all the
\* workers the pool may have are held by others or lost to phantoms.
THEOREM WaitersHaveAServerHolds == Spec => []WaitersHaveAServer
  <1>1. StaffInv => WaitersHaveAServer
    <2> SUFFICES ASSUME StaffInv, Waiting # {} PROVE WaitersHaveAServer
      BY DEF WaitersHaveAServer
    <2> DEFINE H == {c \in Call : Holds(pool, c)}
    <2>1. PoolInv(pool) /\ BusyAreHeld(pool, {}) /\ Full(pool)
      BY DEF StaffInv, BoundInv, PoolTypeInv, Staffed
    <2>2. Cardinality(Taken(pool)) >= MaxWorkers
      BY <2>1 DEF Full, WaitingIn, Waiting
    <2>3. Taken(pool) \subseteq Held(pool) \cup Phantoms
      BY <2>1 DEF Taken, Held, Phantoms, BusyAreHeld, Free
    <2>4. IsFiniteSet(Held(pool)) /\ IsFiniteSet(Phantoms) /\ Cardinality(H) = Cardinality(Held(pool))
      <3>1. IsFiniteSet(Taken(pool)) /\ Phantoms \subseteq Taken(pool)
        BY <2>1, TakenFinite DEF PoolInv, Phantoms, Taken
      <3> QED
        BY <2>1, <3>1, HeldCalls, LiveFinite, FS_Subset
    <2>5. /\ Cardinality(Taken(pool)) \in Nat /\ Cardinality(Held(pool)) \in Nat
          /\ Cardinality(Phantoms) \in Nat
          /\ Cardinality(Taken(pool)) <= Cardinality(Held(pool) \cup Phantoms)
          /\ Cardinality(Held(pool) \cup Phantoms) \in Nat
          /\ Cardinality(Held(pool) \cup Phantoms) <= Cardinality(Held(pool)) + Cardinality(Phantoms)
      <3>1. Held(pool) \cap Phantoms = {}
        BY DEF Held, Phantoms, Free
      <3>2. IsFiniteSet(Held(pool) \cup Phantoms)
        BY <2>4, FS_Union
      <3>3. Cardinality(Held(pool) \cup Phantoms) =
              Cardinality(Held(pool)) + Cardinality(Phantoms) - Cardinality(Held(pool) \cap Phantoms)
        BY <2>4, FS_Union
      <3>4. Cardinality(Held(pool) \cap Phantoms) = 0
        BY <3>1, FS_EmptySet
      <3>5. Cardinality(Taken(pool)) <= Cardinality(Held(pool) \cup Phantoms)
        BY <2>3, <3>2, FS_Subset
      <3>6. /\ Cardinality(Taken(pool)) \in Nat /\ Cardinality(Held(pool)) \in Nat
            /\ Cardinality(Phantoms) \in Nat /\ Cardinality(Held(pool) \cup Phantoms) \in Nat
        BY <2>1, <2>4, <3>2, TakenFinite, FS_CardinalityType DEF PoolInv
      <3> QED
        BY <3>3, <3>4, <3>5, <3>6
    <2> QED
      BY <2>2, <2>4, <2>5, SizeAssumption DEF WaitersHaveAServer
  <1> QED
    BY <1>1, InitStaff, NextStaff, PTL DEF Spec

-----------------------------------------------------------------------------
(* The scheduler.                                                          *)

\* The chains of job j in s, what a trigger changes; a chain in flight.
ChainsIn(s, j) == {c \in Call : s.chains[c].job = j}
Flying(s, c)   == s.chains[c].job \in Job /\ ~s.chains[c].armed

\* The fields of s have their types, and exactly the chains in flight are calls
\* of the pool.
StateOK(s) ==
    /\ s = [pool |-> s.pool, status |-> s.status, chains |-> s.chains]
    /\ PoolInv(s.pool) /\ Queued(s.pool)
    /\ s.status \in [Job -> Status]
    /\ s.chains \in [Call -> [job : Job \cup {NoJob}, armed : BOOLEAN]]
    /\ \A c \in Call : s.chains[c].armed => s.chains[c].job \in Job
    /\ \A c \in Call : Flying(s, c) <=> s.pool.calls[c].phase # "out"

\* The registry r holds the jobs that are registered, each of them once.
InRegistry(s, r) ==
    /\ \A i, k \in DOMAIN r : r[i] = r[k] => i = k
    /\ \A j \in Job : s.status[j] # "unregistered" <=> \E i \in DOMAIN r : r[i] = j

\* Job j has used up its attempts, going by its history h.
Spent(h, j) == FailedAttempts(h) >= 1 /\ FailedAttempts(h) >= JobDef[j].maxRetries

\* What is true of job j after n stops: the status is honest, and a job that is
\* not registered has no chain and is no dead letter; an entry of timers is a
\* timer; and while the job is not in m it has one chain at most, none while it
\* is pending or has used up its attempts, and a timer that is not in timers
\* does not exist.
JobSound(s, j, timers, h, dlq, m, n) ==
    /\ s.status[j] = "running" => \E c \in ChainsIn(s, j) : ~s.chains[c].armed
    /\ s.status[j] = "failed" /\ n = 0 => \E c \in ChainsIn(s, j) : s.chains[c].armed
    /\ s.status[j] = "dead" => j \in dlq
    /\ s.status[j] = "unregistered" => ChainsIn(s, j) = {} /\ j \notin dlq
    /\ j \in DOMAIN timers => timers[j] \in ChainsIn(s, j) /\ s.chains[timers[j]].armed
    /\ j \notin m =>
         /\ \A c, d \in ChainsIn(s, j) : c = d
         /\ s.status[j] = "pending" => ChainsIn(s, j) = {}
         /\ \A c \in ChainsIn(s, j) : s.chains[c].armed => j \in DOMAIN timers /\ timers[j] = c
         /\ Spent(h[j], j) => s.status[j] \in {"dead", "paused", "cancelled"} /\ ChainsIn(s, j) = {}

Sound(s, r, timers, h, dlq, m, n) ==
    /\ StateOK(s)
    /\ InRegistry(s, r)
    /\ \A j \in Job : JobSound(s, j, timers, h, dlq, m, n)

\* Job k is the same in t as in s.
Same(s, t, k) ==
    /\ t.status[k] = s.status[k]
    /\ ChainsIn(t, k) = ChainsIn(s, k)
    /\ \A c \in ChainsIn(s, k) : t.chains[c] = s.chains[c]

BooksTyped ==
    /\ running \in BOOLEAN /\ stops \in Nat
    /\ registered \in Seq(Job)
    /\ due \in [Job -> BOOLEAN]
    /\ DOMAIN retryTimers \subseteq Job /\ retryTimers \in [DOMAIN retryTimers -> Call]
    /\ executionHistory \in [Job -> Seq(BOOLEAN)]
    /\ \A j \in Job : Len(executionHistory[j]) <= HistoryCap
    /\ deadLetterQueue \subseteq Job
    /\ meddled \subseteq Job

SchedulerInv ==
    /\ BooksTyped
    /\ Sound(Now, registered, retryTimers, executionHistory, deadLetterQueue, meddled, stops)

-----------------------------------------------------------------------------
(* What the pool's methods do to which calls are out.                      *)

LEMMA ReserveCalls ==
    ASSUME NEW p, PoolType(p), NEW i \in DOMAIN p.workers, NEW c \in Call
    PROVE  /\ Reserve(p, i, c).calls = [p.calls EXCEPT ![c] = [phase |-> "reserved", worker |-> i]]
           /\ \A ws : [Reserve(p, i, c) EXCEPT !.waiters = ws].calls = Reserve(p, i, c).calls
  <1> DEFINE q == Reserve(p, i, c)
  <1>1. /\ q.workers = [p.workers EXCEPT ![i] = [status |-> "busy", serving |-> NoCall]]
        /\ q.waiters = p.waiters
        /\ q.calls = [p.calls EXCEPT ![c] = [phase |-> "reserved", worker |-> i]]
        /\ q = [workers |-> q.workers, waiters |-> q.waiters, calls |-> q.calls]
    BY ReserveFields
  <1> HIDE DEF q
  <1>2. \A ws : [q EXCEPT !.waiters = ws].calls = q.calls
    BY <1>1
  <1> QED
    BY <1>1, <1>2 DEF q

LEMMA AcquirePhases ==
    ASSUME NEW p, PoolInv(p), NEW c \in Call, p.calls[c].phase = "out", NEW q, q = Acquire(p, c)
    PROVE  q.calls[c].phase # "out" /\ \A d \in Call \ {c} : q.calls[d] = p.calls[d]
  <1>0. /\ p.workers \in Seq(Worker) /\ p.waiters \in Seq(Call) /\ p.calls \in [Call -> CallState]
        /\ PoolType(p)
    BY DEF PoolInv, PoolType
  <1>1. CASE Idle(p) # {}
    <2> DEFINE i == First(Idle(p))
    <2>1. Idle(p) \subseteq Nat
      BY <1>0 DEF Idle
    <2>2. i \in Idle(p) /\ i \in DOMAIN p.workers
      BY <1>1, <2>1, FirstFacts DEF Idle
    <2>3. q = Reserve(p, i, c)
      BY <1>1 DEF Acquire
    <2> HIDE DEF i
    <2>4. q.calls = [p.calls EXCEPT ![c] = [phase |-> "reserved", worker |-> i]]
      BY <1>0, <2>2, <2>3, ReserveCalls
    <2> QED
      BY <1>0, <2>4
  <1>2. CASE Idle(p) = {} /\ MayGrow(p)
    <2> DEFINE s == Spawn(p)
               i == Len(p.workers) + 1
    <2>1. s = [workers |-> Append(p.workers, NewWorker), waiters |-> p.waiters, calls |-> p.calls]
      BY <1>0, FieldFacts DEF Spawn
    <2>2. NewWorker \in Worker
      BY DEF NewWorker, Worker
    <2> HIDE DEF s
    <2>3. PoolType(s) /\ i \in DOMAIN s.workers /\ s.calls = p.calls
      BY <1>0, <2>1, <2>2 DEF PoolType
    <2>4. q = Reserve(s, i, c)
      BY <1>2 DEF Acquire, s
    <2> HIDE DEF i
    <2>5. q.calls = [s.calls EXCEPT ![c] = [phase |-> "reserved", worker |-> i]]
      BY <2>3, <2>4, ReserveCalls
    <2> QED
      BY <1>0, <2>3, <2>5
  <1>3. CASE Idle(p) = {} /\ ~MayGrow(p)
    <2> DEFINE t == [p.calls[c] EXCEPT !.phase = "waiting"]
               r == [p EXCEPT !.waiters = Append(p.waiters, c)]
               cs == [p.calls EXCEPT ![c] = t]
    <2>1. t.phase = "waiting"
      BY <1>0 DEF CallState
    <2>2. r = [workers |-> p.workers, waiters |-> Append(p.waiters, c), calls |-> p.calls]
      BY <1>0, FieldFacts
    <2>3. q = [r EXCEPT !.calls = cs]
      BY <1>3, <2>2 DEF Acquire
    <2>4. PoolType(r)
      <3>1. Append(p.waiters, c) \in Seq(Call)
        BY <1>0
      <3> HIDE DEF r
      <3> QED
        BY <1>0, <2>2, <3>1 DEF PoolType
    <2> HIDE DEF r, cs, t
    <2>5. q.calls = cs
      BY <2>3, <2>4, FieldFacts
    <2> QED
      BY <1>0, <2>1, <2>5 DEF cs
  <1> QED
    BY <1>1, <1>2, <1>3

\* A call that ends is out; the worker may go to one that waits.
LEMMA EndPhases ==
    ASSUME NEW p, PoolInv(p), Queued(p), NEW c \in Call, p.calls[c].phase = "executing",
           NEW on \in BOOLEAN, NEW q, q = End(p, c, on)
    PROVE  /\ q.calls[c].phase = "out"
           /\ \A d \in Call \ {c} : q.calls[d].phase = "out" <=> p.calls[d].phase = "out"
  <1> DEFINE i  == p.calls[c].worker
             cs == [p.calls EXCEPT ![c] = Out]
             r  == [p EXCEPT !.calls = cs]
  <1>0. /\ p.workers \in Seq(Worker) /\ p.waiters \in Seq(Call) /\ p.calls \in [Call -> CallState]
        /\ PoolType(p) /\ i \in DOMAIN p.workers
    BY DEF PoolInv, PoolType, Exclusive, Holds, HoldsItsWorker
  <1>1. Out \in CallState /\ Out.phase = "out"
    BY DEF Out, CallState
  <1>2. q = Release(r, i, on)
    BY DEF End
  <1>3. cs \in [Call -> CallState] /\ cs[c] = Out /\ \A d \in Call \ {c} : cs[d] = p.calls[d]
    BY <1>0, <1>1
  <1> HIDE DEF cs, i, r
  <1>4. r = [workers |-> p.workers, waiters |-> p.waiters, calls |-> cs]
    BY <1>0, FieldFacts DEF r
  <1>5. PoolType(r) /\ i \in DOMAIN r.workers /\ r.calls = cs /\ r.waiters = p.waiters
    BY <1>0, <1>3, <1>4 DEF PoolType
  <1>6. CASE p.waiters # << >>
    <2> DEFINE h == Head(p.waiters)
               t == Reserve(r, i, h)
    <2>1. h \in Call /\ \E k \in DOMAIN p.waiters : h = p.waiters[k]
      BY <1>0, <1>6
    <2>2. h \in WaitingIn(p)
      BY <2>1 DEF Queued
    <2>3. h # c /\ p.calls[h].phase = "waiting"
      BY <2>2 DEF WaitingIn
    <2>4. q = [t EXCEPT !.waiters = Rest(t.waiters)]
      BY <1>2, <1>5, <1>6 DEF Release, HandsOver
    <2> HIDE DEF h, t
    <2>5. /\ t.calls = [cs EXCEPT ![h] = [phase |-> "reserved", worker |-> i]]
          /\ \A ws : [t EXCEPT !.waiters = ws].calls = t.calls
      BY <1>5, <2>1, ReserveCalls DEF t
    <2>6. q.calls = t.calls
      BY <2>4, <2>5
    <2> QED
      BY <1>1, <1>3, <2>1, <2>3, <2>5, <2>6
  <1>7. CASE p.waiters = << >>
    <2> DEFINE ws == [r.workers EXCEPT ![i] = [status |-> IF on THEN "idle" ELSE "stopped", serving |-> NoCall]]
    <2>1. q = [r EXCEPT !.workers = ws]
      BY <1>2, <1>5, <1>7 DEF Release, HandsOver
    <2> HIDE DEF ws
    <2>2. q.calls = cs
      BY <1>4, <2>1
    <2> QED
      BY <1>1, <1>3, <2>2
  <1> QED
    BY <1>6, <1>7

LEMMA BeginPhases ==
    ASSUME NEW p, PoolInv(p), NEW c \in Call, p.calls[c].phase = "reserved", NEW q, q = Begin(p, c)
    PROVE  \A d \in Call : q.calls[d].phase = "out" <=> p.calls[d].phase = "out"
  <1>1. q.calls[c].phase = "executing" /\ \A d \in Call \ {c} : q.calls[d] = p.calls[d]
    BY BeginFields
  <1> QED
    BY <1>1

LEMMA StartStopPhases ==
    ASSUME NEW p, PoolInv(p)
    PROVE  StartWorkers(p).calls = p.calls /\ StopWorkers(p).calls = p.calls
  BY FieldFacts DEF StartWorkers, StopWorkers, PoolInv

-----------------------------------------------------------------------------
(* Triggers.                                                               *)

\* Chain c is to make a run of its job; the others are as they should be.
Ready(s, c) ==
    /\ s = [pool |-> s.pool, status |-> s.status, chains |-> s.chains]
    /\ PoolInv(s.pool) /\ Queued(s.pool)
    /\ s.status \in [Job -> Status]
    /\ s.chains \in [Call -> [job : Job \cup {NoJob}, armed : BOOLEAN]]
    /\ s.chains[c].job \in Job
    /\ s.pool.calls[c].phase = "out"
    /\ \A d \in Call \ {c} : s.chains[d].armed => s.chains[d].job \in Job
    /\ \A d \in Call \ {c} : Flying(s, d) <=> s.pool.calls[d].phase # "out"

LEMMA ArmedSet ==
    ASSUME NEW z \in [job : Job \cup {NoJob}, armed : BOOLEAN], NEW x
    PROVE  [z EXCEPT !.armed = x] = [job |-> z.job, armed |-> x]
  OBVIOUS

LEMMA RunAgainFacts ==
    ASSUME NEW s, NEW c \in Call, Ready(s, c), NEW t, t = RunAgain(s, c)
    PROVE  /\ StateOK(t)
           /\ t.status = [s.status EXCEPT ![s.chains[c].job] = "running"]
           /\ t.chains = [s.chains EXCEPT ![c] = [job |-> s.chains[c].job, armed |-> FALSE]]
  <1> DEFINE j  == s.chains[c].job
             st == [s.status EXCEPT ![j] = "running"]
             ch == [s.chains EXCEPT ![c].armed = FALSE]
             p  == Acquire(s.pool, c)
  <1> USE DEF Ready
  <1>1. t = [[[s EXCEPT !.status = st] EXCEPT !.chains = ch] EXCEPT !.pool = p]
    BY DEF RunAgain
  <1>2. st \in [Job -> Status]
    BY DEF Status
  <1>3. /\ ch \in [Call -> [job : Job \cup {NoJob}, armed : BOOLEAN]]
        /\ ch[c] = [job |-> j, armed |-> FALSE]
        /\ ch = [s.chains EXCEPT ![c] = [job |-> j, armed |-> FALSE]]
        /\ \A d \in Call \ {c} : ch[d] = s.chains[d]
    <2> DEFINE x == s.chains[c]
               y == [x EXCEPT !.armed = FALSE]
    <2>1. x \in [job : Job \cup {NoJob}, armed : BOOLEAN] /\ x.job = j
      OBVIOUS
    <2>2. ch = [s.chains EXCEPT ![c] = y]
      OBVIOUS
    <2> HIDE DEF ch, x, j
    <2>4. y = [job |-> j, armed |-> FALSE]
      BY <2>1, ArmedSet
    <2>5. [job |-> j, armed |-> FALSE] \in [job : Job \cup {NoJob}, armed : BOOLEAN]
      BY DEF j
    <2> HIDE DEF y
    <2> QED
      BY <2>2, <2>4, <2>5
  <1>4. PoolInv(p) /\ Queued(p)
    BY AcquireFacts, AcquireMoves
  <1>5. p.calls[c].phase # "out" /\ \A d \in Call \ {c} : p.calls[d] = s.pool.calls[d]
    BY AcquirePhases
  <1> HIDE DEF j, st, ch, p
  <1>6. t = [pool |-> p, status |-> st, chains |-> ch]
    BY <1>1
  <1>7. j \in Job
    BY DEF j
  <1>8. \A d \in Call : Flying(t, d) <=> t.pool.calls[d].phase # "out"
    BY <1>3, <1>5, <1>6, <1>7 DEF Flying
  <1>9. \A d \in Call : t.chains[d].armed => t.chains[d].job \in Job
    BY <1>3, <1>6, <1>7
  <1>10. StateOK(t)
    <2>1. /\ t = [pool |-> t.pool, status |-> t.status, chains |-> t.chains]
          /\ t.pool = p /\ t.status = st /\ t.chains = ch
      BY <1>6
    <2> QED
      BY <1>2, <1>3, <1>4, <1>8, <1>9, <2>1 DEF StateOK
  <1> QED
    BY <1>3, <1>6, <1>10 DEF j, st

\* triggerJob() takes a chain that is free.
LEMMA LaunchFacts ==
    ASSUME NEW s, StateOK(s), FreeChains(s) # {}, NEW j \in Job, NEW t, t = Launch(s, j)
    PROVE  /\ StateOK(t)
           /\ t.status = [s.status EXCEPT ![j] = "running"]
           /\ \E c \in FreeChains(s) : t.chains = [s.chains EXCEPT ![c] = [job |-> j, armed |-> FALSE]]
  <1> DEFINE c  == CHOOSE x \in FreeChains(s) : TRUE
             ch == [s.chains EXCEPT ![c] = [job |-> j, armed |-> FALSE]]
             u  == [s EXCEPT !.chains = ch]
  <1>1. c \in FreeChains(s)
    OBVIOUS
  <1>2. t = RunAgain(u, c)
    BY DEF Launch
  <1> HIDE DEF c
  <1>3. c \in Call /\ s.chains[c] = NoChain
    BY <1>1 DEF FreeChains
  <1>4. s.pool.calls[c].phase = "out"
    BY <1>3, JobAssumption DEF StateOK, Flying, NoChain
  <1>5. /\ ch \in [Call -> [job : Job \cup {NoJob}, armed : BOOLEAN]]
        /\ ch[c] = [job |-> j, armed |-> FALSE]
        /\ \A d \in Call \ {c} : ch[d] = s.chains[d]
    BY <1>3 DEF StateOK
  <1> HIDE DEF ch, u
  <1>6. u = [pool |-> s.pool, status |-> s.status, chains |-> ch]
    BY DEF StateOK, u
  <1>7. /\ u = [pool |-> u.pool, status |-> u.status, chains |-> u.chains]
        /\ u.pool = s.pool /\ u.status = s.status /\ u.chains = ch
    BY <1>6
  <1>8. \A d \in Call \ {c} : u.chains[d].armed => u.chains[d].job \in Job
    BY <1>5, <1>7 DEF StateOK
  <1>9. \A d \in Call \ {c} : Flying(u, d) <=> u.pool.calls[d].phase # "out"
    BY <1>5, <1>7 DEF StateOK, Flying
  <1>10. PoolInv(u.pool) /\ Queued(u.pool) /\ u.status \in [Job -> Status]
    BY <1>7 DEF StateOK
  <1>11. /\ StateOK(t)
         /\ t.status = [u.status EXCEPT ![u.chains[c].job] = "running"]
         /\ t.chains = [u.chains EXCEPT ![c] = [job |-> u.chains[c].job, armed |-> FALSE]]
    <2>1. u.chains \in [Call -> [job : Job \cup {NoJob}, armed : BOOLEAN]] /\ u.chains[c].job \in Job
      BY <1>5, <1>7
    <2>2. u.pool.calls[c].phase = "out"
      BY <1>4, <1>7
    <2>3. Ready(u, c)
      BY <1>7, <1>8, <1>9, <1>10, <2>1, <2>2 DEF Ready
    <2> QED
      BY <1>2, <1>3, <2>3, RunAgainFacts
  <1>12. t.status = [s.status EXCEPT ![j] = "running"]
    BY <1>5, <1>7, <1>11
  <1>13. t.chains = [s.chains EXCEPT ![c] = [job |-> j, armed |-> FALSE]]
    <2>1. t.chains = [ch EXCEPT ![c] = [job |-> j, armed |-> FALSE]]
      BY <1>5, <1>7, <1>11
    <2> QED
      BY <2>1, <1>3 DEF ch, StateOK
  <1> QED
    BY <1>1, <1>11, <1>12, <1>13

LEMMA LaunchTakes ==
    ASSUME NEW s, StateOK(s), FreeChains(s) # {}, NEW j \in Job, NEW t, t = Launch(s, j)
    PROVE  /\ \A k \in Job \ {j} : t.status[k] = s.status[k]
           /\ \E c \in FreeChains(s) : FreeChains(t) = FreeChains(s) \ {c}
  <1>1. /\ StateOK(t)
        /\ t.status = [s.status EXCEPT ![j] = "running"]
        /\ \E c \in FreeChains(s) : t.chains = [s.chains EXCEPT ![c] = [job |-> j, armed |-> FALSE]]
    BY LaunchFacts
  <1>2. PICK c \in FreeChains(s) : t.chains = [s.chains EXCEPT ![c] = [job |-> j, armed |-> FALSE]]
    BY <1>1
  <1>3. /\ c \in Call /\ t.chains[c].job = j /\ j # NoJob
        /\ \A d \in Call \ {c} : t.chains[d] = s.chains[d]
    BY <1>2, JobAssumption DEF StateOK, FreeChains
  <1>4. FreeChains(t) = FreeChains(s) \ {c}
    BY <1>3 DEF FreeChains, NoChain
  <1> QED
    BY <1>1, <1>4 DEF StateOK

\* What is true of a job depends on nothing but what the job has.
LEMMA Elsewhere ==
    ASSUME NEW s, NEW t, NEW k \in Job, NEW timers, NEW timers2, NEW h, NEW h2, NEW dlq, NEW dlq2,
           NEW m, NEW m2, NEW n, JobSound(s, k, timers, h, dlq, m, n), Same(s, t, k),
           k \in DOMAIN timers2 <=> k \in DOMAIN timers,
           k \in DOMAIN timers => timers2[k] = timers[k],
           h2[k] = h[k], k \in dlq2 <=> k \in dlq, k \in m => k \in m2
    PROVE  JobSound(t, k, timers2, h2, dlq2, m2, n)
  BY DEF JobSound, Same

\* A trigger keeps what is sound: the job waits for one, or its owner has
\* meddled with it.
LEMMA LaunchSound ==
    ASSUME NEW s, NEW r, NEW timers, NEW h, NEW dlq, NEW m, NEW n, Sound(s, r, timers, h, dlq, m, n),
           FreeChains(s) # {}, NEW j \in Job, s.status[j] # "unregistered",
           s.status[j] = "pending" \/ j \in m, NEW t, t = Launch(s, j)
    PROVE  Sound(t, r, timers, h, dlq, m, n)
  <1>1. /\ StateOK(t)
        /\ t.status = [s.status EXCEPT ![j] = "running"]
        /\ \E c \in FreeChains(s) : t.chains = [s.chains EXCEPT ![c] = [job |-> j, armed |-> FALSE]]
    <2>1. StateOK(s)
      BY DEF Sound
    <2> QED
      BY <2>1, LaunchFacts
  <1>2. PICK c \in FreeChains(s) : t.chains = [s.chains EXCEPT ![c] = [job |-> j, armed |-> FALSE]]
    BY <1>1
  <1>3. /\ s.status \in [Job -> Status] /\ c \in Call /\ s.chains[c] = NoChain
        /\ s.chains \in [Call -> [job : Job \cup {NoJob}, armed : BOOLEAN]]
    BY DEF Sound, StateOK, FreeChains
  <1>4. /\ t.status[j] = "running" /\ \A k \in Job \ {j} : t.status[k] = s.status[k]
        /\ t.chains[c].job = j /\ ~t.chains[c].armed
        /\ \A d \in Call \ {c} : t.chains[d] = s.chains[d]
    <2>1. t.status[j] = "running" /\ \A k \in Job \ {j} : t.status[k] = s.status[k]
      BY <1>1, <1>3
    <2>2. /\ t.chains[c] = [job |-> j, armed |-> FALSE]
          /\ \A d \in Call \ {c} : t.chains[d] = s.chains[d]
      BY <1>2, <1>3
    <2> QED
      BY <2>1, <2>2
  <1>5. /\ ChainsIn(t, j) = ChainsIn(s, j) \cup {c}
        /\ \A k \in Job \ {j} : ChainsIn(t, k) = ChainsIn(s, k)
        /\ \A k \in Job : c \notin ChainsIn(s, k)
    BY <1>3, <1>4, JobAssumption DEF ChainsIn, NoChain
  <1>6. \A k \in Job : \A d \in ChainsIn(s, k) : t.chains[d] = s.chains[d]
    BY <1>4, <1>5 DEF ChainsIn
  <1>7. InRegistry(t, r)
    BY <1>4 DEF Sound, InRegistry
  <1>8. ASSUME NEW k \in Job
        PROVE  JobSound(t, k, timers, h, dlq, m, n)
    <2>0. JobSound(s, k, timers, h, dlq, m, n)
      BY DEF Sound
    <2>1. CASE k # j
      <3>1. Same(s, t, k)
        BY <1>4, <1>5, <1>6, <2>1 DEF Same
      <3> QED
        BY <2>0, <3>1, Elsewhere
    <2>2. CASE k = j
      <3>1. /\ j \in DOMAIN timers => timers[j] \in ChainsIn(t, j) /\ t.chains[timers[j]].armed
            /\ \A d \in ChainsIn(t, j) \ {c} : d \in ChainsIn(s, j) /\ t.chains[d] = s.chains[d]
        BY <1>5, <1>6, <2>0, <2>2 DEF JobSound
      <3>2. j \notin m => ChainsIn(s, j) = {} /\ s.status[j] = "pending"
        BY <2>0, <2>2 DEF JobSound
      <3> QED
        BY <1>4, <1>5, <2>0, <2>2, <3>1, <3>2 DEF JobSound
    <2> QED
      BY <2>1, <2>2
  <1> QED
    BY <1>1, <1>7, <1>8 DEF Sound

\* Induction up to n, for a set instead of a predicate.
LEMMA Induction ==
    ASSUME NEW n \in Nat, NEW S, 0 \in S, \A i \in 1..n : i - 1 \in S => i \in S
    PROVE  0..n \subseteq S
  <1> DEFINE Bad == {i \in 0..n : i \notin S}
  <1> SUFFICES ASSUME Bad # {} PROVE FALSE
    OBVIOUS
  <1>1. Bad \in SUBSET Nat
    OBVIOUS
  <1>2. PICK i \in Bad : \A j \in Bad : i <= j
    <2> HIDE DEF Bad
    <2> QED
      BY <1>1, LeastFacts
  <1>3. i \in 1..n /\ i - 1 \in 0..n /\ ~(i <= i - 1)
    BY <1>2
  <1> QED
    BY <1>2, <1>3

\* The jobs of js come one after the other to a chain of their own.
LEMMA LaunchAllSound ==
    ASSUME NEW s, NEW timers, NEW h, NEW dlq, NEW m, NEW n,
           Sound(s, registered, timers, h, dlq, m, n), registered \in Seq(Job), NEW js \in SUBSET Job, \A j \in js : s.status[j] = "pending",
           Room(s, js)
    PROVE  Sound(LaunchAll(s, js), registered, timers, h, dlq, m, n)
  <1> DEFINE N == Len(registered)
             Ok(t) == Sound(t, registered, timers, h, dlq, m, n)
             Left(i) == {j \in js : \A k \in 1..i : registered[k] # j}
             Good(i, t) == /\ Ok(t)
                           /\ \A j \in Left(i) : t.status[j] = "pending"
                           /\ Cardinality(FreeChains(t)) >= Cardinality(Left(i))
             Step(t, i) == IF registered[i] \in js THEN Launch(t, registered[i]) ELSE t
  <1>1. /\ N \in Nat /\ DOMAIN registered = 1..N /\ \A i \in 1..N : registered[i] \in Job
        /\ \A i, k \in 1..N : registered[i] = registered[k] => i = k
        /\ \A j \in js : \E i \in 1..N : registered[i] = j
    BY DEF Sound, InRegistry
  <1>2. /\ \A i \in 1..N : i - 1 \in 0..N /\ 1..i = 1..i - 1 \cup {i} /\ i \notin 1..i - 1
        /\ 1..0 = {} /\ \A i \in 0..N : 1..i \subseteq 1..N
    BY <1>1
  <1>3. \A t : IsFiniteSet(FreeChains(t))
    <2>1. \A t : FreeChains(t) \in SUBSET Call
      BY DEF FreeChains
    <2> QED
      BY <2>1, BoundAssumption, FS_Subset
  <1>4. \A i : IsFiniteSet(Left(i))
    <2> DEFINE R == {registered[i] : i \in 1..N}
    <2>1. registered \in Surjection(1..N, R)
      BY <1>1 DEF Surjection
    <2>2. IsFiniteSet(R)
      <3> HIDE DEF R
      <3> QED
        BY <1>1, <2>1, FS_Interval, FS_Surjection
    <2>3. \A i : Left(i) \in SUBSET R
      BY <1>1
    <2> HIDE DEF R, Left
    <2> QED
      BY <2>2, <2>3, FS_Subset
  <1> HIDE DEF N
  <1>5. Good(0, s)
    <2>1. Left(0) = js
      BY <1>2
    <2> HIDE DEF Left
    <2> QED
      BY <2>1 DEF Room
  <1>6. ASSUME NEW i \in 1..N, NEW t, Good(i - 1, t)
        PROVE  Good(i, Step(t, i))
    <2> DEFINE j == registered[i]
               u == Step(t, i)
    <2>1. Left(i) = Left(i - 1) \ {j}
      BY <1>2
    <2>2. j \in js => j \in Left(i - 1)
      BY <1>1, <1>2
    <2>3. /\ Cardinality(FreeChains(t)) \in Nat /\ Cardinality(Left(i - 1)) \in Nat
          /\ IsFiniteSet(FreeChains(t)) /\ IsFiniteSet(Left(i - 1))
      <3> HIDE DEF Left
      <3> QED
        BY <1>3, <1>4, FS_CardinalityType
    <2>4. CASE j \in js
      <3>1. /\ Cardinality(Left(i)) = Cardinality(Left(i - 1)) - 1
            /\ Cardinality(Left(i - 1)) # 0
        <4>1. j \in Left(i - 1)
          BY <2>2, <2>4
        <4> HIDE DEF Left, j
        <4> QED
          BY <2>1, <2>3, <4>1, FS_RemoveElement, FS_EmptySet
      <3>2. FreeChains(t) # {}
        <4> HIDE DEF Left, Ok
        <4> QED
          BY <1>6, <2>3, <3>1, FS_EmptySet
      <3>3. StateOK(t) /\ j \in Job /\ t.status[j] = "pending"
        BY <1>6, <2>2, <2>4 DEF Sound
      <3>4. u = Launch(t, j)
        BY <2>4
      <3> HIDE DEF u, j, Left
      <3>5. Ok(u)
        BY <1>6, <3>2, <3>3, <3>4, LaunchSound
      <3>6. /\ \A k \in Job \ {j} : u.status[k] = t.status[k]
            /\ \E c \in FreeChains(t) : FreeChains(u) = FreeChains(t) \ {c}
        <4> HIDE DEF Ok, Good, Step
        <4> QED
          BY <3>2, <3>3, <3>4, LaunchTakes
      <3>7. \A k \in Left(i) : u.status[k] = "pending"
        <4>1. \A k \in Left(i) : k \in Left(i - 1) /\ k # j /\ k \in Job
          BY <2>1 DEF Left
        <4> QED
          BY <1>6, <3>6, <4>1
      <3>8. Cardinality(FreeChains(u)) = Cardinality(FreeChains(t)) - 1
        BY <2>3, <3>6, FS_RemoveElement
      <3> QED
        <4> HIDE DEF Ok
        <4>1. Cardinality(FreeChains(u)) >= Cardinality(Left(i))
          BY <1>6, <2>3, <3>1, <3>8
        <4> QED
          BY <3>5, <3>7, <4>1 DEF u
    <2>5. CASE j \notin js
      <3>1. u = t /\ Left(i) = Left(i - 1)
        BY <2>1, <2>5
      <3> HIDE DEF Left, u, Ok
      <3> QED
        BY <1>6, <3>1 DEF u
    <2> QED
      BY <2>4, <2>5
  <1> HIDE DEF Good, Step
  <1> DEFINE Run(k, f) == /\ f = [i \in 0..k |-> f[i]] /\ f[0] = s
                          /\ \A i \in 1..k : f[i] = Step(f[i - 1], i)
             Ks == {k \in 0..N : \E f : Run(k, f)}
  <1>7. 0 \in Ks
    <2> DEFINE f == [i \in 0..0 |-> s]
    <2>1. Run(0, f)
      OBVIOUS
    <2> HIDE DEF f, Run
    <2> QED
      BY <1>1, <2>1
  <1>8. ASSUME NEW k \in 1..N, k - 1 \in Ks
        PROVE  k \in Ks
    <2>1. PICK f : Run(k - 1, f)
      BY <1>8
    <2> DEFINE g == [i \in 0..k |-> IF i = k THEN Step(f[k - 1], k) ELSE f[i]]
    <2>2. k \in Nat /\ k \in 0..N /\ k - 1 \in Nat
      BY <1>1
    <2>3. g = [i \in 0..k |-> g[i]] /\ g[0] = s
      BY <2>1, <2>2
    <2>4. \A i \in 1..k : g[i] = Step(g[i - 1], i)
      <3> TAKE i \in 1..k
      <3>1. CASE i = k
        BY <2>2, <3>1
      <3>2. CASE i # k
        <4>1. i \in 1..k - 1 /\ i \in 0..k /\ i - 1 \in 0..k /\ i - 1 # k
          BY <2>2, <3>2
        <4> QED
          BY <2>1, <3>2, <4>1
      <3> QED
        BY <3>1, <3>2
    <2> HIDE DEF g
    <2>5. Run(k, g)
      BY <2>3, <2>4
    <2> HIDE DEF Run
    <2> QED
      BY <2>2, <2>5
  <1>9. N \in Ks
    <2> HIDE DEF Ks
    <2>1. 0..N \subseteq Ks
      BY <1>1, <1>7, <1>8, Induction
    <2> QED
      BY <1>1, <2>1
  <1>10. PICK f : Run(N, f)
    BY <1>9
  <1> DEFINE g == CHOOSE g : g = [i \in 0..N |-> IF i = 0 THEN s ELSE Step(g[i - 1], i)]
  <1>11. g = [i \in 0..N |-> IF i = 0 THEN s ELSE Step(g[i - 1], i)]
    <2>1. f = [i \in 0..N |-> IF i = 0 THEN s ELSE Step(f[i - 1], i)]
      BY <1>1, <1>10
    <2> QED
      BY <2>1
  <1>12. LaunchAll(s, js) = g[N]
    BY DEF LaunchAll, Step, N
  <1> HIDE DEF g
  <1> DEFINE Is == {i \in 0..N : Good(i, g[i])}
  <1>13. 0 \in Is
    BY <1>1, <1>5, <1>11
  <1>14. ASSUME NEW i \in 1..N, i - 1 \in Is
         PROVE  i \in Is
    <2>1. g[i] = Step(g[i - 1], i)
      BY <1>1, <1>11
    <2>2. Good(i - 1, g[i - 1])
      BY <1>14
    <2> QED
      BY <1>1, <1>6, <2>1, <2>2
  <1>15. N \in Is
    <2> HIDE DEF Is
    <2>1. 0..N \subseteq Is
      BY <1>1, <1>13, <1>14, Induction
    <2> QED
      BY <1>1, <2>1
  <1> QED
    BY <1>12, <1>15 DEF Good

\* What publish() and tickCron() do.
LEMMA TriggersSound ==
    ASSUME NEW s, NEW timers, NEW h, NEW dlq, NEW m, NEW n,
           Sound(s, registered, timers, h, dlq, m, n), registered \in Seq(Job),
           NEW js \in SUBSET Job, \A j \in js : s.status[j] = "pending", TriggerAll(s, js)
    PROVE  Sound(Now', registered, timers, h, dlq, m, n)
  <1> DEFINE t == LaunchAll(s, js)
  <1>1. Sound(t, registered, timers, h, dlq, m, n)
    BY LaunchAllSound DEF TriggerAll
  <1>2. pool' = t.pool /\ status' = t.status /\ chains' = t.chains
    BY DEF TriggerAll, Become
  <1> HIDE DEF t
  <1>3. t = [pool |-> t.pool, status |-> t.status, chains |-> t.chains]
    BY <1>1 DEF Sound, StateOK
  <1>4. Now' = t
    BY <1>2, <1>3 DEF Now
  <1> QED
    BY <1>1, <1>4

-----------------------------------------------------------------------------
(* The history of a job.                                                   *)

FailuresIn(h) == {i \in DOMAIN h : ~h[i]}

LEMMA FailuresFinite ==
    ASSUME NEW h \in Seq(BOOLEAN)
    PROVE  IsFiniteSet(FailuresIn(h)) /\ FailedAttempts(h) \in Nat
  <1>1. DOMAIN h = 1..Len(h) /\ Len(h) \in Nat
    OBVIOUS
  <1>2. FailuresIn(h) \in SUBSET (1..Len(h))
    BY <1>1 DEF FailuresIn
  <1>3. IsFiniteSet(FailuresIn(h))
    <2>1. IsFiniteSet(1..Len(h))
      BY <1>1, FS_Interval
    <2> QED
      BY <1>2, <2>1, FS_Subset
  <1> QED
    BY <1>3, FS_CardinalityType DEF FailedAttempts, FailuresIn

\* To drop the oldest record adds no failure.
LEMMA TailFailures ==
    ASSUME NEW h \in Seq(BOOLEAN), h # << >>
    PROVE  /\ Tail(h) \in Seq(BOOLEAN) /\ Len(Tail(h)) = Len(h) - 1
           /\ FailedAttempts(Tail(h)) <= FailedAttempts(h)
  <1> DEFINE u == Tail(h)
             f == [i \in FailuresIn(u) |-> i + 1]
  <1>1. u \in Seq(BOOLEAN) /\ Len(u) = Len(h) - 1 /\ \A i \in 1..Len(u) : u[i] = h[i + 1]
    OBVIOUS
  <1>2. DOMAIN u = 1..Len(u) /\ DOMAIN h = 1..Len(h) /\ Len(u) \in Nat /\ Len(h) \in Nat
    BY <1>1
  <1> HIDE DEF u
  <1>3. \A i \in FailuresIn(u) : i \in Nat /\ i + 1 \in FailuresIn(h)
    <2> TAKE i \in FailuresIn(u)
    <2>1. i \in 1..Len(u) /\ ~u[i]
      BY <1>2 DEF FailuresIn
    <2>2. i + 1 \in DOMAIN h /\ u[i] = h[i + 1]
      BY <1>1, <1>2, <2>1
    <2> QED
      BY <2>1, <2>2 DEF FailuresIn
  <1>4. f \in Injection(FailuresIn(u), FailuresIn(h))
    BY <1>3 DEF Injection, IsInjective
  <1>5. FailedAttempts(u) <= FailedAttempts(h)
    <2> HIDE DEF f
    <2> QED
      BY <1>4, FailuresFinite, FS_Injection DEF FailedAttempts, FailuresIn
  <1> QED
    BY <1>1, <1>5 DEF u

\* recordExecution() keeps to the cap, and a success adds no failure.
LEMMA RecordedFacts ==
    ASSUME NEW h \in Seq(BOOLEAN), Len(h) <= HistoryCap, NEW ok \in BOOLEAN
    PROVE  /\ Recorded(h, ok) \in Seq(BOOLEAN) /\ Len(Recorded(h, ok)) <= HistoryCap
           /\ ok => FailedAttempts(Recorded(h, ok)) <= FailedAttempts(h)
  <1> DEFINE all == Append(h, ok)
  <1>1. /\ all \in Seq(BOOLEAN) /\ Len(all) = Len(h) + 1 /\ Len(h) \in Nat
        /\ \A i \in 1..Len(h) : all[i] = h[i]
        /\ all[Len(h) + 1] = ok /\ all # << >>
    OBVIOUS
  <1>2. ok => FailedAttempts(all) = FailedAttempts(h)
    <2>1. ASSUME ok PROVE FailuresIn(all) = FailuresIn(h)
      <3>1. DOMAIN all = 1..Len(h) + 1 /\ DOMAIN h = 1..Len(h)
        BY <1>1
      <3>2. \A i \in DOMAIN all : i = Len(h) + 1 \/ i \in DOMAIN h
        BY <1>1, <3>1
      <3> HIDE DEF all
      <3>3. all[Len(h) + 1]
        BY <1>1, <2>1
      <3>4. \A i \in DOMAIN h : i \in DOMAIN all /\ all[i] = h[i]
        BY <1>1, <3>1
      <3>5. \A i \in FailuresIn(all) : i \in FailuresIn(h)
        BY <3>2, <3>3, <3>4, Zenon DEF FailuresIn
      <3>6. \A i \in FailuresIn(h) : i \in FailuresIn(all)
        BY <3>4, Zenon DEF FailuresIn
      <3> QED
        BY <3>5, <3>6
    <2> QED
      BY <2>1 DEF FailedAttempts, FailuresIn
  <1> HIDE DEF all
  <1>3. FailedAttempts(all) \in Nat /\ FailedAttempts(h) \in Nat
    BY <1>1, FailuresFinite
  <1>4. CASE Len(all) > HistoryCap
    <2>1. Recorded(h, ok) = Tail(all)
      BY <1>4 DEF Recorded, all
    <2>2. /\ Tail(all) \in Seq(BOOLEAN) /\ Len(Tail(all)) = Len(all) - 1
          /\ FailedAttempts(Tail(all)) <= FailedAttempts(all) /\ FailedAttempts(Tail(all)) \in Nat
      BY <1>1, TailFailures, FailuresFinite
    <2> QED
      BY <1>1, <1>2, <1>3, <2>1, <2>2
  <1>5. CASE ~(Len(all) > HistoryCap)
    <2>1. Recorded(h, ok) = all
      BY <1>5 DEF Recorded, all
    <2> QED
      BY <1>1, <1>2, <1>3, <1>5, <2>1, HistoryAssumption
  <1> QED
    BY <1>4, <1>5

-----------------------------------------------------------------------------
(* A chain comes to rest.                                                  *)

\* Chain c of job j gives up its run or its timer, and waits for a timer or is
\* free; the pool agrees.
Settled(s, c, j, st, x, q) ==
    [pool |-> q, status |-> [s.status EXCEPT ![j] = st], chains |-> [s.chains EXCEPT ![c] = x]]

LEMMA Settles ==
    ASSUME NEW s, StateOK(s), NEW c \in Call, NEW j \in Job, s.chains[c].job = j,
           NEW st \in Status, NEW x \in {NoChain, RetryChain(j)}, NEW q, PoolInv(q), Queued(q),
           q.calls[c].phase = "out",
           \A d \in Call \ {c} : q.calls[d].phase = "out" <=> s.pool.calls[d].phase = "out",
           NEW t, t = Settled(s, c, j, st, x, q)
    PROVE  /\ StateOK(t)
           /\ t.status[j] = st /\ t.chains[c] = x
           /\ \A d \in Call \ {c} : t.chains[d] = s.chains[d]
           /\ \A k \in Job \ {j} : Same(s, t, k)
  <1>0. /\ s.status \in [Job -> Status]
        /\ s.chains \in [Call -> [job : Job \cup {NoJob}, armed : BOOLEAN]]
    BY DEF StateOK
  <1>1. /\ x \in [job : Job \cup {NoJob}, armed : BOOLEAN]
        /\ x.armed => x.job = j
        /\ ~x.armed => x.job = NoJob
        /\ \A k \in Job \ {j} : x.job # k
    <2>1. CASE x = NoChain
      BY <2>1, JobAssumption DEF NoChain
    <2>2. CASE x = RetryChain(j)
      BY <2>2 DEF RetryChain
    <2> QED
      BY <2>1, <2>2
  <1>2. /\ t = [pool |-> t.pool, status |-> t.status, chains |-> t.chains]
        /\ t.pool = q /\ t.status = [s.status EXCEPT ![j] = st]
        /\ t.chains = [s.chains EXCEPT ![c] = x]
    BY DEF Settled
  <1>3. /\ t.status \in [Job -> Status] /\ t.status[j] = st
        /\ \A k \in Job \ {j} : t.status[k] = s.status[k]
    BY <1>0, <1>2
  <1>4. /\ t.chains \in [Call -> [job : Job \cup {NoJob}, armed : BOOLEAN]] /\ t.chains[c] = x
        /\ \A d \in Call \ {c} : t.chains[d] = s.chains[d]
    BY <1>0, <1>1, <1>2
  <1>5. \A d \in Call : t.chains[d].armed => t.chains[d].job \in Job
    BY <1>1, <1>4 DEF StateOK
  <1>6. \A d \in Call : Flying(t, d) <=> t.pool.calls[d].phase # "out"
    <2> TAKE d \in Call
    <2>1. CASE d = c
      BY <1>1, <1>2, <1>4, <2>1, JobAssumption DEF Flying
    <2>2. CASE d # c
      BY <1>2, <1>4, <2>2 DEF StateOK, Flying
    <2> QED
      BY <2>1, <2>2
  <1>7. StateOK(t)
    BY <1>2, <1>3, <1>4, <1>5, <1>6 DEF StateOK
  <1>8. ASSUME NEW k \in Job \ {j} PROVE Same(s, t, k)
    <2>1. c \notin ChainsIn(s, k) /\ c \notin ChainsIn(t, k)
      BY <1>1, <1>4 DEF ChainsIn
    <2> QED
      BY <1>3, <1>4, <2>1 DEF Same, ChainsIn
  <1> QED
    BY <1>3, <1>4, <1>7, <1>8

-----------------------------------------------------------------------------
(* The invariant.                                                          *)

LEMMA InitScheduler == SchedulerInit => SchedulerInv
  <1> SUFFICES ASSUME SchedulerInit PROVE SchedulerInv
    OBVIOUS
  <1> DEFINE s == Now
  <1>1. s = [pool |-> pool, status |-> status, chains |-> chains]
    BY DEF Now
  <1>2. /\ PoolInv(pool) /\ Queued(pool) /\ \A c \in Call : pool.calls[c].phase = "out"
    <2>1. pool.waiters = << >> /\ \A c \in Call : pool.calls[c].phase = "out"
      BY DEF SchedulerInit, Init, EmptyPool, Out
    <2> QED
      BY <2>1, InitPool DEF SchedulerInit, PoolTypeInv, Queued, WaitingIn
  <1>3. /\ status = [j \in Job |-> "unregistered"] /\ chains = [c \in Call |-> NoChain]
        /\ registered = << >> /\ retryTimers = << >> /\ deadLetterQueue = {}
        /\ executionHistory = [j \in Job |-> << >>]
    BY DEF SchedulerInit
  <1> HIDE DEF s
  <1>4. StateOK(s)
    <2>1. chains \in [Call -> [job : Job \cup {NoJob}, armed : BOOLEAN]] /\ status \in [Job -> Status]
      BY <1>3 DEF NoChain, Status
    <2>2. \A c \in Call : ~chains[c].armed /\ chains[c].job \notin Job
      BY <1>3, JobAssumption DEF NoChain
    <2> QED
      BY <1>1, <1>2, <2>1, <2>2 DEF StateOK, Flying
  <1>5. InRegistry(s, registered)
    BY <1>1, <1>3 DEF InRegistry
  <1>6. ASSUME NEW j \in Job
        PROVE  JobSound(s, j, retryTimers, executionHistory, deadLetterQueue, meddled, stops)
    <2>1. ChainsIn(s, j) = {} /\ s.status[j] = "unregistered"
      BY <1>1, <1>3, JobAssumption DEF ChainsIn, NoChain
    <2>2. ~Spent(executionHistory[j], j)
      <3>1. FailuresIn(executionHistory[j]) = {}
        BY <1>3 DEF FailuresIn
      <3> QED
        BY <3>1, FS_EmptySet DEF Spent, FailedAttempts, FailuresIn
    <2>3. j \notin DOMAIN retryTimers /\ j \notin deadLetterQueue
      BY <1>3
    <2> QED
      BY <2>1, <2>2, <2>3 DEF JobSound
  <1>7. BooksTyped
    <2>1. \A j \in Job : executionHistory[j] = << >> /\ Len(executionHistory[j]) <= HistoryCap
      BY <1>3, HistoryAssumption
    <2>2. retryTimers \in [DOMAIN retryTimers -> Call] /\ DOMAIN retryTimers \subseteq Job
      BY <1>3
    <2>3. /\ executionHistory \in [Job -> Seq(BOOLEAN)] /\ registered \in Seq(Job)
          /\ deadLetterQueue \subseteq Job
      BY <1>3
    <2>4. /\ due \in [Job -> BOOLEAN] /\ running \in BOOLEAN /\ stops \in Nat /\ meddled \subseteq Job
      BY DEF SchedulerInit, Init
    <2> QED
      BY <2>1, <2>2, <2>3, <2>4 DEF BooksTyped
  <1> QED
    BY <1>4, <1>5, <1>6, <1>7 DEF SchedulerInv, Sound, s

\* The invariant, for a step that leaves the registry and the status of the
\* jobs in it, or out of it, as they are.
LEMMA RegistryKept ==
    ASSUME NEW s, NEW t, NEW r, InRegistry(s, r),
           \A j \in Job : t.status[j] = "unregistered" <=> s.status[j] = "unregistered"
    PROVE  InRegistry(t, r)
  BY DEF InRegistry

\* Steps of the pool alone: the scheduler starts, or a worker takes up a run.
LEMMA PoolStepKeeps ==
    ASSUME SchedulerInv, PoolInv(pool'), Queued(pool'),
           \A c \in Call : pool'.calls[c].phase = "out" <=> pool.calls[c].phase = "out",
           running' \in BOOLEAN, UNCHANGED stops, UNCHANGED <<jobVars, retryVars, chains, meddled>>
    PROVE  SchedulerInv'
  <1> DEFINE s == Now
             t == Now'
  <1>1. /\ s = [pool |-> pool, status |-> status, chains |-> chains]
        /\ t = [pool |-> pool', status |-> status, chains |-> chains]
    BY DEF Now, jobVars
  <1>2. Sound(s, registered, retryTimers, executionHistory, deadLetterQueue, meddled, stops)
    BY DEF SchedulerInv
  <1> HIDE DEF s, t
  <1>3. StateOK(t)
    BY <1>1, <1>2 DEF Sound, StateOK, Flying
  <1>4. \A j \in Job : Same(s, t, j)
    BY <1>1 DEF Same, ChainsIn
  <1>5. InRegistry(t, registered)
    BY <1>2, <1>4, RegistryKept DEF Sound, Same
  <1>6. ASSUME NEW j \in Job
        PROVE  JobSound(t, j, retryTimers, executionHistory, deadLetterQueue, meddled, stops)
    BY <1>2, <1>4, Elsewhere DEF Sound
  <1>7. Sound(t, registered, retryTimers, executionHistory, deadLetterQueue, meddled, stops)
    BY <1>3, <1>5, <1>6 DEF Sound
  <1>8. BooksTyped'
    BY DEF SchedulerInv, BooksTyped, jobVars, retryVars
  <1> QED
    BY <1>7, <1>8 DEF SchedulerInv, jobVars, retryVars, t

LEMMA StartSchedulerKeeps == SchedulerInv /\ StartScheduler => SchedulerInv'
  <1> SUFFICES ASSUME SchedulerInv, StartScheduler PROVE SchedulerInv'
    OBVIOUS
  <1>1. /\ pool' = StartWorkers(pool) /\ running' \in BOOLEAN /\ stops' = stops
        /\ UNCHANGED <<jobVars, retryVars, chains, meddled>>
    BY DEF StartScheduler, Start
  <1>2. PoolInv(pool) /\ Queued(pool)
    BY DEF SchedulerInv, Sound, StateOK, Now
  <1>3. /\ PoolInv(pool') /\ Queued(pool')
        /\ \A c \in Call : pool'.calls[c].phase = "out" <=> pool.calls[c].phase = "out"
    BY <1>1, <1>2, StartWorkersFacts, StartMoves, StartStopPhases
  <1> QED
    BY <1>1, <1>3, PoolStepKeeps

LEMMA RunBeginsKeeps ==
    ASSUME SchedulerInv, NEW c \in Call, RunBegins(c)
    PROVE  SchedulerInv'
  <1>1. /\ pool.calls[c].phase = "reserved" /\ pool' = Begin(pool, c) /\ running' = running
        /\ stops' = stops /\ UNCHANGED <<jobVars, retryVars, chains, meddled>>
    BY DEF RunBegins, Continue, history
  <1>2. PoolInv(pool) /\ Queued(pool) /\ running' \in BOOLEAN
    BY <1>1 DEF SchedulerInv, BooksTyped, Sound, StateOK, Now
  <1>3. /\ PoolInv(pool') /\ Queued(pool')
        /\ \A d \in Call : pool'.calls[d].phase = "out" <=> pool.calls[d].phase = "out"
    BY <1>1, <1>2, BeginFacts, BeginMoves, BeginPhases
  <1> QED
    BY <1>1, <1>2, <1>3, PoolStepKeeps

-----------------------------------------------------------------------------
(* Requests of the owner.                                                  *)

\* The status of one job is set, and nothing else of the triggers' state.
StatusTo(s, j, st) ==
    [pool |-> s.pool, status |-> [s.status EXCEPT ![j] = st], chains |-> s.chains]

LEMMA StatusSet ==
    ASSUME NEW s, StateOK(s), NEW j \in Job, NEW st \in Status, NEW t, t = StatusTo(s, j, st)
    PROVE  /\ StateOK(t)
           /\ t.status[j] = st /\ t.chains = s.chains
           /\ ChainsIn(t, j) = ChainsIn(s, j)
           /\ \A k \in Job \ {j} : Same(s, t, k)
  <1>1. /\ t = [pool |-> t.pool, status |-> t.status, chains |-> t.chains]
        /\ t.pool = s.pool /\ t.chains = s.chains /\ t.status = [s.status EXCEPT ![j] = st]
    BY DEF StatusTo
  <1>2. /\ t.status \in [Job -> Status] /\ t.status[j] = st
        /\ \A k \in Job \ {j} : t.status[k] = s.status[k]
    BY <1>1 DEF StateOK
  <1>3. StateOK(t)
    BY <1>1, <1>2 DEF StateOK, Flying
  <1>4. \A k \in Job : ChainsIn(t, k) = ChainsIn(s, k)
    BY <1>1 DEF ChainsIn
  <1> QED
    BY <1>1, <1>2, <1>3, <1>4 DEF Same

LEMMA RegisterJobKeeps ==
    ASSUME SchedulerInv, NEW j \in Job, RegisterJob(j)
    PROVE  SchedulerInv'
  <1> DEFINE s == Now
             t == Now'
             r == Append(registered, j)
  <1>1. /\ s = [pool |-> pool, status |-> status, chains |-> chains]
        /\ t = StatusTo(s, j, "pending")
    BY DEF Now, StatusTo, RegisterJob, vars
  <1>2. Sound(s, registered, retryTimers, executionHistory, deadLetterQueue, meddled, stops)
    BY DEF SchedulerInv
  <1>3. s.status[j] = "unregistered"
    BY DEF RegisterJob, Registered, Now
  <1>4. registered \in Seq(Job)
    BY DEF SchedulerInv, BooksTyped
  <1> HIDE DEF s, t
  <1>5. /\ StateOK(t)
        /\ t.status[j] = "pending" /\ t.chains = s.chains /\ ChainsIn(t, j) = ChainsIn(s, j)
        /\ \A k \in Job \ {j} : Same(s, t, k)
    <2>1. StateOK(s) /\ "pending" \in Status
      BY <1>2 DEF Sound, Status
    <2> QED
      BY <1>1, <2>1, StatusSet
  <1>6. InRegistry(t, r)
    <2>1. /\ DOMAIN r = DOMAIN registered \cup {Len(registered) + 1}
          /\ Len(registered) + 1 \notin DOMAIN registered
          /\ r[Len(registered) + 1] = j
          /\ \A i \in DOMAIN registered : r[i] = registered[i]
      BY <1>4
    <2>2. \A i \in DOMAIN registered : registered[i] # j
      BY <1>2, <1>3 DEF Sound, InRegistry
    <2> HIDE DEF r
    <2>3. \A i, k \in DOMAIN r : r[i] = r[k] => i = k
      <3> TAKE i, k \in DOMAIN r
      <3>1. CASE i \in DOMAIN registered /\ k \in DOMAIN registered
        BY <1>2, <2>1, <3>1 DEF Sound, InRegistry
      <3>2. CASE i \notin DOMAIN registered \/ k \notin DOMAIN registered
        BY <2>1, <2>2, <3>2
      <3> QED
        BY <3>1, <3>2
    <2>4. \A k \in Job : t.status[k] # "unregistered" <=> \E i \in DOMAIN r : r[i] = k
      <3> TAKE k \in Job
      <3>1. CASE k = j
        BY <1>5, <2>1, <3>1
      <3>2. CASE k # j
        <4>1. t.status[k] = s.status[k]
          BY <1>5, <3>2 DEF Same
        <4>2. s.status[k] # "unregistered" <=> \E i \in DOMAIN registered : registered[i] = k
          BY <1>2 DEF Sound, InRegistry
        <4> QED
          BY <2>1, <3>2, <4>1, <4>2
      <3> QED
        BY <3>1, <3>2
    <2> QED
      BY <2>3, <2>4 DEF InRegistry
  <1>7. ASSUME NEW k \in Job
        PROVE  JobSound(t, k, retryTimers, executionHistory, deadLetterQueue, meddled, stops)
    <2>1. JobSound(s, k, retryTimers, executionHistory, deadLetterQueue, meddled, stops)
      BY <1>2 DEF Sound
    <2>2. CASE k = j
      BY <1>3, <1>5, <2>1, <2>2 DEF JobSound
    <2>3. CASE k # j
      BY <1>5, <2>1, <2>3, Elsewhere
    <2> QED
      BY <2>2, <2>3
  <1>8. Sound(t, r, retryTimers, executionHistory, deadLetterQueue, meddled, stops)
    BY <1>5, <1>6, <1>7 DEF Sound
  <1>9. BooksTyped'
    BY <1>4 DEF RegisterJob, SchedulerInv, BooksTyped, vars, history, retryVars
  <1> QED
    BY <1>8, <1>9 DEF SchedulerInv, RegisterJob, vars, history, retryVars, t

LEMMA PauseJobKeeps ==
    ASSUME SchedulerInv, NEW j \in Job, PauseJob(j)
    PROVE  SchedulerInv'
  <1> DEFINE s == Now
             t == Now'
  <1>1. /\ s = [pool |-> pool, status |-> status, chains |-> chains]
        /\ t = StatusTo(s, j, "paused")
    BY DEF Now, StatusTo, PauseJob, vars
  <1>2. Sound(s, registered, retryTimers, executionHistory, deadLetterQueue, meddled, stops)
    BY DEF SchedulerInv
  <1>3. s.status[j] # "unregistered"
    BY DEF PauseJob, Registered, Now
  <1> HIDE DEF s, t
  <1>5. /\ StateOK(t)
        /\ t.status[j] = "paused" /\ t.chains = s.chains /\ ChainsIn(t, j) = ChainsIn(s, j)
        /\ \A k \in Job \ {j} : Same(s, t, k)
    <2>1. StateOK(s) /\ "paused" \in Status
      BY <1>2 DEF Sound, Status
    <2> QED
      BY <1>1, <2>1, StatusSet
  <1>6. InRegistry(t, registered)
    BY <1>2, <1>3, <1>5, RegistryKept DEF Sound, Same
  <1>7. ASSUME NEW k \in Job
        PROVE  JobSound(t, k, retryTimers, executionHistory, deadLetterQueue, meddled, stops)
    <2>1. JobSound(s, k, retryTimers, executionHistory, deadLetterQueue, meddled, stops)
      BY <1>2 DEF Sound
    <2>2. CASE k = j
      BY <1>3, <1>5, <2>1, <2>2 DEF JobSound
    <2>3. CASE k # j
      BY <1>5, <2>1, <2>3, Elsewhere
    <2> QED
      BY <2>2, <2>3
  <1>8. Sound(t, registered, retryTimers, executionHistory, deadLetterQueue, meddled, stops)
    BY <1>5, <1>6, <1>7 DEF Sound
  <1>9. BooksTyped'
    BY DEF PauseJob, SchedulerInv, BooksTyped, vars, history, retryVars
  <1> QED
    BY <1>8, <1>9 DEF SchedulerInv, PauseJob, vars, history, retryVars, t

LEMMA ResumeJobKeeps ==
    ASSUME SchedulerInv, NEW j \in Job, ResumeJob(j)
    PROVE  SchedulerInv'
  <1> DEFINE s == Now
             t == Now'
             m == meddled \cup {j}
  <1>1. /\ s = [pool |-> pool, status |-> status, chains |-> chains]
        /\ t = StatusTo(s, j, "pending")
    BY DEF Now, StatusTo, ResumeJob, vars
  <1>2. Sound(s, registered, retryTimers, executionHistory, deadLetterQueue, meddled, stops)
    BY DEF SchedulerInv
  <1>3. s.status[j] = "paused"
    BY DEF ResumeJob, Now
  <1> HIDE DEF s, t
  <1>5. /\ StateOK(t)
        /\ t.status[j] = "pending" /\ t.chains = s.chains /\ ChainsIn(t, j) = ChainsIn(s, j)
        /\ \A k \in Job \ {j} : Same(s, t, k)
    <2>1. StateOK(s) /\ "pending" \in Status
      BY <1>2 DEF Sound, Status
    <2> QED
      BY <1>1, <2>1, StatusSet
  <1>6. InRegistry(t, registered)
    BY <1>2, <1>3, <1>5, RegistryKept DEF Sound, Same
  <1>7. ASSUME NEW k \in Job
        PROVE  JobSound(t, k, retryTimers, executionHistory, deadLetterQueue, m, stops)
    <2>1. JobSound(s, k, retryTimers, executionHistory, deadLetterQueue, meddled, stops)
      BY <1>2 DEF Sound
    <2>2. CASE k = j
      BY <1>3, <1>5, <2>1, <2>2 DEF JobSound
    <2>3. CASE k # j
      BY <1>5, <2>1, <2>3, Elsewhere
    <2> QED
      BY <2>2, <2>3
  <1>8. Sound(t, registered, retryTimers, executionHistory, deadLetterQueue, m, stops)
    BY <1>5, <1>6, <1>7 DEF Sound
  <1>9. BooksTyped'
    <2>1. due' \in [Job -> BOOLEAN]
      <3>1. due' = [due EXCEPT ![j] = due[j] /\ ~JobDef[j].cron] /\ due \in [Job -> BOOLEAN]
        BY DEF ResumeJob, SchedulerInv, BooksTyped
      <3>2. (due[j] /\ ~JobDef[j].cron) \in BOOLEAN
        OBVIOUS
      <3> QED
        BY <3>1, <3>2
    <2> QED
      BY <2>1 DEF ResumeJob, SchedulerInv, BooksTyped, vars, history, retryVars
  <1> QED
    BY <1>8, <1>9 DEF SchedulerInv, ResumeJob, vars, history, retryVars, t

LEMMA RetryFromDlqKeeps ==
    ASSUME SchedulerInv, NEW j \in Job, RetryFromDlq(j)
    PROVE  SchedulerInv'
  <1> DEFINE s == Now
             t == Now'
             m == meddled \cup {j}
             d == deadLetterQueue \ {j}
             h == [executionHistory EXCEPT ![j] = << >>]
  <1>1. /\ s = [pool |-> pool, status |-> status, chains |-> chains]
        /\ t = StatusTo(s, j, "pending")
    BY DEF Now, StatusTo, RetryFromDlq, vars
  <1>2. Sound(s, registered, retryTimers, executionHistory, deadLetterQueue, meddled, stops)
    BY DEF SchedulerInv
  <1>3. s.status[j] # "unregistered"
    <2>1. j \in deadLetterQueue
      BY DEF RetryFromDlq
    <2> QED
      BY <1>2, <2>1 DEF Sound, JobSound
  <1>4. executionHistory \in [Job -> Seq(BOOLEAN)] /\ \A k \in Job : Len(executionHistory[k]) <= HistoryCap
    BY DEF SchedulerInv, BooksTyped
  <1>h. /\ \A k \in Job \ {j} : h[k] = executionHistory[k]
        /\ h \in [Job -> Seq(BOOLEAN)] /\ \A k \in Job : Len(h[k]) <= HistoryCap
    <2>1. << >> \in Seq(BOOLEAN) /\ Len(<< >>) <= HistoryCap
      BY HistoryAssumption
    <2>2. h[j] = << >> /\ \A k \in Job \ {j} : h[k] = executionHistory[k]
      BY <1>4
    <2>3. h \in [Job -> Seq(BOOLEAN)]
      BY <1>4, <2>1
    <2> HIDE DEF h
    <2> QED
      BY <1>4, <2>1, <2>2, <2>3
  <1> HIDE DEF s, t, h
  <1>5. /\ StateOK(t)
        /\ t.status[j] = "pending" /\ t.chains = s.chains /\ ChainsIn(t, j) = ChainsIn(s, j)
        /\ \A k \in Job \ {j} : Same(s, t, k)
    <2>1. StateOK(s) /\ "pending" \in Status
      BY <1>2 DEF Sound, Status
    <2> QED
      BY <1>1, <2>1, StatusSet
  <1>6. InRegistry(t, registered)
    BY <1>2, <1>3, <1>5, RegistryKept DEF Sound, Same
  <1>7. ASSUME NEW k \in Job
        PROVE  JobSound(t, k, retryTimers, h, d, m, stops)
    <2>1. JobSound(s, k, retryTimers, executionHistory, deadLetterQueue, meddled, stops)
      BY <1>2 DEF Sound
    <2>2. CASE k = j
      BY <1>3, <1>5, <2>1, <2>2 DEF JobSound
    <2>3. CASE k # j
      BY <1>h, <1>5, <2>1, <2>3, Elsewhere
    <2> QED
      BY <2>2, <2>3
  <1>8. Sound(t, registered, retryTimers, h, d, m, stops)
    BY <1>5, <1>6, <1>7 DEF Sound
  <1>9. executionHistory' = h
    BY DEF RetryFromDlq, h
  <1>10. BooksTyped'
    BY <1>h, <1>9 DEF RetryFromDlq, SchedulerInv, BooksTyped, vars, history
  <1> QED
    BY <1>8, <1>9, <1>10 DEF SchedulerInv, RetryFromDlq, vars, history, t

\* A timer that cancelJob() clears takes its chain with it.
LEMMA CancelJobKeeps ==
    ASSUME SchedulerInv, NEW j \in Job, CancelJob(j)
    PROVE  SchedulerInv'
  <1> DEFINE s == Now
             t == Now'
             u == retryTimers'
  <1>1. s = [pool |-> pool, status |-> status, chains |-> chains]
    BY DEF Now
  <1>2. /\ Sound(s, registered, retryTimers, executionHistory, deadLetterQueue, meddled, stops)
        /\ BooksTyped
    BY DEF SchedulerInv
  <1>3. s.status[j] # "unregistered" /\ "cancelled" \in Status /\ StateOK(s)
    BY <1>2 DEF CancelJob, Registered, Now, Sound, Status
  <1>4. JobSound(s, j, retryTimers, executionHistory, deadLetterQueue, meddled, stops)
    BY <1>2 DEF Sound
  <1>5. /\ StateOK(t) /\ t.status[j] = "cancelled" /\ \A k \in Job \ {j} : Same(s, t, k)
        /\ ChainsIn(t, j) \subseteq ChainsIn(s, j)
        /\ \A c \in ChainsIn(t, j) :
             t.chains[c] = s.chains[c] /\ ~(j \in DOMAIN retryTimers /\ retryTimers[j] = c)
        /\ j \notin DOMAIN u /\ DOMAIN u \subseteq DOMAIN retryTimers
        /\ \A k \in Job \ {j} : /\ k \in DOMAIN u <=> k \in DOMAIN retryTimers
                                /\ k \in DOMAIN u => u[k] = retryTimers[k]
    <2>1. CASE j \in DOMAIN retryTimers
      <3> DEFINE c == retryTimers[j]
      <3>1. /\ chains' = [chains EXCEPT ![c] = NoChain] /\ u = Without(retryTimers, j)
            /\ pool' = pool /\ status' = [status EXCEPT ![j] = "cancelled"]
        BY <2>1 DEF CancelJob, vars
      <3>2. t = Settled(s, c, j, "cancelled", NoChain, s.pool)
        BY <1>1, <3>1 DEF Settled, Now
      <3> HIDE DEF s, t, u
      <3>3. c \in Call /\ s.chains[c].job = j /\ s.chains[c].armed
        BY <1>4, <2>1 DEF JobSound, ChainsIn
      <3> HIDE DEF c
      <3>4. s.pool.calls[c].phase = "out"
        BY <1>3, <3>3 DEF StateOK, Flying
      <3>5. /\ StateOK(t) /\ t.status[j] = "cancelled" /\ t.chains[c] = NoChain
            /\ \A d \in Call \ {c} : t.chains[d] = s.chains[d]
            /\ \A k \in Job \ {j} : Same(s, t, k)
        <4>1. PoolInv(s.pool) /\ Queued(s.pool)
          BY <1>3 DEF StateOK
        <4> QED
          BY <1>3, <3>2, <3>3, <3>4, <4>1, Settles
      <3>6. \A d \in ChainsIn(t, j) : d # c
        BY <3>5, JobAssumption DEF ChainsIn, NoChain
      <3>7. /\ ChainsIn(t, j) \subseteq ChainsIn(s, j)
            /\ \A d \in ChainsIn(t, j) : t.chains[d] = s.chains[d]
        BY <3>5, <3>6 DEF ChainsIn
      <3>8. /\ j \notin DOMAIN u /\ DOMAIN u \subseteq DOMAIN retryTimers
            /\ \A k \in Job \ {j} : /\ k \in DOMAIN u <=> k \in DOMAIN retryTimers
                                    /\ k \in DOMAIN u => u[k] = retryTimers[k]
        BY <3>1 DEF Without
      <3> QED
        BY <3>5, <3>6, <3>7, <3>8 DEF c
    <2>2. CASE j \notin DOMAIN retryTimers
      <3>1. /\ chains' = chains /\ u = retryTimers
            /\ pool' = pool /\ status' = [status EXCEPT ![j] = "cancelled"]
        BY <2>2 DEF CancelJob, vars
      <3>2. t = StatusTo(s, j, "cancelled")
        BY <1>1, <3>1 DEF StatusTo, Now
      <3> HIDE DEF s, t, u
      <3>3. /\ StateOK(t) /\ t.status[j] = "cancelled" /\ t.chains = s.chains
            /\ ChainsIn(t, j) = ChainsIn(s, j) /\ \A k \in Job \ {j} : Same(s, t, k)
        BY <1>3, <3>2, StatusSet
      <3> QED
        BY <2>2, <3>1, <3>3
    <2> QED
      BY <2>1, <2>2
  <1> HIDE DEF s, t
  <1>6. InRegistry(t, registered)
    BY <1>2, <1>3, <1>5, RegistryKept DEF Sound, Same
  <1>7. ASSUME NEW k \in Job
        PROVE  JobSound(t, k, u, executionHistory, deadLetterQueue, meddled, stops)
    <2>1. JobSound(s, k, retryTimers, executionHistory, deadLetterQueue, meddled, stops)
      BY <1>2 DEF Sound
    <2> HIDE DEF u
    <2>2. CASE k = j
      BY <1>3, <1>5, <2>1, <2>2 DEF JobSound
    <2>3. CASE k # j
      <3>1. /\ Same(s, t, k)
            /\ k \in DOMAIN u <=> k \in DOMAIN retryTimers
            /\ k \in DOMAIN retryTimers => u[k] = retryTimers[k]
        BY <1>5, <2>3
      <3> QED
        BY <2>1, <3>1, Elsewhere
    <2> QED
      BY <2>2, <2>3
  <1>8. Sound(t, registered, u, executionHistory, deadLetterQueue, meddled, stops)
    BY <1>5, <1>6, <1>7 DEF Sound
  <1>9. DOMAIN u \subseteq Job /\ u \in [DOMAIN u -> Call]
    <2>1. DOMAIN retryTimers \subseteq Job /\ retryTimers \in [DOMAIN retryTimers -> Call]
      BY <1>2 DEF BooksTyped
    <2>2. u = retryTimers \/ u = Without(retryTimers, j)
      BY DEF CancelJob
    <2> HIDE DEF u
    <2>3. Without(retryTimers, j) = [k \in DOMAIN retryTimers \ {j} |-> retryTimers[k]]
      BY DEF Without
    <2> QED
      BY <2>1, <2>2, <2>3
  <1>10. BooksTyped'
    BY <1>2, <1>9 DEF CancelJob, BooksTyped, vars, history
  <1> QED
    BY <1>8, <1>10 DEF SchedulerInv, CancelJob, vars, history, t

\* stop() clears every timer it knows of.
LEMMA StopSchedulerKeeps == SchedulerInv /\ StopScheduler => SchedulerInv'
  <1> SUFFICES ASSUME SchedulerInv, StopScheduler PROVE SchedulerInv'
    OBVIOUS
  <1> DEFINE s == Now
             t == Now'
             Cleared == {c \in Call : \E j \in DOMAIN retryTimers : retryTimers[j] = c}
  <1>1. /\ s = [pool |-> pool, status |-> status, chains |-> chains]
        /\ t = [pool |-> pool', status |-> status, chains |-> chains']
    BY DEF Now, StopScheduler, jobVars
  <1>2. /\ Sound(s, registered, retryTimers, executionHistory, deadLetterQueue, meddled, stops)
        /\ BooksTyped
    BY DEF SchedulerInv
  <1>3. /\ chains' = [c \in Call |-> IF c \in Cleared THEN NoChain ELSE chains[c]]
        /\ retryTimers' = << >> /\ pool' = StopWorkers(pool) /\ stops' = stops + 1 /\ stops \in Nat
        /\ running' = FALSE
    BY <1>2 DEF StopScheduler, Stop, BooksTyped
  <1> HIDE DEF s, t
  <1>4. PoolInv(pool') /\ Queued(pool') /\ pool'.calls = pool.calls
    <2>1. PoolInv(pool) /\ Queued(pool)
      BY <1>1, <1>2 DEF Sound, StateOK
    <2> QED
      BY <1>3, <2>1, StopWorkersFacts, StopMoves, StartStopPhases
  <1>5. \A c \in Cleared : s.chains[c].armed
    BY <1>2 DEF Sound, JobSound, BooksTyped
  <1>6. \A c \in Call : t.chains[c] = IF c \in Cleared THEN NoChain ELSE s.chains[c]
    <2> HIDE DEF Cleared
    <2> QED
      BY <1>1, <1>3
  <1>7. \A j \in Job : ChainsIn(t, j) = ChainsIn(s, j) \ Cleared
    BY <1>6, JobAssumption DEF ChainsIn, NoChain
  <1>8. StateOK(t)
    <2> HIDE DEF Cleared
    <2>1. StateOK(s)
      BY <1>2 DEF Sound
    <2>2. t.chains \in [Call -> [job : Job \cup {NoJob}, armed : BOOLEAN]]
      <3>1. NoChain \in [job : Job \cup {NoJob}, armed : BOOLEAN]
        BY DEF NoChain
      <3> QED
        BY <1>1, <1>3, <2>1, <3>1 DEF StateOK
    <2>3. \A c \in Call : t.chains[c].armed => t.chains[c].job \in Job
      BY <1>6, <2>1 DEF StateOK, NoChain
    <2>4. \A c \in Call : Flying(t, c) <=> t.pool.calls[c].phase # "out"
      <3> TAKE c \in Call
      <3>1. t.pool.calls[c] = s.pool.calls[c]
        BY <1>1, <1>4
      <3>2. CASE c \in Cleared
        BY <1>5, <1>6, <2>1, <3>1, <3>2, JobAssumption DEF StateOK, Flying, NoChain
      <3>3. CASE c \notin Cleared
        BY <1>6, <2>1, <3>1, <3>3 DEF StateOK, Flying
      <3> QED
        BY <3>2, <3>3
    <2> QED
      BY <1>1, <1>4, <2>1, <2>2, <2>3, <2>4 DEF StateOK
  <1>9. InRegistry(t, registered)
    BY <1>1, <1>2 DEF Sound, InRegistry
  <1>10. ASSUME NEW j \in Job
         PROVE  JobSound(t, j, << >>, executionHistory, deadLetterQueue, meddled, stops + 1)
    <2>1. JobSound(s, j, retryTimers, executionHistory, deadLetterQueue, meddled, stops)
      BY <1>2 DEF Sound
    <2>2. t.status[j] = s.status[j] /\ j \notin DOMAIN << >> /\ stops + 1 # 0
      BY <1>1, <1>3
    <2>3. \A c \in ChainsIn(t, j) : c \in ChainsIn(s, j) /\ c \notin Cleared /\ t.chains[c] = s.chains[c]
      BY <1>6, <1>7 DEF ChainsIn
    <2>4. \A c \in ChainsIn(s, j) : ~s.chains[c].armed => c \in ChainsIn(t, j)
      BY <1>5, <1>7
    <2>5. \A c \in ChainsIn(t, j) : ~(j \in DOMAIN retryTimers /\ retryTimers[j] = c)
      BY <2>3 DEF ChainsIn
    <2> HIDE DEF Cleared
    <2>6. \A c \in ChainsIn(t, j) : t.chains[c].armed => j \in meddled
      BY <2>1, <2>3, <2>5 DEF JobSound
    <2> QED
      BY <2>1, <2>2, <2>3, <2>4, <2>6 DEF JobSound
  <1>11. Sound(t, registered, << >>, executionHistory, deadLetterQueue, meddled, stops + 1)
    BY <1>8, <1>9, <1>10 DEF Sound
  <1>12. BooksTyped'
    <2>1. stops' \in Nat /\ retryTimers' \in [DOMAIN retryTimers' -> Call] /\ DOMAIN retryTimers' \subseteq Job
      BY <1>3
    <2> QED
      BY <1>2, <1>3, <2>1 DEF StopScheduler, BooksTyped, jobVars
  <1> QED
    BY <1>3, <1>11, <1>12 DEF SchedulerInv, StopScheduler, jobVars, t

\* The owner triggers a job: from then on it may have two chains.
LEMMA TriggerJobManuallyKeeps ==
    ASSUME SchedulerInv, NEW j \in Job, TriggerJobManually(j)
    PROVE  SchedulerInv'
  <1> DEFINE s == Now
             t == Now'
             m == meddled \cup {j}
  <1>1. /\ Sound(s, registered, retryTimers, executionHistory, deadLetterQueue, meddled, stops)
        /\ BooksTyped
    BY DEF SchedulerInv
  <1>2. s.status[j] # "unregistered"
    BY DEF TriggerJobManually, Registered, Now
  <1>3. FreeChains(s) # {}
    <2>1. Cardinality(FreeChains(s)) >= Cardinality({j})
      BY DEF TriggerJobManually, Room
    <2>2. Cardinality({j}) = 1 /\ Cardinality({}) = 0
      BY FS_Singleton, FS_EmptySet
    <2> QED
      BY <2>1, <2>2
  <1> DEFINE u == Launch(s, j)
  <1>4. pool' = u.pool /\ status' = u.status /\ chains' = u.chains
    BY DEF TriggerJobManually, Become
  <1>t. t = [pool |-> u.pool, status |-> u.status, chains |-> u.chains]
    BY <1>4 DEF Now
  <1> HIDE DEF s, t
  <1>5. Sound(s, registered, retryTimers, executionHistory, deadLetterQueue, m, stops)
    <2>1. ASSUME NEW k \in Job
          PROVE  JobSound(s, k, retryTimers, executionHistory, deadLetterQueue, m, stops)
      <3>1. JobSound(s, k, retryTimers, executionHistory, deadLetterQueue, meddled, stops) /\ Same(s, s, k)
        BY <1>1 DEF Sound, Same
      <3> QED
        BY <3>1, Elsewhere
    <2> QED
      BY <1>1, <2>1 DEF Sound
  <1>6. Sound(u, registered, retryTimers, executionHistory, deadLetterQueue, m, stops)
    <2>1. j \in m
      OBVIOUS
    <2> HIDE DEF m
    <2> QED
      BY <1>2, <1>3, <1>5, <2>1, LaunchSound
  <1> HIDE DEF u
  <1>7. t = u
    BY <1>6, <1>t DEF Sound, StateOK
  <1>8. BooksTyped'
    BY <1>1 DEF TriggerJobManually, BooksTyped, history, retryVars
  <1> QED
    BY <1>6, <1>7, <1>8 DEF SchedulerInv, TriggerJobManually, history, retryVars, t

LEMMA ComesDueKeeps ==
    ASSUME SchedulerInv, NEW j \in Job, ComesDue(j)
    PROVE  SchedulerInv'
  <1>1. Now' = Now
    BY DEF Now, ComesDue, vars
  <1>2. due' \in [Job -> BOOLEAN]
    BY DEF SchedulerInv, BooksTyped, ComesDue
  <1> QED
    BY <1>1, <1>2 DEF SchedulerInv, BooksTyped, ComesDue, vars, history, retryVars

-----------------------------------------------------------------------------
(* Triggers of the schedule and of events, and the sweep of the history.   *)

LEMMA TriggerAllKeeps ==
    ASSUME SchedulerInv, NEW js \in SUBSET Job, \A j \in js : Triggerable(Now, j), TriggerAll(Now, js),
           UNCHANGED <<running, history, registered, due, retryVars, meddled>>
    PROVE  SchedulerInv'
  <1>1. /\ Sound(Now, registered, retryTimers, executionHistory, deadLetterQueue, meddled, stops)
        /\ registered \in Seq(Job) /\ \A j \in js : Now.status[j] = "pending"
    BY DEF SchedulerInv, BooksTyped, Triggerable
  <1>2. Sound(Now', registered, retryTimers, executionHistory, deadLetterQueue, meddled, stops)
    BY <1>1, TriggersSound
  <1>3. BooksTyped'
    BY DEF SchedulerInv, BooksTyped, history, retryVars
  <1> QED
    BY <1>2, <1>3 DEF SchedulerInv, history, retryVars

LEMMA TickCronKeeps == SchedulerInv /\ TickCron => SchedulerInv'
  <1> SUFFICES ASSUME SchedulerInv, TickCron PROVE SchedulerInv'
    OBVIOUS
  <1> DEFINE js == {j \in Job : Triggerable(Now, j) /\ due[j]}
  <1>1. /\ js \in SUBSET Job /\ \A j \in js : Triggerable(Now, j)
        /\ TriggerAll(Now, js)
        /\ UNCHANGED <<running, history, registered, due, retryVars, meddled>>
    BY DEF TickCron
  <1> HIDE DEF js
  <1> QED
    BY <1>1, TriggerAllKeeps

LEMMA ExternalEventKeeps ==
    ASSUME SchedulerInv, NEW topic, ExternalEvent(topic)
    PROVE  SchedulerInv'
  <1> DEFINE js == Subscribed(Now, topic)
  <1>1. /\ js \in SUBSET Job /\ \A j \in js : Triggerable(Now, j)
        /\ TriggerAll(Now, js)
        /\ UNCHANGED <<running, history, registered, due, retryVars, meddled>>
    BY DEF ExternalEvent, Publish, Subscribed
  <1> HIDE DEF js
  <1> QED
    BY <1>1, TriggerAllKeeps

LEMMA SweepKeeps ==
    ASSUME SchedulerInv, NEW j \in Job, SweepExecutionHistory(j)
    PROVE  SchedulerInv'
  <1> DEFINE s == Now
             h == [executionHistory EXCEPT ![j] = Tail(executionHistory[j])]
  <1>1. /\ Sound(s, registered, retryTimers, executionHistory, deadLetterQueue, meddled, stops)
        /\ BooksTyped
    BY DEF SchedulerInv
  <1>2. Now' = Now /\ executionHistory' = h /\ executionHistory[j] # << >>
    BY DEF Now, SweepExecutionHistory, vars, jobVars
  <1>3. executionHistory \in [Job -> Seq(BOOLEAN)] /\ \A k \in Job : Len(executionHistory[k]) <= HistoryCap
    BY <1>1 DEF BooksTyped
  <1>4. /\ h \in [Job -> Seq(BOOLEAN)] /\ \A k \in Job \ {j} : h[k] = executionHistory[k]
        /\ FailedAttempts(h[j]) <= FailedAttempts(executionHistory[j])
        /\ FailedAttempts(h[j]) \in Nat /\ FailedAttempts(executionHistory[j]) \in Nat
        /\ Len(h[j]) = Len(executionHistory[j]) - 1
    <2>1. /\ Tail(executionHistory[j]) \in Seq(BOOLEAN)
          /\ FailedAttempts(Tail(executionHistory[j])) <= FailedAttempts(executionHistory[j])
          /\ Len(Tail(executionHistory[j])) = Len(executionHistory[j]) - 1
      BY <1>2, <1>3, TailFailures
    <2>2. /\ FailedAttempts(Tail(executionHistory[j])) \in Nat
          /\ FailedAttempts(executionHistory[j]) \in Nat
      BY <1>3, <2>1, FailuresFinite
    <2>3. h[j] = Tail(executionHistory[j])
      BY <1>3
    <2> QED
      BY <1>3, <2>1, <2>2, <2>3
  <1> HIDE DEF s, h
  <1>5. ASSUME NEW k \in Job
        PROVE  JobSound(s, k, retryTimers, h, deadLetterQueue, meddled, stops)
    <2>1. JobSound(s, k, retryTimers, executionHistory, deadLetterQueue, meddled, stops)
      BY <1>1 DEF Sound
    <2>2. Spent(h[k], k) => Spent(executionHistory[k], k)
      <3>1. JobDef[k].maxRetries \in Nat
        BY JobAssumption
      <3>2. CASE k = j
        BY <1>4, <3>1, <3>2 DEF Spent
      <3>3. CASE k # j
        BY <1>4, <3>3
      <3> QED
        BY <3>2, <3>3
    <2> QED
      BY <2>1, <2>2 DEF JobSound
  <1>6. Sound(s, registered, retryTimers, h, deadLetterQueue, meddled, stops)
    BY <1>1, <1>5 DEF Sound
  <1>7. \A k \in Job : Len(h[k]) <= HistoryCap
    <2>1. Len(executionHistory[j]) \in Nat /\ HistoryCap \in Nat
      BY <1>3, HistoryAssumption
    <2>2. Len(h[j]) <= HistoryCap
      <3>1. Len(executionHistory[j]) <= HistoryCap
        BY <1>3
      <3> QED
        BY <1>4, <2>1, <3>1
    <2>3. \A k \in Job \ {j} : Len(h[k]) <= HistoryCap
      BY <1>3, <1>4
    <2> QED
      BY <2>2, <2>3
  <1>8. BooksTyped'
    BY <1>1, <1>2, <1>4, <1>7 DEF SweepExecutionHistory, BooksTyped, vars, history, jobVars
  <1> QED
    BY <1>2, <1>6, <1>8 DEF SchedulerInv, SweepExecutionHistory, vars, history, jobVars, s

-----------------------------------------------------------------------------
(* Runs.                                                                   *)

\* A retry timer of a job its owner has left alone belongs to the job's only
\* chain, which flies on.
LEMMA RetryTimerFiresKeeps ==
    ASSUME SchedulerInv, NEW c \in Call, RetryTimerFires(c)
    PROVE  SchedulerInv'
  <1> DEFINE s == Now
             t == Now'
             j == s.chains[c].job
             u == Without(retryTimers, j)
             x == RunAgain(s, c)
  <1>1. /\ Sound(s, registered, retryTimers, executionHistory, deadLetterQueue, meddled, stops)
        /\ BooksTyped
    BY DEF SchedulerInv
  <1>2. /\ s.chains[c].armed /\ retryTimers' = u
        /\ pool' = x.pool /\ status' = x.status /\ chains' = x.chains
    BY DEF RetryTimerFires, TimersAfter, Become, Now
  <1>3. t = [pool |-> x.pool, status |-> x.status, chains |-> x.chains]
    BY <1>2 DEF Now
  <1> HIDE DEF s, t
  <1>4. StateOK(s) /\ j \in Job
    BY <1>1, <1>2 DEF Sound, StateOK
  <1>5. /\ StateOK(x)
        /\ x.status = [s.status EXCEPT ![j] = "running"]
        /\ x.chains = [s.chains EXCEPT ![c] = [job |-> j, armed |-> FALSE]]
    <2>1. s.pool.calls[c].phase = "out"
      BY <1>2, <1>4 DEF StateOK, Flying
    <2>2. Ready(s, c)
      BY <1>4, <2>1 DEF StateOK, Ready
    <2> QED
      BY <2>2, RunAgainFacts
  <1> HIDE DEF x
  <1>6. t = x
    BY <1>3, <1>5 DEF StateOK
  <1>7. /\ t.status[j] = "running" /\ \A k \in Job \ {j} : t.status[k] = s.status[k]
        /\ t.chains[c] = [job |-> j, armed |-> FALSE] /\ t.chains[c].job = j /\ ~t.chains[c].armed
        /\ \A d \in Call \ {c} : t.chains[d] = s.chains[d]
    <2>1. s.status \in [Job -> Status] /\ s.chains \in [Call -> [job : Job \cup {NoJob}, armed : BOOLEAN]]
      BY <1>4 DEF StateOK
    <2>2. t.status[j] = "running" /\ \A k \in Job \ {j} : t.status[k] = s.status[k]
      BY <1>4, <1>5, <1>6, <2>1
    <2>3. t.chains[c] = [job |-> j, armed |-> FALSE] /\ \A d \in Call \ {c} : t.chains[d] = s.chains[d]
      BY <1>5, <1>6, <2>1
    <2> HIDE DEF j
    <2>4. t.chains[c].job = j /\ ~t.chains[c].armed
      BY <2>3
    <2> QED
      BY <2>2, <2>3, <2>4
  <1>8. \A k \in Job : ChainsIn(t, k) = ChainsIn(s, k)
    BY <1>7 DEF ChainsIn
  <1>9. /\ j \notin DOMAIN u /\ DOMAIN u \subseteq DOMAIN retryTimers
        /\ u \in [DOMAIN u -> Call] /\ DOMAIN u \subseteq Job
        /\ \A k \in Job \ {j} : /\ k \in DOMAIN u <=> k \in DOMAIN retryTimers
                                /\ k \in DOMAIN retryTimers => u[k] = retryTimers[k]
    <2>1. u = [k \in DOMAIN retryTimers \ {j} |-> retryTimers[k]]
      BY DEF Without
    <2>2. DOMAIN retryTimers \subseteq Job /\ retryTimers \in [DOMAIN retryTimers -> Call]
      BY <1>1 DEF BooksTyped
    <2> HIDE DEF u, j
    <2> QED
      BY <2>1, <2>2
  <1>10. s.status[j] # "unregistered"
    BY <1>1, <1>4 DEF Sound, JobSound, ChainsIn
  <1>11. InRegistry(t, registered)
    BY <1>1, <1>7, <1>10 DEF Sound, InRegistry
  <1>12. ASSUME NEW k \in Job
         PROVE  JobSound(t, k, u, executionHistory, deadLetterQueue, meddled, stops)
    <2>1. JobSound(s, k, retryTimers, executionHistory, deadLetterQueue, meddled, stops)
      BY <1>1 DEF Sound
    <2>2. CASE k = j
      <3>1. c \in ChainsIn(s, k) /\ ChainsIn(t, k) = ChainsIn(s, k) /\ t.status[k] = "running"
        BY <1>4, <1>7, <1>8, <2>2 DEF ChainsIn
      <3>2. k \notin DOMAIN u /\ ~t.chains[c].armed
        BY <1>7, <1>9, <2>2
      <3> HIDE DEF u, j
      <3> QED
        BY <2>1, <3>1, <3>2 DEF JobSound
    <2>3. CASE k # j
      <3>1. /\ Same(s, t, k)
            /\ k \in DOMAIN u <=> k \in DOMAIN retryTimers
            /\ k \in DOMAIN retryTimers => u[k] = retryTimers[k]
        <4>1. c \notin ChainsIn(s, k)
          BY <2>3 DEF ChainsIn
        <4>2. \A d \in ChainsIn(s, k) : t.chains[d] = s.chains[d]
          BY <1>7, <4>1 DEF ChainsIn
        <4> QED
          BY <1>7, <1>8, <1>9, <2>3, <4>2 DEF Same
      <3> HIDE DEF u, j
      <3> QED
        BY <2>1, <3>1, Elsewhere
    <2> QED
      BY <2>2, <2>3
  <1>13. Sound(t, registered, u, executionHistory, deadLetterQueue, meddled, stops)
    BY <1>5, <1>6, <1>11, <1>12 DEF Sound
  <1>14. BooksTyped'
    BY <1>1, <1>2, <1>9 DEF RetryTimerFires, BooksTyped, history
  <1> QED
    BY <1>2, <1>13, <1>14 DEF SchedulerInv, RetryTimerFires, history, t

\* A run that ends gives its worker back.
LEMMA EndOfRun ==
    ASSUME NEW s, StateOK(s), NEW c \in Call, s.pool.calls[c].phase = "executing",
           NEW j, j = s.chains[c].job, NEW st \in Status, NEW x \in {NoChain, RetryChain(j)},
           NEW on \in BOOLEAN, NEW t, t = Settled(s, c, j, st, x, End(s.pool, c, on))
    PROVE  /\ j \in Job /\ c \in ChainsIn(s, j) /\ ~s.chains[c].armed
           /\ StateOK(t)
           /\ t.status[j] = st /\ t.chains[c] = x
           /\ \A d \in Call \ {c} : t.chains[d] = s.chains[d]
           /\ \A k \in Job \ {j} : Same(s, t, k)
  <1> DEFINE q == End(s.pool, c, on)
  <1>1. j \in Job /\ c \in ChainsIn(s, j) /\ ~s.chains[c].armed
    BY DEF StateOK, Flying, ChainsIn
  <1>2. PoolInv(s.pool) /\ Queued(s.pool)
    BY DEF StateOK
  <1>3. /\ PoolInv(q) /\ Queued(q) /\ q.calls[c].phase = "out"
        /\ \A d \in Call \ {c} : q.calls[d].phase = "out" <=> s.pool.calls[d].phase = "out"
    BY <1>2, EndFacts, EndMoves, EndPhases
  <1> HIDE DEF q
  <1>4. t = Settled(s, c, j, st, x, q)
    BY DEF q
  <1>5. /\ StateOK(t)
        /\ t.status[j] = st /\ t.chains[c] = x
        /\ \A d \in Call \ {c} : t.chains[d] = s.chains[d]
        /\ \A k \in Job \ {j} : Same(s, t, k)
    BY <1>1, <1>3, <1>4, Settles
  <1> QED
    BY <1>1, <1>5

\* The history of job j after one more record.
LEMMA RecordFacts ==
    ASSUME BooksTyped, NEW j \in Job, NEW ok \in BOOLEAN, Record(j, ok)
    PROVE  /\ executionHistory' \in [Job -> Seq(BOOLEAN)]
           /\ \A k \in Job : Len(executionHistory'[k]) <= HistoryCap
           /\ executionHistory'[j] = Recorded(executionHistory[j], ok)
           /\ \A k \in Job \ {j} : executionHistory'[k] = executionHistory[k]
           /\ FailedAttempts(executionHistory[j]) \in Nat /\ FailedAttempts(executionHistory'[j]) \in Nat
           /\ ok => FailedAttempts(executionHistory'[j]) <= FailedAttempts(executionHistory[j])
  <1> DEFINE r == Recorded(executionHistory[j], ok)
  <1>1. executionHistory \in [Job -> Seq(BOOLEAN)] /\ \A k \in Job : Len(executionHistory[k]) <= HistoryCap
    BY DEF BooksTyped
  <1>2. /\ r \in Seq(BOOLEAN) /\ Len(r) <= HistoryCap
        /\ ok => FailedAttempts(r) <= FailedAttempts(executionHistory[j])
    BY <1>1, RecordedFacts
  <1>3. FailedAttempts(r) \in Nat /\ FailedAttempts(executionHistory[j]) \in Nat
    BY <1>1, <1>2, FailuresFinite
  <1>4. executionHistory' = [executionHistory EXCEPT ![j] = r]
    BY DEF Record
  <1> HIDE DEF r
  <1>5. executionHistory'[j] = r /\ \A k \in Job \ {j} : executionHistory'[k] = executionHistory[k]
    BY <1>1, <1>4
  <1>6. executionHistory' \in [Job -> Seq(BOOLEAN)]
    BY <1>1, <1>2, <1>4
  <1> QED
    BY <1>1, <1>2, <1>3, <1>5, <1>6 DEF r

LEMMA RunSucceedsKeeps ==
    ASSUME SchedulerInv, NEW c \in Call, RunSucceeds(c)
    PROVE  SchedulerInv'
  <1> DEFINE s == Now
             j == s.chains[c].job
             t == AfterRun(c, NoChain, "pending")
             h == executionHistory'
  <1>1. /\ Sound(s, registered, retryTimers, executionHistory, deadLetterQueue, meddled, stops)
        /\ BooksTyped
    BY DEF SchedulerInv
  <1>2. /\ s.pool.calls[c].phase = "executing" /\ Record(j, TRUE) /\ Publish(t, "job_completed")
        /\ due' = [due EXCEPT ![j] = due[j] /\ ~(JobDef[j].cron \/ JobDef[j].interval)]
        /\ UNCHANGED <<running, history, registered, retryTimers, deadLetterQueue, meddled>>
    BY DEF RunSucceeds, Now
  <1>3. t = Settled(s, c, j, "pending", NoChain, End(s.pool, c, running))
    BY DEF AfterRun, Settled, Now
  <1> HIDE DEF s, t
  <1>4. StateOK(s) /\ running \in BOOLEAN /\ "pending" \in Status
    BY <1>1 DEF Sound, BooksTyped, Status
  <1>5. /\ j \in Job /\ c \in ChainsIn(s, j) /\ ~s.chains[c].armed
        /\ StateOK(t)
        /\ t.status[j] = "pending" /\ t.chains[c] = NoChain
        /\ \A d \in Call \ {c} : t.chains[d] = s.chains[d]
        /\ \A k \in Job \ {j} : Same(s, t, k)
    BY <1>2, <1>3, <1>4, EndOfRun
  <1> HIDE DEF j
  <1>6. /\ h \in [Job -> Seq(BOOLEAN)] /\ \A k \in Job : Len(h[k]) <= HistoryCap
        /\ \A k \in Job \ {j} : h[k] = executionHistory[k]
        /\ FailedAttempts(executionHistory[j]) \in Nat /\ FailedAttempts(h[j]) \in Nat
        /\ FailedAttempts(h[j]) <= FailedAttempts(executionHistory[j])
    BY <1>1, <1>2, <1>5, RecordFacts
  <1> HIDE DEF h
  <1>7. ChainsIn(t, j) = ChainsIn(s, j) \ {c} /\ \A d \in ChainsIn(t, j) : t.chains[d] = s.chains[d]
    BY <1>5, JobAssumption DEF ChainsIn, NoChain
  <1>8. InRegistry(t, registered)
    <2>1. s.status[j] # "unregistered"
      BY <1>1, <1>5 DEF Sound, JobSound
    <2> QED
      BY <1>1, <1>5, <2>1, RegistryKept DEF Sound, Same
  <1>9. ASSUME NEW k \in Job
        PROVE  JobSound(t, k, retryTimers, h, deadLetterQueue, meddled, stops)
    <2>1. JobSound(s, k, retryTimers, executionHistory, deadLetterQueue, meddled, stops)
      BY <1>1 DEF Sound
    <2>2. CASE k = j
      <3>1. j \notin meddled => ChainsIn(t, j) = {}
        BY <1>5, <1>7, <2>1, <2>2 DEF JobSound
      <3>2. j \notin meddled => ~Spent(h[j], j)
        <4>1. j \notin meddled => ~Spent(executionHistory[j], j)
          BY <1>5, <2>1, <2>2 DEF JobSound
        <4>2. JobDef[j].maxRetries \in Nat
          BY <1>5, JobAssumption
        <4> QED
          BY <1>6, <4>1, <4>2 DEF Spent
      <3>3. j \in DOMAIN retryTimers => retryTimers[j] \in ChainsIn(t, j) /\ t.chains[retryTimers[j]].armed
        BY <1>5, <1>7, <2>1, <2>2 DEF JobSound
      <3> QED
        BY <1>5, <2>2, <3>1, <3>2, <3>3 DEF JobSound
    <2>3. CASE k # j
      BY <1>5, <1>6, <2>1, <2>3, Elsewhere
    <2> QED
      BY <2>2, <2>3
  <1>10. Sound(t, registered, retryTimers, h, deadLetterQueue, meddled, stops)
    BY <1>5, <1>8, <1>9 DEF Sound
  <1>11. Sound(Now', registered, retryTimers, h, deadLetterQueue, meddled, stops)
    <2> DEFINE js == Subscribed(t, "job_completed")
    <2>1. js \in SUBSET Job /\ (\A k \in js : t.status[k] = "pending") /\ TriggerAll(t, js)
      BY <1>2 DEF Publish, Subscribed, Triggerable
    <2>2. registered \in Seq(Job)
      BY <1>1 DEF BooksTyped
    <2> HIDE DEF js
    <2> QED
      BY <1>10, <2>1, <2>2, TriggersSound
  <1>12. BooksTyped'
    <2>1. due' \in [Job -> BOOLEAN]
      <3>1. (due[j] /\ ~(JobDef[j].cron \/ JobDef[j].interval)) \in BOOLEAN
        OBVIOUS
      <3> QED
        BY <1>1, <1>2, <3>1 DEF BooksTyped
    <2> QED
      BY <1>1, <1>2, <1>6, <2>1 DEF BooksTyped, history, h
  <1> QED
    BY <1>2, <1>11, <1>12 DEF SchedulerInv, history, h

\* A run fails and is tried again later: its timer is the one of the job, and
\* there are attempts left.
LEMMA RunFailsKeeps ==
    ASSUME SchedulerInv, NEW c \in Call, RunFails(c)
    PROVE  SchedulerInv'
  <1> DEFINE s == Now
             j == s.chains[c].job
             t == AfterRun(c, RetryChain(j), "failed")
             h == executionHistory'
             u == retryTimers'
  <1>1. /\ Sound(s, registered, retryTimers, executionHistory, deadLetterQueue, meddled, stops)
        /\ BooksTyped
    BY DEF SchedulerInv
  <1>2. /\ s.pool.calls[c].phase = "executing" /\ Record(j, FALSE) /\ Publish(t, "job_failed")
        /\ ~Exhausted(j, Recorded(executionHistory[j], FALSE))
        /\ u = [k \in DOMAIN retryTimers \cup {j} |-> IF k = j THEN c ELSE retryTimers[k]]
        /\ UNCHANGED <<running, history, registered, due, deadLetterQueue, meddled>>
    BY DEF RunFails, FailedStatus, Now
  <1>3. t = Settled(s, c, j, "failed", RetryChain(j), End(s.pool, c, running))
    BY DEF AfterRun, Settled, Now
  <1> HIDE DEF s, t
  <1>4. StateOK(s) /\ running \in BOOLEAN /\ "failed" \in Status
    BY <1>1 DEF Sound, BooksTyped, Status
  <1>5. /\ j \in Job /\ c \in ChainsIn(s, j) /\ ~s.chains[c].armed
        /\ StateOK(t)
        /\ t.status[j] = "failed" /\ t.chains[c] = RetryChain(j)
        /\ \A d \in Call \ {c} : t.chains[d] = s.chains[d]
        /\ \A k \in Job \ {j} : Same(s, t, k)
    BY <1>2, <1>3, <1>4, EndOfRun
  <1> HIDE DEF j
  <1>6. /\ h \in [Job -> Seq(BOOLEAN)] /\ \A k \in Job : Len(h[k]) <= HistoryCap
        /\ \A k \in Job \ {j} : h[k] = executionHistory[k]
        /\ h[j] = Recorded(executionHistory[j], FALSE) /\ FailedAttempts(h[j]) \in Nat
    BY <1>1, <1>2, <1>5, RecordFacts
  <1> HIDE DEF h, u
  <1>7. ChainsIn(t, j) = ChainsIn(s, j) /\ c \in Call /\ t.chains[c].armed
    BY <1>5 DEF ChainsIn, RetryChain
  <1>8. InRegistry(t, registered)
    <2>1. s.status[j] # "unregistered"
      BY <1>1, <1>5 DEF Sound, JobSound
    <2> QED
      BY <1>1, <1>5, <2>1, RegistryKept DEF Sound, Same
  <1>u. /\ j \in DOMAIN u /\ u[j] = c
        /\ \A k \in Job \ {j} : /\ k \in DOMAIN u <=> k \in DOMAIN retryTimers
                                /\ k \in DOMAIN retryTimers => u[k] = retryTimers[k]
        /\ DOMAIN u \subseteq Job /\ u \in [DOMAIN u -> Call]
    <2>1. DOMAIN retryTimers \subseteq Job /\ retryTimers \in [DOMAIN retryTimers -> Call]
      BY <1>1 DEF BooksTyped
    <2> QED
      BY <1>2, <1>5, <2>1
  <1>9. ASSUME NEW k \in Job
        PROVE  JobSound(t, k, u, h, deadLetterQueue, meddled, stops)
    <2>1. JobSound(s, k, retryTimers, executionHistory, deadLetterQueue, meddled, stops)
      BY <1>1 DEF Sound
    <2>2. CASE k = j
      <3>1. j \notin meddled => \A d \in ChainsIn(t, j) : d = c
        BY <1>5, <1>7, <2>1, <2>2 DEF JobSound
      <3>2. ~Spent(h[j], j)
        <4>1. JobDef[j].maxRetries \in Nat
          BY <1>5, JobAssumption
        <4> QED
          BY <1>2, <1>6, <4>1 DEF Spent, Exhausted
      <3> QED
        BY <1>5, <1>7, <1>u, <2>2, <3>1, <3>2 DEF JobSound
    <2>3. CASE k # j
      <3>1. /\ Same(s, t, k)
            /\ k \in DOMAIN u <=> k \in DOMAIN retryTimers
            /\ k \in DOMAIN retryTimers => u[k] = retryTimers[k]
            /\ h[k] = executionHistory[k]
        BY <1>5, <1>6, <1>u, <2>3
      <3> QED
        BY <2>1, <3>1, Elsewhere
    <2> QED
      BY <2>2, <2>3
  <1>10. Sound(t, registered, u, h, deadLetterQueue, meddled, stops)
    BY <1>5, <1>8, <1>9 DEF Sound
  <1>11. Sound(Now', registered, u, h, deadLetterQueue, meddled, stops)
    <2> DEFINE js == Subscribed(t, "job_failed")
    <2>1. js \in SUBSET Job /\ (\A k \in js : t.status[k] = "pending") /\ TriggerAll(t, js)
      BY <1>2 DEF Publish, Subscribed, Triggerable
    <2>2. registered \in Seq(Job)
      BY <1>1 DEF BooksTyped
    <2> HIDE DEF js
    <2> QED
      BY <1>10, <2>1, <2>2, TriggersSound
  <1>12. BooksTyped'
    BY <1>1, <1>2, <1>6, <1>u DEF BooksTyped, history, h, u
  <1> QED
    BY <1>2, <1>11, <1>12 DEF SchedulerInv, history, h, u

\* The last attempt fails: the job is dead, and nothing of it is left.
LEMMA RunFailsForGoodKeeps ==
    ASSUME SchedulerInv, NEW c \in Call, RunFailsForGood(c)
    PROVE  SchedulerInv'
  <1> DEFINE s == Now
             j == s.chains[c].job
             t == AfterRun(c, NoChain, "dead")
             h == executionHistory'
             q == deadLetterQueue \cup {j}
  <1>1. /\ Sound(s, registered, retryTimers, executionHistory, deadLetterQueue, meddled, stops)
        /\ BooksTyped
    BY DEF SchedulerInv
  <1>2. /\ s.pool.calls[c].phase = "executing" /\ Record(j, FALSE) /\ Publish(t, "job_dead")
        /\ deadLetterQueue' = q
        /\ UNCHANGED <<running, history, registered, due, retryTimers, meddled>>
    BY DEF RunFailsForGood, Now
  <1>3. t = Settled(s, c, j, "dead", NoChain, End(s.pool, c, running))
    BY DEF AfterRun, Settled, Now
  <1> HIDE DEF s, t
  <1>4. StateOK(s) /\ running \in BOOLEAN /\ "dead" \in Status
    BY <1>1 DEF Sound, BooksTyped, Status
  <1>5. /\ j \in Job /\ c \in ChainsIn(s, j) /\ ~s.chains[c].armed
        /\ StateOK(t)
        /\ t.status[j] = "dead" /\ t.chains[c] = NoChain
        /\ \A d \in Call \ {c} : t.chains[d] = s.chains[d]
        /\ \A k \in Job \ {j} : Same(s, t, k)
    BY <1>2, <1>3, <1>4, EndOfRun
  <1> HIDE DEF j
  <1>6. /\ h \in [Job -> Seq(BOOLEAN)] /\ \A k \in Job : Len(h[k]) <= HistoryCap
        /\ \A k \in Job \ {j} : h[k] = executionHistory[k]
    BY <1>1, <1>2, <1>5, RecordFacts
  <1> HIDE DEF h
  <1>7. ChainsIn(t, j) = ChainsIn(s, j) \ {c} /\ \A d \in ChainsIn(t, j) : t.chains[d] = s.chains[d]
    BY <1>5, JobAssumption DEF ChainsIn, NoChain
  <1>8. InRegistry(t, registered)
    <2>1. s.status[j] # "unregistered"
      BY <1>1, <1>5 DEF Sound, JobSound
    <2> QED
      BY <1>1, <1>5, <2>1, RegistryKept DEF Sound, Same
  <1>9. ASSUME NEW k \in Job
        PROVE  JobSound(t, k, retryTimers, h, q, meddled, stops)
    <2>1. JobSound(s, k, retryTimers, executionHistory, deadLetterQueue, meddled, stops)
      BY <1>1 DEF Sound
    <2>2. CASE k = j
      <3>1. j \notin meddled => ChainsIn(t, j) = {}
        BY <1>5, <1>7, <2>1, <2>2 DEF JobSound
      <3>2. j \in DOMAIN retryTimers => retryTimers[j] \in ChainsIn(t, j) /\ t.chains[retryTimers[j]].armed
        BY <1>5, <1>7, <2>1, <2>2 DEF JobSound
      <3> QED
        BY <1>5, <2>2, <3>1, <3>2 DEF JobSound
    <2>3. CASE k # j
      <3>1. Same(s, t, k) /\ h[k] = executionHistory[k]
        BY <1>5, <1>6, <2>3
      <3>2. k \in q <=> k \in deadLetterQueue
        BY <2>3
      <3> HIDE DEF q
      <3> QED
        BY <2>1, <3>1, <3>2, Elsewhere
    <2> QED
      BY <2>2, <2>3
  <1>10. Sound(t, registered, retryTimers, h, q, meddled, stops)
    BY <1>5, <1>8, <1>9 DEF Sound
  <1>11. Sound(Now', registered, retryTimers, h, q, meddled, stops)
    <2> DEFINE js == Subscribed(t, "job_dead")
    <2>1. js \in SUBSET Job /\ (\A k \in js : t.status[k] = "pending") /\ TriggerAll(t, js)
      BY <1>2 DEF Publish, Subscribed, Triggerable
    <2>2. registered \in Seq(Job)
      BY <1>1 DEF BooksTyped
    <2> HIDE DEF js, q
    <2> QED
      BY <1>10, <2>1, <2>2, TriggersSound
  <1>12. BooksTyped'
    BY <1>1, <1>2, <1>5, <1>6 DEF BooksTyped, history, h
  <1> QED
    BY <1>2, <1>11, <1>12 DEF SchedulerInv, history, h

-----------------------------------------------------------------------------

LEMMA NextScheduler == SchedulerInv /\ [SchedulerNext]_schedulerVars => SchedulerInv'
  <1> SUFFICES ASSUME SchedulerInv, [SchedulerNext]_schedulerVars PROVE SchedulerInv'
    OBVIOUS
  <1>0. Attended \subseteq Job /\ Swept \subseteq Job
    BY BoundAssumption, HistoryAssumption
  <1>1. CASE StartScheduler
    BY <1>1, StartSchedulerKeeps
  <1>2. CASE StopScheduler
    BY <1>2, StopSchedulerKeeps
  <1>3. CASE TickCron
    BY <1>3, TickCronKeeps
  <1>4. ASSUME NEW j \in Job, RegisterJob(j) PROVE SchedulerInv'
    BY <1>4, RegisterJobKeeps
  <1>5. ASSUME NEW j \in Job, ComesDue(j) PROVE SchedulerInv'
    BY <1>5, ComesDueKeeps
  <1>6. ASSUME NEW j \in Job, SweepExecutionHistory(j) PROVE SchedulerInv'
    BY <1>6, SweepKeeps
  <1>7. ASSUME NEW j \in Attended, PauseJob(j) PROVE SchedulerInv'
    BY <1>0, <1>7, PauseJobKeeps
  <1>8. ASSUME NEW j \in Attended, ResumeJob(j) PROVE SchedulerInv'
    BY <1>0, <1>8, ResumeJobKeeps
  <1>9. ASSUME NEW j \in Attended, CancelJob(j) PROVE SchedulerInv'
    BY <1>0, <1>9, CancelJobKeeps
  <1>10. ASSUME NEW j \in Attended, TriggerJobManually(j) PROVE SchedulerInv'
    BY <1>0, <1>10, TriggerJobManuallyKeeps
  <1>11. ASSUME NEW j \in Attended, RetryFromDlq(j) PROVE SchedulerInv'
    BY <1>0, <1>11, RetryFromDlqKeeps
  <1>12. ASSUME NEW topic \in ExternalTopics, ExternalEvent(topic) PROVE SchedulerInv'
    BY <1>12, ExternalEventKeeps
  <1>13. ASSUME NEW c \in Call, RetryTimerFires(c) PROVE SchedulerInv'
    BY <1>13, RetryTimerFiresKeeps
  <1>14. ASSUME NEW c \in Call, RunBegins(c) PROVE SchedulerInv'
    BY <1>14, RunBeginsKeeps
  <1>15. ASSUME NEW c \in Call, RunSucceeds(c) PROVE SchedulerInv'
    BY <1>15, RunSucceedsKeeps
  <1>16. ASSUME NEW c \in Call, RunFails(c) PROVE SchedulerInv'
    BY <1>16, RunFailsKeeps
  <1>17. ASSUME NEW c \in Call, RunFailsForGood(c) PROVE SchedulerInv'
    BY <1>17, RunFailsForGoodKeeps
  <1>18. CASE UNCHANGED schedulerVars
    <2>1. Now' = Now
      BY <1>18 DEF schedulerVars, vars, jobVars, Now
    <2> QED
      BY <1>18, <2>1 DEF SchedulerInv, BooksTyped, schedulerVars, vars, history, jobVars, retryVars
  <1> QED
    BY <1>1, <1>2, <1>3, <1>4, <1>5, <1>6, <1>7, <1>8, <1>9, <1>10, <1>11, <1>12, <1>13, <1>14,
       <1>15, <1>16, <1>17, <1>18 DEF SchedulerNext, OwnerRequest, RunStep

LEMMA SchedulerInvHolds == SchedulerSpec => []SchedulerInv
  BY InitScheduler, NextScheduler, PTL DEF SchedulerSpec

\* The same in the words of the properties.
LEMMA JobFacts ==
    ASSUME SchedulerInv, NEW j \in Job
    PROVE  /\ ChainsIn(Now, j) = ChainsOf(j) /\ Now.status = status /\ Now.chains = chains
           /\ JobSound(Now, j, retryTimers, executionHistory, deadLetterQueue, meddled, stops)
  BY DEF SchedulerInv, Sound, Now, ChainsIn, ChainsOf

\* triggerJob(), scheduler.ts:852-993, and its timers: for any jobs, chains and workers, a
\* chain is free, waits for its timer or is exactly one call of the pool, and
\* the history of a job keeps to its cap.
THEOREM SchedulerTypeOKHolds == SchedulerSpec => []SchedulerTypeOK
  <1>1. SchedulerInv => SchedulerTypeOK
    <2> SUFFICES ASSUME SchedulerInv PROVE SchedulerTypeOK
      OBVIOUS
    <2>1. BooksTyped /\ StateOK(Now)
      BY DEF SchedulerInv, Sound
    <2>2. /\ status \in [Job -> Status]
          /\ chains \in [Call -> [job : Job \cup {NoJob}, armed : BOOLEAN]]
          /\ \A c \in Call : (chains[c].job \in Job /\ ~chains[c].armed) <=> pool.calls[c].phase # "out"
      BY <2>1 DEF StateOK, Flying, Now
    <2>3. \A c \in Call : (\E j \in Job : c \in InFlight(j)) <=> pool.calls[c].phase # "out"
      BY <2>2 DEF InFlight, ChainsOf
    <2>4. \A j \in DOMAIN retryTimers : retryTimers[j] \in Call
      BY <2>1 DEF BooksTyped
    <2> QED
      BY <2>1, <2>2, <2>3, <2>4 DEF SchedulerTypeOK, BooksTyped
  <1> QED
    BY <1>1, SchedulerInvHolds, PTL

\* triggerJob(), scheduler.ts:874-989, against listJobs(): whichever of a
\* job's runs ends last and whatever its owner does meanwhile, "running" means
\* a run in flight, "failed" a retry to come, "dead" a dead letter.
THEOREM StatusIsHonestHolds == SchedulerSpec => []StatusIsHonest
  <1>1. SchedulerInv => StatusIsHonest
    BY JobFacts DEF StatusIsHonest, JobSound, InFlight, Armed
  <1> QED
    BY <1>1, SchedulerInvHolds, PTL

\* scheduler.ts:193, "zero duplicate executions": for any jobs, a job that only
\* its schedule and events trigger has one chain at most, and none while it is
\* pending.
THEOREM ScheduledRunsNeverOverlapHolds == SchedulerSpec => []ScheduledRunsNeverOverlap
  <1>1. SchedulerInv => ScheduledRunsNeverOverlap
    <2> SUFFICES ASSUME SchedulerInv, NEW j \in Job \ meddled
                 PROVE  /\ Cardinality(ChainsOf(j)) <= 1
                        /\ status[j] = "pending" => ChainsOf(j) = {}
      BY DEF ScheduledRunsNeverOverlap
    <2>1. /\ \A c, d \in ChainsOf(j) : c = d
          /\ status[j] = "pending" => ChainsOf(j) = {}
      BY JobFacts DEF JobSound
    <2>2. ChainsOf(j) = {} \/ \E c : ChainsOf(j) = {c}
      BY <2>1
    <2>3. Cardinality(ChainsOf(j)) <= 1
      <3>1. CASE ChainsOf(j) = {}
        BY <3>1, FS_EmptySet
      <3>2. CASE \E c : ChainsOf(j) = {c}
        <4>1. PICK c : ChainsOf(j) = {c}
          BY <3>2
        <4>2. Cardinality({c}) = 1
          BY FS_Singleton
        <4> QED
          BY <4>1, <4>2
      <3> QED
        BY <2>2, <3>1, <3>2
    <2> QED
      BY <2>1, <2>3
  <1> QED
    BY <1>1, SchedulerInvHolds, PTL

\* cancelJob(), scheduler.ts:560, and stop(), 357: an entry of retryTimers is a timer of
\* its job that has not fired, and no timer of a job left to its schedule
\* escapes the map.
THEOREM RetryTimersTrackedHolds == SchedulerSpec => []RetryTimersTracked
  <1>1. SchedulerInv => RetryTimersTracked
    <2> SUFFICES ASSUME SchedulerInv PROVE RetryTimersTracked
      OBVIOUS
    <2>1. \A j \in DOMAIN retryTimers : j \in Job
      BY DEF SchedulerInv, BooksTyped
    <2> QED
      BY <2>1, JobFacts DEF RetryTimersTracked, JobSound, Armed
  <1> QED
    BY <1>1, SchedulerInvHolds, PTL

\* scheduleRetry(), retry-engine.ts:183-190: a job that has failed maxRetries
\* times has no run, no timer and no trigger left, until its owner intervenes.
THEOREM ExhaustedJobsRestHolds == SchedulerSpec => []ExhaustedJobsRest
  <1>1. SchedulerInv => ExhaustedJobsRest
    BY JobFacts DEF ExhaustedJobsRest, JobSound, Spent
  <1> QED
    BY <1>1, SchedulerInvHolds, PTL
=============================================================================
