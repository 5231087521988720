---------------------------- MODULE MCWorkerPool ----------------------------
(***************************************************************************)
(* A small instance of WorkerPool: more callers than workers.              *)
(***************************************************************************)
EXTENDS WorkerPool

CONSTANTS c1, c2, c3, none   \* model values

ThreeCalls == {c1, c2, c3}
=============================================================================
