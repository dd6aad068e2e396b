---------------------------- MODULE MCWorkerPool ----------------------------
(* WorkerPool with a few addresses and one thread more than addresses, so   *)
(* that the pool may create a thread it does not need if it fails to reuse  *)
(* an idle one.  Addresses and threads are model values; symmetry is not    *)
(* used because the run checks liveness too.                                *)
EXTENDS WorkerPool
=============================================================================
