---------------------------- MODULE MCWorkerPool ----------------------------
(* WorkerPool for TLC.  MaxOrders bounds the orders of a stream.            *)
EXTENDS WorkerPool
=============================================================================
