----------------------------- MODULE MCGpuLocks -----------------------------
(* Two GPUs, two threads and the thread that holds the API lock.           *)
EXTENDS GpuLocks
=============================================================================
