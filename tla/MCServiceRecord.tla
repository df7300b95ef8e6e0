--------------------------- MODULE MCServiceRecord ---------------------------
(* Programs of two pids, one of which may go, and every fault.              *)
EXTENDS ServiceRecord
=============================================================================
