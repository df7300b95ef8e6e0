----------------------------- MODULE MCMainloop -----------------------------
(* A periodic and a single-shot timer; three notifiers, two of them for the *)
(* same descriptor, one after the other.                                    *)
EXTENDS Mainloop, TLC
CONSTANTS periodic, once, n1, n2, n3
MCTimers == {periodic, once}
MCInterval == (periodic :> 2) @@ (once :> 1)
MCSingle == (periodic :> FALSE) @@ (once :> TRUE)
MCNotifiers == {n1, n2, n3}
MCFd == (n1 :> 1) @@ (n2 :> 2) @@ (n3 :> 2)
=============================================================================
