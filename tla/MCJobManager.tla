---------------------------- MODULE MCJobManager ----------------------------
(* A DVD job (dvdauthor goes resident, a remux, the wait for it, the burn)  *)
(* and two short ones.                                                      *)
EXTENDS JobManager, TLC
CONSTANTS dvd, two, one
MCJobs == {dvd, two, one}
MCKinds == (dvd :> <<"Author", "Tool", "Wait", "Burn">>) @@ (two :> <<"Instant", "Burn">>)
           @@ (one :> <<"Python">>)
=============================================================================
