---------------------------- MODULE MCTimerStore ----------------------------
(* Two timers, one of them repeated, that the program forgets once; what   *)
(* may happen to them is all but a full disk.  With a third timer a write  *)
(* error could keep a removed one in timer_list: see RecordTimerRemoved.   *)
EXTENDS TimerStore
CONSTANTS t1, t2
MCTimers == {t1, t2}
MCOne == {t1}
MCOther == {t2}
MCNone == {}
MCService == [t \in MCTimers |-> "a"]
MCBegins == {0, 1}
MCAll == {"disable", "writeError", "clock"}
=============================================================================
