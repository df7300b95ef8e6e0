--------------------------- MODULE MCRecordTimer ---------------------------
(* Two timers, or three; the runs differ in what may happen to them. *)
EXTENDS RecordTimer
CONSTANTS t1, t2, t3
MCTimers == {t1, t2}
MCThree == {t1, t2, t3}
MCOne == {t1}
MCOther == {t2}
MCNone == {}
MCThird == {t3}
MCBegins == {1, 3}
MCNear == {1, 2}
MCAtOne == {1}
MCPrepareFaults == {"diskFull", "refuse", "startError"}
MCWriteFaults == {"writeError"}
MCDisabling == {"disable"}
MCDiskFaults == {"diskFull"}
MCAll == {"disable", "writeError", "clock", "diskFull", "refuse"}
=============================================================================
