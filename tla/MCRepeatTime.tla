---------------------------- MODULE MCRepeatTime ----------------------------
(* Days of 4 hours, weeks of 3 days; begin and end may lie on two days. *)
EXTENDS RepeatTime
MCBegins == 0 .. 7
MCLengths == 0 .. 3
MCNows == 0 .. 30
MCNone == {}
MCMissing == {13}
=============================================================================
