--------------------------- MODULE MCMessagePump ---------------------------
(* Two threads post up to three events each to one pump. *)
EXTENDS MessagePump
=============================================================================
