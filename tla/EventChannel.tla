---------------------------- MODULE EventChannel ----------------------------
(***************************************************************************)
(* What an eFixedMessagePump promises to the code that uses it, without    *)
(* its queue, its eventfd and its reference counts: events are delivered   *)
(* once each, in the order they were sent, and a channel whose owner has   *)
(* dropped it goes away once it is empty.                                  *)
(***************************************************************************)
EXTENDS Sequences

CONSTANT Event          \* the events that can be sent

VARIABLES chan,         \* sent and not yet handled, oldest first
          open          \* FALSE once the object behind the channel is deleted

chanVars == <<chan, open>>

ChanTypeOK == chan \in Seq(Event) /\ open \in BOOLEAN

ChanInit == chan = <<>> /\ open = TRUE

(* send(): the event joins the end of the channel. *)
Send(e) ==
  /\ open
  /\ chan' = Append(chan, e)
  /\ UNCHANGED open

(* recv_msg: the oldest event is handled, on the main loop. *)
Receive(e) ==
  /\ open
  /\ chan # <<>>
  /\ e = Head(chan)
  /\ chan' = Tail(chan)
  /\ UNCHANGED open

(* The last reference is dropped: only an empty channel may go away. *)
Close ==
  /\ open
  /\ chan = <<>>
  /\ open' = FALSE
  /\ UNCHANGED chan

(* Handling the last event may also be what drops the last reference. *)
ReceiveAndClose(e) ==
  /\ open
  /\ chan = <<e>>
  /\ chan' = <<>>
  /\ open' = FALSE

ChanNext ==
  \/ \E e \in Event : Send(e) \/ Receive(e) \/ ReceiveAndClose(e)
  \/ Close

ChanSpec == ChanInit /\ [][ChanNext]_chanVars
=============================================================================
