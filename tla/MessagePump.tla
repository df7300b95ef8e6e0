----------------------------- MODULE MessagePump -----------------------------
(***************************************************************************)
(* eFixedMessagePump<int> (lib/base/message.h) inside a reference-counted  *)
(* object (eFilePushThread, lib/dvb/filepush.cpp): threads post events,    *)
(* the main loop handles them.  A post is three separate steps of its      *)
(* thread: take a reference on the object, push the event under the lock,  *)
(* write the eventfd.  The main loop reads the eventfd once, which returns *)
(* the number of writes and clears it, and then pops that many events      *)
(* while more may arrive.  Handling an event releases its reference, and   *)
(* the last release deletes the object with the pump inside it.            *)
(***************************************************************************)
EXTENDS Naturals, Sequences, FiniteSets

CONSTANTS Senders,      \* the threads that post events
          MaxSends      \* bound: how many events one sender posts

ASSUME MessagePumpAssumption ==
  /\ IsFiniteSet(Senders)
  /\ MaxSends \in Nat

Event == Senders \X (1 .. MaxSends)     \* the n-th event of a sender
NoEvent == <<>>

VARIABLES
  queue,      \* m_queue
  eventfd,    \* the counter of the eventfd: writes not yet read
  pc,         \* of each sender: where it is in sendEvent()
  sent,       \* of each sender: events it has begun to post
  rpc,        \* the main loop: "poll", "pop" (in the for loop), "handle"
  count,      \* the for loop's counter: events still to pop
  msg,        \* the event being handled
  ref,        \* the object's reference count
  owned,      \* does the owner still hold its ePtr?
  alive       \* FALSE once Release() has deleted the object

pumpVars == <<queue, eventfd, pc, sent, rpc, count, msg, ref, owned, alive>>
sendVars == <<pc, sent>>
recvVars == <<rpc, count, msg>>

PumpTypeOK ==
  /\ queue \in Seq(Event)
  /\ eventfd \in Nat
  /\ pc \in [Senders -> {"idle", "referenced", "pushed"}]
  /\ sent \in [Senders -> 0 .. MaxSends]
  /\ rpc \in {"poll", "pop", "handle"}
  /\ count \in Nat
  /\ msg \in Event \cup {NoEvent}
  /\ ref \in Nat
  /\ owned \in BOOLEAN
  /\ alive \in BOOLEAN

PumpInit ==
  /\ queue = <<>>
  /\ eventfd = 0
  /\ pc = [s \in Senders |-> "idle"]
  /\ sent = [s \in Senders |-> 0]
  /\ rpc = "poll"
  /\ count = 0
  /\ msg = NoEvent
  /\ ref = 1
  /\ owned = TRUE
  /\ alive = TRUE

-----------------------------------------------------------------------------
(* A sender runs only while the owner keeps the object: stop() joins the   *)
(* thread before the owner drops its pointer.                              *)

(* Seeded fault: sendEvent() without AddRef(). *)
PostWithoutReference(s) ==
  /\ pc[s] = "idle" /\ owned /\ sent[s] < MaxSends
  /\ sent' = [sent EXCEPT ![s] = @ + 1]
  /\ pc' = [pc EXCEPT ![s] = "referenced"]
  /\ UNCHANGED <<queue, eventfd, recvVars, ref, owned, alive>>

TakeReference(s) ==
  /\ pc[s] = "idle" /\ owned /\ sent[s] < MaxSends
  /\ ref' = ref + 1
  /\ sent' = [sent EXCEPT ![s] = @ + 1]
  /\ pc' = [pc EXCEPT ![s] = "referenced"]
  /\ UNCHANGED <<queue, eventfd, recvVars, owned, alive>>

(* Seeded fault: the event jumps the queue. *)
PushInFront(s) ==
  /\ pc[s] = "referenced"
  /\ queue' = <<<<s, sent[s]>>>> \o queue
  /\ pc' = [pc EXCEPT ![s] = "pushed"]
  /\ UNCHANGED <<eventfd, sent, recvVars, ref, owned, alive>>

Push(s) ==
  /\ pc[s] = "referenced"
  /\ queue' = Append(queue, <<s, sent[s]>>)
  /\ pc' = [pc EXCEPT ![s] = "pushed"]
  /\ UNCHANGED <<eventfd, sent, recvVars, ref, owned, alive>>

TriggerEvent(s) ==
  /\ pc[s] = "pushed"
  /\ eventfd' = eventfd + 1
  /\ pc' = [pc EXCEPT ![s] = "idle"]
  /\ UNCHANGED <<queue, sent, recvVars, ref, owned, alive>>

-----------------------------------------------------------------------------
(* The main loop.  The notifier is polled only while the pump exists.      *)

ReadEventfd ==
  /\ rpc = "poll" /\ alive /\ eventfd > 0
  /\ count' = eventfd
  /\ eventfd' = 0
  /\ rpc' = "pop"
  /\ UNCHANGED <<queue, sendVars, msg, ref, owned, alive>>

(* One event per count.  do_recv() logs "Got event but queue is empty" and *)
(* gives up when there is none; NoEmptyPop states that this cannot happen, *)
(* so the model has no step for it.                                        *)
PopEvent ==
  /\ rpc = "pop" /\ count > 0 /\ queue # <<>>
  /\ msg' = Head(queue)
  /\ queue' = Tail(queue)
  /\ rpc' = "handle"
  /\ UNCHANGED <<eventfd, sendVars, count, ref, owned, alive>>

(* Seeded fault: one event per wake-up, whatever the eventfd counted. *)
ReleaseOneOnly ==
  /\ rpc = "handle"
  /\ ref' = ref - 1
  /\ alive' = (ref # 1)
  /\ msg' = NoEvent
  /\ count' = 0
  /\ rpc' = "poll"
  /\ UNCHANGED <<queue, eventfd, sendVars, owned>>

(* recv_msg returned: recvEvent() releases, the loop counts down and goes  *)
(* back to poll when it has served the count it read.                      *)
ReleaseEvent ==
  /\ rpc = "handle"
  /\ ref' = ref - 1
  /\ alive' = (ref # 1)
  /\ msg' = NoEvent
  /\ count' = count - 1
  /\ rpc' = IF count = 1 THEN "poll" ELSE "pop"
  /\ UNCHANGED <<queue, eventfd, sendVars, owned>>

(* The owner's ePtr is cleared on the main loop, from a handler of this    *)
(* pump's own event or outside of it, once the sender threads are joined.  *)
OwnerRelease ==
  /\ owned
  /\ rpc \in {"poll", "handle"}
  /\ \A s \in Senders : pc[s] = "idle"
  /\ owned' = FALSE
  /\ ref' = ref - 1
  /\ alive' = (ref # 1)
  /\ UNCHANGED <<queue, eventfd, sendVars, recvVars>>

SenderStep(s) == TakeReference(s) \/ Push(s) \/ TriggerEvent(s)
MainLoopStep == ReadEventfd \/ PopEvent \/ ReleaseEvent

PumpNext ==
  \/ \E s \in Senders : SenderStep(s)
  \/ MainLoopStep
  \/ OwnerRelease

PumpSpec == PumpInit /\ [][PumpNext]_pumpVars

(* A thread in the middle of a post goes on, and so does the main loop.    *)
PumpFairness ==
  /\ \A s \in Senders : WF_pumpVars(Push(s) \/ TriggerEvent(s))
  /\ WF_pumpVars(MainLoopStep)

FairPumpSpec == PumpSpec /\ PumpFairness

-----------------------------------------------------------------------------
(* Properties *)

(* The for loop of do_recv() never finds the queue empty: the count it     *)
(* read is covered by pushed events, whatever is posted or popped meanwhile *)
(* (message.h:71-79, the warning "Got event but queue is empty").          *)
NoEmptyPop == rpc = "pop" => queue # <<>>

(* The object outlives everything that still needs it: once deleted, no    *)
(* thread is inside sendEvent(), no event is queued, the eventfd is not    *)
(* readable and do_recv() is not about to touch the pump again             *)
(* (filepush.cpp:306, "make sure the object is not destroyed while the     *)
(* messagepump contains unhandled messages").                              *)
NoUseAfterDelete ==
  ~alive => /\ \A s \in Senders : pc[s] = "idle"
            /\ queue = <<>>
            /\ eventfd = 0
            /\ rpc = "poll"

(* The pump is an EventChannel: the events posted and not yet handled, in  *)
(* the order of the pushes, each handled once (message.h:83-90,101-108).   *)
Channel == INSTANCE EventChannel WITH
  chan <- (IF rpc = "handle" THEN <<msg>> ELSE <<>>) \o queue,
  open <- alive

ImplementsChannel == Channel!ChanSpec

(* No leak: an object its owner dropped is deleted once the main loop has  *)
(* handled the events that keep it (filepush.cpp:304-316).                 *)
DroppedIsDeleted == ~owned ~> ~alive
=============================================================================
