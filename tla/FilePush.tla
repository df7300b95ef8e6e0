------------------------------ MODULE FilePush ------------------------------
(***************************************************************************)
(* Playback of a recording: the push thread (eFilePushThread,              *)
(* lib/dvb/filepush.cpp) reads blocks of the file and writes them to the   *)
(* DVR device, while its owner on the main loop (eDVBChannel,              *)
(* lib/dvb/dvb.cpp) seeks and stops.  A seek, or a change of the skip      *)
(* mode, queues a request in the cue sheet and then flushes: pause the     *)
(* thread, empty the DVR, resume.                                          *)
(*                                                                         *)
(* The two share m_stop, which stop() writes without the mutex, and        *)
(* m_run_state, guarded by m_run_mutex with the condition m_run_cond.      *)
(* SIGUSR1 interrupts a system call only if the thread is inside it.       *)
(* Data is abstracted to the number of seek requests that had been served  *)
(* when it was read: that is what tells data of the old position from data *)
(* of the new one.  sendEvent() never blocks and touches only the thread's *)
(* messagepump, which is module MessagePump; here it is left out.          *)
(***************************************************************************)
EXTENDS Naturals, FiniteSets

CONSTANTS MaxSeeks,     \* bound: how often the user seeks
          EofLimit      \* empty reads before the inner loop is left (10)

ASSUME FilePushAssumption ==
  /\ MaxSeeks \in Nat
  /\ EofLimit \in Nat \ {0}

Running == 0            \* the values of m_stop
Stopping == 1
Pausing == 2

VARIABLES
  stop,       \* m_stop
  runState,   \* m_run_state
  mutex,      \* holder of m_run_mutex: "main", "thread" or "none"
  waiters,    \* who sleeps in m_run_cond.wait()
  intr,       \* SIGUSR1 has hit the system call the thread is in
  tpc,        \* where the push thread is
  haveSpan,   \* current_span_remaining # 0
  spanSeek,   \* seek requests served when the current span was computed
  buffer,     \* the same for the data in m_buffer
  eofs,       \* eofcount
  mpc,        \* where the owner is
  stream,     \* m_stream_mode: the source is a stream
  issued,     \* seek requests queued by seekTo()
  served,     \* seek requests taken from the queue by getNextSourceSpan()
  flushed,    \* seek requests whose flushPVR() has emptied the DVR
  dvr         \* the data in the DVR: the seeks it was read after

ownerVars == <<mpc, stream, issued, flushed>>
lockVars == <<runState, mutex, waiters>>
pushVars == <<haveSpan, spanSeek, served, buffer, eofs>>
vars == <<stop, lockVars, intr, tpc, pushVars, dvr, ownerVars>>

InSystemCall == {"read", "poll", "write"}
Pushing == {"top", "span", "pop", "eof", "writing", "calling", "stopped", "lock"} \cup InSystemCall
ThreadHolds == {"test", "sleep", "leave"}
ThreadAt == Pushing \cup ThreadHolds \cup {"none", "asleep", "again", "exit"}
OwnerHolds == {"kick", "pausing"}
OwnerAt == OwnerHolds \cup
  {"closed", "idle", "pause", "asleep", "flush", "resume", "signal", "join", "stopped"}

TypeOK ==
  /\ stop \in {Running, Stopping, Pausing}
  /\ runState \in {0, 1}
  /\ mutex \in {"main", "thread", "none"}
  /\ waiters \subseteq {"main", "thread"}
  /\ intr \in BOOLEAN
  /\ tpc \in ThreadAt
  /\ haveSpan \in BOOLEAN
  /\ spanSeek \in Nat
  /\ buffer \in Nat
  /\ eofs \in 0 .. EofLimit
  /\ mpc \in OwnerAt
  /\ stream \in BOOLEAN
  /\ issued \in Nat
  /\ served \in Nat
  /\ flushed \in Nat
  /\ dvr \subseteq Nat

Init ==
  /\ stop = Stopping
  /\ runState = 0
  /\ mutex = "none"
  /\ waiters = {}
  /\ intr = FALSE
  /\ tpc = "none"
  /\ haveSpan = FALSE
  /\ spanSeek = 0
  /\ buffer = 0
  /\ eofs = 0
  /\ mpc = "closed"
  /\ stream = FALSE
  /\ issued = 0
  /\ served = 0
  /\ flushed = 0
  /\ dvr = {}

-----------------------------------------------------------------------------
(* pthreads: signal() wakes one sleeper, if there is one. *)

CondSignal ==
  \/ waiters = {} /\ UNCHANGED waiters
  \/ \E w \in waiters : waiters' = waiters \ {w}

(* A sleeper may also wake for no reason; both wait loops re-test. *)
SpuriousWakeup ==
  /\ \E w \in waiters : waiters' = waiters \ {w}
  /\ UNCHANGED <<stop, runState, mutex, intr, tpc, pushVars, dvr, ownerVars>>

(* sendSignal(SIGUSR1): lost unless the thread is in a system call. *)
Interrupt == intr' = (intr \/ tpc \in InSystemCall)

-----------------------------------------------------------------------------
(* The push thread. *)

GoTo(label) == tpc' = label

(* while (!m_stop), and then a span if there is none left. *)
LoopTop ==
  /\ tpc = "top"
  /\ GoTo(IF stop # Running THEN "stopped" ELSE IF haveSpan THEN "read" ELSE "span")
  /\ UNCHANGED <<stop, lockVars, intr, pushVars, dvr, ownerVars>>

(* getNextSourceSpan() takes the queued seek requests one by one, giving   *)
(* the cue sheet's lock back around each, and computes a span when there   *)
(* is none left.  The span may be empty.                                   *)
FindSeekRequest ==
  /\ tpc = "span" /\ served < issued
  /\ GoTo("pop")
  /\ UNCHANGED <<stop, lockVars, intr, pushVars, dvr, ownerVars>>

PopSeekRequest ==
  /\ tpc = "pop"
  /\ served' = served + 1
  /\ GoTo("span")
  /\ UNCHANGED <<stop, lockVars, intr, haveSpan, spanSeek, buffer, eofs, dvr, ownerVars>>

ComputeSpan ==
  /\ tpc = "span" /\ served = issued
  /\ spanSeek' = served
  /\ haveSpan' \in BOOLEAN
  /\ GoTo("read")
  /\ UNCHANGED <<stop, lockVars, intr, served, buffer, eofs, dvr, ownerVars>>

ReadData ==
  /\ tpc = "read" /\ haveSpan
  /\ buffer' = spanSeek
  /\ intr' = FALSE
  /\ GoTo("writing")
  /\ UNCHANGED <<stop, lockVars, haveSpan, spanSeek, served, eofs, dvr, ownerVars>>

(* End of file, nothing to read, or an error that is none of the retried:  *)
(* wait for the driver to play out (the PVR commit).                       *)
ReadNothing ==
  /\ tpc = "read"
  /\ intr' = FALSE
  /\ GoTo("poll")
  /\ UNCHANGED <<stop, lockVars, pushVars, dvr, ownerVars>>

(* EINTR, EBUSY, EAGAIN, EOVERFLOW: look at m_stop, try again. *)
ReadFails ==
  /\ tpc = "read" /\ haveSpan
  /\ intr' = FALSE
  /\ GoTo(IF stop # Running THEN "stopped" ELSE "top")
  /\ UNCHANGED <<stop, lockVars, pushVars, dvr, ownerVars>>

PollTimeout ==
  /\ tpc = "poll"
  /\ intr' = FALSE
  /\ GoTo("top")
  /\ UNCHANGED <<stop, lockVars, pushVars, dvr, ownerVars>>

PollReady ==
  /\ tpc = "poll"
  /\ intr' = FALSE
  /\ GoTo("eof")
  /\ UNCHANGED <<stop, lockVars, pushVars, dvr, ownerVars>>

PollInterrupted ==
  /\ tpc = "poll" /\ intr
  /\ intr' = FALSE
  /\ GoTo(IF stop # Running THEN "eof" ELSE "top")
  /\ UNCHANGED <<stop, lockVars, pushVars, dvr, ownerVars>>

(* evtEOF is sent; a file may grow, so it is tried EofLimit times. *)
EndOfFile ==
  /\ tpc = "eof"
  /\ \/ stop # Running /\ GoTo("stopped") /\ UNCHANGED eofs
     \/ stop = Running /\ stream /\ GoTo("top") /\ UNCHANGED eofs
     \/ /\ stop = Running /\ ~stream
        /\ eofs' = eofs + 1
        /\ GoTo(IF eofs + 1 < EofLimit THEN "top" ELSE "stopped")
  /\ UNCHANGED <<stop, lockVars, intr, haveSpan, spanSeek, served, buffer, dvr, ownerVars>>

(* The block is done with: what it took from the span is gone. *)
BlockDone ==
  /\ eofs' = 0
  /\ haveSpan' \in {haveSpan, FALSE}
  /\ GoTo("top")
  /\ UNCHANGED <<spanSeek, served, buffer>>

(* while (buf_start != buf_end && !m_stop).  A signal that comes after this *)
(* test and before the system call is lost; read() of a file and poll()    *)
(* return by themselves, so the gap is modelled for write() only.          *)
WriteLoop ==
  /\ tpc = "writing"
  /\ \/ stop # Running /\ BlockDone
     \/ stop = Running /\ GoTo("calling") /\ UNCHANGED pushVars
  /\ UNCHANGED <<stop, lockVars, intr, dvr, ownerVars>>

EnterWrite ==
  /\ tpc = "calling"
  /\ GoTo("write")
  /\ UNCHANGED <<stop, lockVars, intr, pushVars, dvr, ownerVars>>

(* write() returns once the decoder has made room, with all or a part. *)
WriteData ==
  /\ tpc = "write"
  /\ dvr' = dvr \cup {buffer}
  /\ intr' = FALSE
  /\ BlockDone \/ (GoTo("writing") /\ UNCHANGED pushVars)
  /\ UNCHANGED <<stop, lockVars, ownerVars>>

WriteInterrupted ==
  /\ tpc = "write" /\ intr
  /\ intr' = FALSE
  /\ \/ stop # Running /\ BlockDone
     \/ stop = Running /\ GoTo("writing") /\ UNCHANGED pushVars
  /\ UNCHANGED <<stop, lockVars, dvr, ownerVars>>

(* evtWriteError is sent and the block given up. *)
WriteFails ==
  /\ tpc = "write"
  /\ intr' = FALSE
  /\ BlockDone
  /\ UNCHANGED <<stop, lockVars, dvr, ownerVars>>

SendStopped ==
  /\ tpc = "stopped"
  /\ GoTo("lock")
  /\ UNCHANGED <<stop, lockVars, intr, pushVars, dvr, ownerVars>>

(* "Tell them we're here" *)
Acknowledge ==
  /\ tpc = "lock" /\ mutex = "none"
  /\ mutex' = "thread"
  /\ runState' = 0
  /\ CondSignal
  /\ GoTo("test")
  /\ UNCHANGED <<stop, intr, pushVars, dvr, ownerVars>>

(* Seeded fault: the wait loop waits while (m_stop). *)
TestAnyStop ==
  /\ tpc = "test"
  /\ GoTo(IF stop # Running THEN "sleep" ELSE "leave")
  /\ UNCHANGED <<stop, lockVars, intr, pushVars, dvr, ownerVars>>

(* while (m_stop == 2): stop() may change m_stop between test and wait. *)
TestPaused ==
  /\ tpc = "test"
  /\ GoTo(IF stop = Pausing THEN "sleep" ELSE "leave")
  /\ UNCHANGED <<stop, lockVars, intr, pushVars, dvr, ownerVars>>

Sleep ==
  /\ tpc = "sleep"
  /\ waiters' = waiters \cup {"thread"}
  /\ mutex' = "none"
  /\ GoTo("asleep")
  /\ UNCHANGED <<stop, runState, intr, pushVars, dvr, ownerVars>>

Wake ==
  /\ tpc = "asleep" /\ "thread" \notin waiters /\ mutex = "none"
  /\ mutex' = "thread"
  /\ GoTo("test")
  /\ UNCHANGED <<stop, runState, waiters, intr, pushVars, dvr, ownerVars>>

LeaveLockScope ==
  /\ tpc = "leave"
  /\ runState' = IF stop = Running THEN 1 ELSE runState
  /\ mutex' = "none"
  /\ GoTo("again")
  /\ UNCHANGED <<stop, waiters, intr, pushVars, dvr, ownerVars>>

(* Seeded fault: current_span_remaining survives the pause. *)
RestartKeepsSpan ==
  /\ tpc = "again"
  /\ eofs' = 0
  /\ GoTo(IF stop = Running THEN "top" ELSE "exit")
  /\ UNCHANGED <<stop, lockVars, intr, haveSpan, spanSeek, served, buffer, dvr, ownerVars>>

(* do ... while (m_stop == 0): the locals start afresh, so the next thing  *)
(* the inner loop does is to ask for a span.                               *)
RestartOrExit ==
  /\ tpc = "again"
  /\ haveSpan' = FALSE
  /\ eofs' = 0
  /\ GoTo(IF stop = Running THEN "top" ELSE "exit")
  /\ UNCHANGED <<stop, lockVars, intr, spanSeek, served, buffer, dvr, ownerVars>>

-----------------------------------------------------------------------------
(* The owner, on the main loop. *)

(* playSource(): setStreamMode(), start() the thread, wait for it to run. *)
Start ==
  /\ mpc = "closed"
  /\ runState' = 1
  /\ stop' = Running
  /\ tpc' = "top"
  /\ stream' \in BOOLEAN
  /\ mpc' = "idle"
  /\ UNCHANGED <<mutex, waiters, intr, pushVars, dvr, issued, flushed>>

(* seekTo() queues the request; the flush follows in the same call. *)
SeekTo ==
  /\ mpc = "idle" /\ issued < MaxSeeks
  /\ issued' = issued + 1
  /\ mpc' = "pause"
  /\ UNCHANGED <<stop, lockVars, intr, tpc, pushVars, dvr, stream, flushed>>

PauseRequest ==
  /\ mpc = "pause" /\ mutex = "none"
  /\ mutex' = "main"
  /\ stop' = Pausing
  /\ mpc' = "kick"
  /\ UNCHANGED <<runState, waiters, intr, tpc, pushVars, dvr, stream, issued, flushed>>

PauseKick ==
  /\ mpc = "kick"
  /\ Interrupt
  /\ CondSignal
  /\ mpc' = "pausing"
  /\ UNCHANGED <<stop, runState, mutex, tpc, pushVars, dvr, stream, issued, flushed>>

(* Seeded fault: pause() waits once, without looking at m_run_state. *)
PauseWaitNoTest ==
  /\ mpc = "pausing"
  /\ mutex' = "none"
  /\ mpc' = "flush"
  /\ UNCHANGED <<stop, runState, waiters, intr, tpc, pushVars, dvr, stream, issued, flushed>>

(* while (m_run_state) m_run_cond.wait(m_run_mutex) *)
PauseWait ==
  /\ mpc = "pausing"
  /\ mutex' = "none"
  /\ \/ runState = 0 /\ mpc' = "flush" /\ UNCHANGED waiters
     \/ runState # 0 /\ mpc' = "asleep" /\ waiters' = waiters \cup {"main"}
  /\ UNCHANGED <<stop, runState, intr, tpc, pushVars, dvr, stream, issued, flushed>>

PauseWake ==
  /\ mpc = "asleep" /\ "main" \notin waiters /\ mutex = "none"
  /\ mutex' = "main"
  /\ mpc' = "pausing"
  /\ UNCHANGED <<stop, runState, waiters, intr, tpc, pushVars, dvr, stream, issued, flushed>>

(* flushPVR(): the DVR's and the decoder's buffers are emptied. *)
FlushDvr ==
  /\ mpc = "flush"
  /\ dvr' = {}
  /\ flushed' = issued
  /\ mpc' = "resume"
  /\ UNCHANGED <<stop, lockVars, intr, tpc, pushVars, stream, issued>>

(* Seeded fault: resume() forgets to wake the thread. *)
ResumeSilently ==
  /\ mpc = "resume" /\ mutex = "none"
  /\ stop' = Running
  /\ mpc' = "idle"
  /\ UNCHANGED <<lockVars, intr, tpc, pushVars, dvr, stream, issued, flushed>>

Resume ==
  /\ mpc = "resume" /\ mutex = "none"
  /\ stop' = Running
  /\ CondSignal
  /\ mpc' = "idle"
  /\ UNCHANGED <<runState, mutex, intr, tpc, pushVars, dvr, stream, issued, flushed>>

(* stop() does not take the mutex. *)
StopRequest ==
  /\ mpc = "idle"
  /\ stop' = Stopping
  /\ mpc' = "signal"
  /\ UNCHANGED <<lockVars, intr, tpc, pushVars, dvr, stream, issued, flushed>>

StopSignal ==
  /\ mpc = "signal"
  /\ CondSignal
  /\ Interrupt
  /\ mpc' = "join"
  /\ UNCHANGED <<stop, runState, mutex, tpc, pushVars, dvr, stream, issued, flushed>>

(* kill(), which joins. *)
Join ==
  /\ mpc = "join" /\ tpc = "exit"
  /\ mpc' = "stopped"
  /\ UNCHANGED <<stop, lockVars, intr, tpc, pushVars, dvr, stream, issued, flushed>>

-----------------------------------------------------------------------------
(* Steps of the thread that need nobody else, but for the mutex. *)
ThreadStep ==
  \/ LoopTop \/ FindSeekRequest \/ PopSeekRequest \/ ComputeSpan
  \/ ReadData \/ ReadNothing \/ ReadFails
  \/ PollTimeout \/ PollReady \/ PollInterrupted \/ EndOfFile
  \/ WriteLoop \/ EnterWrite \/ WriteInterrupted
  \/ SendStopped \/ Acknowledge \/ TestPaused \/ Sleep \/ Wake
  \/ LeaveLockScope \/ RestartOrExit

(* Steps of a call the owner has begun. *)
OwnerStep ==
  \/ PauseRequest \/ PauseKick \/ PauseWait \/ PauseWake
  \/ FlushDvr \/ Resume \/ StopSignal \/ Join

Next ==
  \/ ThreadStep \/ WriteData \/ WriteFails \/ SpuriousWakeup
  \/ Start \/ SeekTo \/ StopRequest \/ OwnerStep

Spec == Init /\ [][Next]_vars

(* The threads are scheduled.  Reads of a file and the 250 ms poll return. *)
SchedulerFairness == WF_vars(ThreadStep) /\ WF_vars(OwnerStep)

(* A decoder that plays makes room in the DVR, so that write() returns. *)
PlayingDecoder == WF_vars(WriteData)

FairSpec == Spec /\ SchedulerFairness /\ PlayingDecoder

-----------------------------------------------------------------------------
(* Properties *)

(* Between the return of pause() and resume(), while the DVR is flushed,   *)
(* the thread neither reads nor writes (filepush.cpp:263-272).             *)
PausedIsQuiet == mpc \in {"flush", "resume"} => tpc \notin Pushing

(* After a seek nothing of the old position reaches the decoder: what is   *)
(* in the DVR was read after every flushed seek had been served            *)
(* (dvb.cpp:2271-2279, 2291 "resume will re-query the SG").                *)
SeekDropsOldData == \A d \in dvr : d >= flushed

(* stop() comes back: the thread sees m_stop and is joined, whatever it    *)
(* was doing (filepush.cpp:244-254).                                       *)
StopReturns == mpc = "signal" ~> mpc = "stopped"

(* A seek is served: once its call has returned and the owner leaves the   *)
(* thread alone, the thread takes the request from the queue.              *)
SeekIsServed == (mpc = "idle" /\ served < issued) ~> (served = issued \/ mpc # "idle")

(* "wait for the thread to acknowledge that" (filepush.cpp:263-264): there *)
(* is a thread to acknowledge when pause() waits for it.                   *)
PauseIsAcknowledged == mpc = "asleep" => tpc # "exit"
=============================================================================
