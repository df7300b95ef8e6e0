--------------------------- MODULE ServiceRecord ---------------------------
(* One recording: eDVBServiceRecord (lib/service/servicedvbrecord.cpp)     *)
(* between the events of its PMT handler (lib/dvb/pmt.cpp), the calls of   *)
(* the timer that owns it (RecordTimer.py, through lib/nav/core.cpp) and   *)
(* the recorder, eDVBTSRecorder (lib/dvb/demux.cpp), whose thread,         *)
(* eFilePushThreadRecorder (lib/dvb/filepush.cpp), copies from the demux   *)
(* to the file by asynchronous writes and reports through its own message  *)
(* pump.  All but the thread and the writes happens in the main thread.    *)
(* The recording is neither simulated nor streamed, its service has no     *)
(* cached pids, and the demux accepts every pid it is given.               *)
EXTENDS Integers, Sequences, FiniteSets

CONSTANTS
  PAT, Programs, \* the pid of the PAT, and the pids that programs may have
  NoProgram, NotCached,
  Sorts,         \* "dvb": from a tuner, "stream": from the net
  Faults,        \* what may go wrong
  MaxStarts,     \* bound: calls of start()
  MaxEvents      \* bound: events in the pump

ASSUME RecordAssumption ==
  /\ PAT \in Nat
  /\ \A P \in Programs : P \subseteq Nat /\ IsFiniteSet(P) /\ \A p \in P : PAT < p
  /\ Sorts \subseteq {"dvb", "stream"}
  /\ Faults \subseteq {"misconfigured", "open", "demux", "recorder", "source",
                       "read", "write", "broken"}
  /\ MaxStarts \in Nat /\ MaxEvents \in Nat
  /\ NoProgram \notin Programs \cup {{}} /\ NotCached \notin Programs \cup {{}}

VARIABLES
  phase,   \* record_service of the timer: "new", "prepared", "started", "gone"
  starts,
  state, want, tuned,    \* m_state, m_want_record, m_tuned
  record, target,        \* is there an m_record; is m_target_fd open
  active,                \* m_pids_active
  sort, chan, demux,     \* the PMT handler's channel and demux
  program, cached,       \* its PMT, and m_cached_program
  recPids, running,      \* the recorder: m_pids, m_running
  source, filter, tap,   \* m_source_fd, the pids the demux passes, the one it was opened with
  pc, mstop, pending,    \* the thread, m_stop, and is a write in flight
  data,                  \* has anything been written to the file
  events, batch,         \* the pump: its queue, and do_recv()'s count
  call, who              \* how far stop() has come, and who called it

owner == <<phase, starts>>
service == <<state, want, tuned, record, target, active>>
handler == <<sort, chan, demux, program, cached>>
recorder == <<recPids, running, source, filter, tap>>
thread == <<pc, mstop, pending, data>>
pump == <<events, batch>>
main == <<call, who>>
vars == <<owner, service, handler, recorder, thread, pump, main>>

Pids == UNION Programs
(* Seeded fault: a write error is not passed on. *)
RelayedRetune == {"retune"}

Relayed == {"writeError", "retune"}     \* eDVBTSRecorder::filepushEvent()

TypeOK ==
  /\ phase \in {"new", "prepared", "started", "gone"} /\ starts \in 0 .. MaxStarts
  /\ state \in {"Idle", "Prepared", "Recording"}
  /\ {want, tuned, record, target, demux, running, source, mstop, pending, data} \subseteq BOOLEAN
  /\ sort \in Sorts /\ chan \in {"none", "tuning", "ok", "failed"}
  /\ program \in Programs \cup {NoProgram} /\ cached \in Programs \cup {{}, NotCached}
  /\ {active, recPids, filter} \subseteq SUBSET (Pids \cup {PAT}) /\ tap \in Pids \cup {PAT}
  /\ pc \in {"none", "test", "read", "reading", "write", "wait", "flush", "last", "ended"}
  /\ events \in Seq({"readError", "stopped"} \cup Relayed) /\ batch \in Nat
  /\ call \in {"idle", "closed", "told", "join"} /\ who \in {"timer", "writeError", "sourceStops"}

Init ==
  /\ phase = "new" /\ starts = 0
  /\ state = "Idle" /\ active = {}
  /\ want = FALSE /\ tuned = FALSE /\ record = FALSE /\ target = FALSE
  /\ sort \in Sorts /\ chan = "none" /\ demux = FALSE
  /\ program = NoProgram /\ cached = NotCached
  /\ recPids = {} /\ filter = {} /\ tap = PAT /\ running = FALSE /\ source = FALSE
  /\ pc = "none" /\ mstop = TRUE /\ pending = FALSE /\ data = FALSE
  /\ events = <<>> /\ batch = 0 /\ call = "idle" /\ who = "timer"

Idle == phase # "gone" /\ call = "idle" /\ batch = 0

-----------------------------------------------------------------------------
(* The PMT handler, and what the service does about its events.            *)

PidsToRecord(p) == p \cup {PAT}

(* doRecord() with m_tuned = t and the handler's program p, or c from its  *)
(* cache.  Its doPrepare() has nothing to do: nobody calls it in stateIdle. *)
(* The cache is filled even when there is no program yet (pmt.cpp:736).    *)
Info(c, p) == IF c # NotCached THEN c ELSE p
FillsCache(c, p) == cached' = IF Info(c, p) = NoProgram THEN {} ELSE Info(c, p)

DoRecordWaits(t, c) ==
  /\ ~t /\ cached' = c
  /\ UNCHANGED <<state, record, target, active, recorder, thread>>

DoRecordFails(t, c) ==
  /\ t /\ ~record /\ cached' = c
  /\ "open" \in Faults \/ ~demux \/ "recorder" \in Faults
  /\ data' = FALSE                                       \* ::remove(), and open()
  /\ UNCHANGED <<state, record, target, active, recorder, pc, mstop, pending>>

(* The file is emptied and the recorder created, unless there is one.      *)
Allocates(t) ==
  /\ t /\ (record \/ demux)
  /\ record' = TRUE /\ target' = TRUE /\ data' = (record /\ data)

DoRecordNoInfo(t, c, p) ==
  /\ Allocates(t) /\ Info(c, p) = NoProgram /\ FillsCache(c, p)
  /\ UNCHANGED <<state, active, recorder, pc, mstop, pending>>

StartRecorder(pids) ==
  \/ /\ running' = TRUE /\ source' = TRUE /\ filter' = pids
     /\ tap' = CHOOSE p \in pids : \A q \in pids : p <= q
     /\ pc' = "test" /\ mstop' = FALSE
  \/ "source" \in Faults /\ UNCHANGED <<running, source, filter, tap, pc, mstop>>

(* The pid of the PES filter is not removed by DMX_REMOVE_PID. *)
DoRecordRuns(t, c, p) ==
  LET pids == PidsToRecord(Info(c, p))
      obsolete == active \ pids
  IN  /\ Allocates(t) /\ Info(c, p) # NoProgram /\ FillsCache(c, p)
      /\ recPids' = ((IF record THEN recPids ELSE {}) \cup (pids \ active)) \ obsolete
      /\ active' = pids /\ state' = "Recording" /\ UNCHANGED pending
      /\ \/ state # "Recording" /\ StartRecorder(recPids')
         \/ /\ state = "Recording"
            /\ filter' = IF running THEN (filter \cup (pids \ active)) \ (obsolete \ {tap})
                                    ELSE filter
            /\ UNCHANGED <<running, source, tap, pc, mstop>>

DoRecordDone(t, c, p) == DoRecordWaits(t, c) \/ DoRecordNoInfo(t, c, p) \/ DoRecordRuns(t, c, p)
DoRecord(t, c, p) == DoRecordDone(t, c, p) \/ DoRecordFails(t, c)

(* channelStateChanged() to state_ok, with the eventTuned it sends. *)
Tuned(st) ==
  /\ chan' = "ok"
  /\ demux' \in (IF demux \/ "demux" \notin Faults THEN {TRUE} ELSE BOOLEAN)
  /\ tuned' = (tuned \/ demux')
  /\ IF demux' /\ st = "Recording" /\ want
     THEN DoRecord(TRUE, NotCached, program)
     ELSE /\ cached' = (IF demux' THEN NotCached ELSE cached)
          /\ UNCHANGED <<record, target, recorder, thread>>

TuneExt ==
  \/ Tuned("Prepared")
  \/ /\ \/ sort = "dvb" /\ chan' = "tuning"
        \/ "misconfigured" \in Faults /\ chan' = "none"  \* or errAllSourcesBusy
     /\ UNCHANGED <<demux, tuned, cached, record, target, recorder, thread>>

DoPrepare == state' = "Prepared" /\ active' = {} /\ TuneExt

ChannelOk ==
  /\ Idle /\ chan = "tuning" /\ Tuned(state)
  /\ IF demux' /\ state = "Recording" /\ want THEN TRUE ELSE UNCHANGED <<state, active>>
  /\ UNCHANGED <<owner, want, sort, program, pump, main>>

ChannelLost ==                          \* a DVB channel, which tunes again
  /\ Idle /\ sort = "dvb" /\ chan = "ok" /\ chan' = "tuning"
  /\ UNCHANGED <<owner, service, sort, demux, program, cached, recorder, thread, pump, main>>

ChannelFails ==
  /\ Idle /\ chan = "tuning" /\ chan' = "failed"
  /\ UNCHANGED <<owner, service, sort, demux, program, cached, recorder, thread, pump, main>>

PATready ==                             \* the PMT is on another pid now
  /\ Idle /\ chan = "ok" /\ demux /\ program' = NoProgram
  /\ UNCHANGED <<owner, service, sort, chan, demux, cached, recorder, thread, pump, main>>

NewProgramInfo(c, p) ==
  IF state = "Idle" THEN DoPrepare
  ELSE IF want THEN DoRecord(tuned, c, p) /\ UNCHANGED <<tuned, chan, demux>>
  ELSE cached' = c /\ UNCHANGED <<state, tuned, record, target, active, chan, demux, recorder, thread>>

(* Seeded fault: m_have_cached_program is not reset. *)
PMTreadyCached(p) ==
  /\ Idle /\ chan = "ok" /\ demux /\ program' = p
  /\ NewProgramInfo(cached, p)
  /\ UNCHANGED <<owner, want, sort, pump, main>>

PMTready(p) ==
  /\ Idle /\ chan = "ok" /\ demux /\ program' = p
  /\ NewProgramInfo(NotCached, p)
  /\ UNCHANGED <<owner, want, sort, pump, main>>

-----------------------------------------------------------------------------
(* stop(): when the thread runs, its source is closed, m_stop set, SIGUSR1 *)
(* sent and the thread joined; then the service goes on.                   *)

(* gotRecordEvent() gives the service back on these events; the timer also *)
(* when the recording ends or is removed.                                  *)
(* Seeded fault: a write error is only shown to the user. *)
GivesBackAtEnd == {"timer", "sourceStops"}

GivesBack == {"timer", "writeError", "sourceStops"}

(* The rest of stop(), then what its caller does.  A target that is open   *)
(* although nothing was recorded stays open.  stopRecordService() and the  *)
(* timer drop the last references: the recorder dies, and its pump.        *)
StopEnds(w, q) ==
  /\ target' = (target /\ state # "Recording")
  /\ state' = "Idle" /\ record' = FALSE
  /\ running' = FALSE /\ source' = FALSE /\ filter' = {}
  /\ IF w \in GivesBack THEN phase' = "gone" /\ events' = <<>> ELSE phase' = phase /\ events' = q
  /\ call' = "idle"

(* Seeded fault: the source is closed after the thread has been stopped. *)
StopClosesLast(w, q) ==
  /\ who' = w
  /\ IF state = "Recording" /\ running
     THEN /\ filter' = {} /\ call' = "closed" /\ events' = q
          /\ UNCHANGED <<phase, state, record, target, running, source, pc, mstop>>
     ELSE StopEnds(w, q) /\ UNCHANGED <<pc, mstop>>
  /\ UNCHANGED <<starts, want, tuned, active, handler, recPids, tap, pending, data>>

Stop(w, q) ==
  /\ who' = w
  /\ IF state = "Recording" /\ running
     THEN /\ filter' = {} /\ source' = FALSE /\ call' = "closed" /\ events' = q
          /\ UNCHANGED <<phase, state, record, target, running, pc, mstop>>
     ELSE StopEnds(w, q) /\ UNCHANGED <<pc, mstop>>
  /\ UNCHANGED <<starts, want, tuned, active, handler, recPids, tap, pending, data>>

StopKeeps == UNCHANGED <<owner, service, handler, recorder, data, batch, who>>

SetStop ==                       \* m_stop was set already when nothing runs
  /\ call = "closed" /\ call' = "told" /\ mstop' = TRUE
  /\ StopKeeps /\ UNCHANGED <<pc, pending, events>>

(* The signal interrupts a read() and an aio_suspend(); elsewhere it goes  *)
(* unnoticed.  wait() returns an error then, which flush() ignores.        *)
Interruptible == pc = "reading" \/ (pc \in {"wait", "flush"} /\ pending)

SendSignal ==
  /\ call = "told" /\ call' = "join"
  /\ \/ pc = "reading" /\ pc' = "flush" /\ UNCHANGED events
     \/ pc = "wait" /\ pending /\ pc' = "flush" /\ events' = Append(events, "writeError")
     \/ pc = "flush" /\ pending /\ pc' = "last" /\ UNCHANGED events
     \/ ~Interruptible /\ UNCHANGED <<pc, events>>
  /\ StopKeeps /\ UNCHANGED <<mstop, pending>>

Joins ==
  /\ call = "join" /\ StopEnds(who, events)
  /\ UNCHANGED <<starts, want, tuned, active, handler, recPids, tap, mstop, pending, data, batch, who>>

(* Seeded fault: the thread is told to stop, and not waited for. *)
JoinsNothing == Joins /\ UNCHANGED pc

Join == Joins /\ pc = "ended" /\ pc' = "none"

-----------------------------------------------------------------------------
(* The timer.                                                              *)

(* recordService() and prepare(); when that fails the timer stops and      *)
(* drops the service at once.                                              *)
Prepare ==
  /\ Idle /\ phase = "new"
  /\ \/ DoPrepare /\ chan' # "none" /\ phase' = "prepared" /\ UNCHANGED <<want, sort, program>>
     \/ phase' = "gone" /\ UNCHANGED <<service, handler, recorder, thread>>
  /\ UNCHANGED <<starts, pump, main>>

(* start(), again after an error. *)
Start ==
  /\ Idle /\ phase = "prepared" /\ state # "Idle"
  /\ starts < MaxStarts /\ starts' = starts + 1 /\ want' = TRUE
  /\ \/ DoRecordDone(tuned, cached, program) /\ phase' = "started"
     \/ DoRecordFails(tuned, cached) /\ phase' = phase
  /\ UNCHANGED <<tuned, sort, chan, demux, program, pump, main>>

StopRecordService ==             \* the end, or the timer is removed
  /\ Idle /\ phase \in {"prepared", "started"}
  /\ Stop("timer", events) /\ UNCHANGED batch

SourceStops ==                   \* eventStopped, evRecordAborted
  /\ Idle /\ sort = "stream" /\ chan = "ok"
  /\ Stop("sourceStops", events) /\ UNCHANGED batch

-----------------------------------------------------------------------------
(* The main loop serves the recorder's pump.                               *)

DoRecv ==
  /\ Idle /\ events # <<>> /\ batch' = Len(events)
  /\ UNCHANGED <<owner, service, handler, recorder, thread, events, main>>

(* recordEvent(); a broken stream makes it tune again. *)
RecordEvent(e, q) ==
  \/ e = "writeError" /\ e \in Relayed /\ Stop("writeError", q)
  \/ /\ ~(e = "writeError" /\ e \in Relayed) /\ events' = q
     /\ chan' = IF e = "retune" /\ e \in Relayed /\ sort = "dvb" THEN "tuning" ELSE chan
     /\ UNCHANGED <<owner, service, sort, demux, program, cached, recorder, thread, main>>

PopEvent ==
  /\ phase # "gone" /\ call = "idle" /\ batch > 0 /\ batch' = batch - 1
  /\ RecordEvent(Head(events), Tail(events))

(* do_recv() goes on in the pump that was deleted (message.h:71): what it  *)
(* finds there, at best, is an empty queue.                                *)
LeaveDeleted ==
  /\ phase = "gone" /\ batch > 0 /\ batch' = 0
  /\ UNCHANGED <<owner, service, handler, recorder, thread, events, main>>

-----------------------------------------------------------------------------
(* The thread.                                                             *)

ThreadKeeps == UNCHANGED <<owner, service, handler, recorder, batch, main, mstop>>
Goes(from, to) == pc = from /\ pc' = to
Sends(e) == events' = Append(events, e)

TestStop ==
  /\ Goes("test", IF mstop THEN "flush" ELSE "read")
  /\ ThreadKeeps /\ UNCHANGED <<pending, data, events>>

(* read() on a closed descriptor fails at once; m_stop is looked at first. *)
EnterRead ==
  /\ \/ source /\ Goes("read", "reading") /\ UNCHANGED events
     \/ ~source /\ mstop /\ Goes("read", "flush") /\ UNCHANGED events
     \/ ~source /\ ~mstop /\ Goes("read", "flush") /\ Sends("readError")
  /\ ThreadKeeps /\ UNCHANGED <<pending, data>>

ReadReturns ==                   \* data, an overflow (which is counted), or an error
  /\ \/ chan = "ok" /\ source /\ pc = "reading" /\ pc' \in {"write", "test"} /\ UNCHANGED events
     \/ "read" \in Faults /\ Goes("reading", "flush") /\ Sends("readError")
  /\ ThreadKeeps /\ UNCHANGED <<pending, data>>

WriteFails ==                    \* aio_write(), or the status of an earlier one
  /\ "write" \in Faults /\ pc \in {"write", "wait"} /\ pc' = "flush"
  /\ Sends("writeError") /\ ThreadKeeps /\ UNCHANGED <<pending, data>>

(* The next buffer may still be busy, then its write is waited for. *)
WriteData ==
  /\ pc = "write" /\ pc' \in {"test", "wait"}
  /\ \/ UNCHANGED events
     \/ "broken" \in Faults /\ Len(events) < MaxEvents /\ Sends("retune")
  /\ pending' = TRUE /\ data' = TRUE /\ ThreadKeeps

WaitDone ==
  /\ ~pending /\ Goes("wait", "test")
  /\ ThreadKeeps /\ UNCHANGED <<pending, data, events>>

Flush ==
  /\ \/ ~pending /\ Goes("flush", "ended")
     \/ Goes("last", "ended")
  /\ Sends("stopped") /\ ThreadKeeps /\ UNCHANGED <<pending, data>>

AioDone ==
  /\ pending /\ pending' = FALSE
  /\ ThreadKeeps /\ UNCHANGED <<pc, data, events>>

MainStep == DoRecv \/ PopEvent \/ LeaveDeleted \/ SetStop \/ SendSignal \/ Join
ThreadStep == TestStop \/ EnterRead \/ WriteFails \/ WriteData \/ WaitDone \/ Flush

Next ==
  \/ Prepare \/ Start \/ StopRecordService \/ SourceStops
  \/ ChannelOk \/ ChannelLost \/ ChannelFails \/ PATready
  \/ \E p \in Programs : PMTready(p)
  \/ MainStep \/ ThreadStep \/ ReadReturns \/ AioDone

Spec == Init /\ [][Next]_vars

(* The main loop and the thread run, and a write that was begun ends.      *)
(* Whether the demux has data, and when a recording is stopped, is open.   *)
FairSpec == Spec /\ WF_vars(MainStep) /\ WF_vars(ThreadStep) /\ WF_vars(AioDone)

-----------------------------------------------------------------------------
(* Properties                                                              *)

(* The thread runs only while the service records, into a file that is     *)
(* open: stop() closes it after the thread is joined                       *)
(* (servicedvbrecord.cpp:188-200).                                         *)
RunsOnlyRecording == pc # "none" => state = "Recording" /\ record /\ target

(* The demux passes the pids of the program the PMT tells of, however it   *)
(* changes and whenever the channel tunes again                            *)
(* (servicedvbrecord.cpp:463-497, demux.cpp:767-789).                      *)
RecordsProgram ==
  Idle /\ running /\ program # NoProgram => filter = PidsToRecord(program)

(* doRecord() removes the file (servicedvbrecord.cpp:299) only before      *)
(* anything has been recorded: after a write error or the end of its       *)
(* source a recording is not begun again.                                  *)
KeepsRecording == [][data => data']_vars

(* stop() returns: the thread leaves its read(), its wait for a buffer or  *)
(* its flush, whenever it is told (demux.cpp:820-845, filepush.cpp:409).   *)
JoinReturns == call # "idle" ~> call = "idle"

(* A write error that the recorder's thread has reported ends the          *)
(* recording (filepush.cpp:393, demux.cpp:928, servicedvbrecord.cpp:539).  *)
WriteErrorEnds == (\E i \in 1 .. Len(events) : events[i] = "writeError") ~> state # "Recording"

(* "try it again when we are tuned in" (servicedvbrecord.cpp:294): once    *)
(* tuned, a started service has its recorder, if there are no faults.      *)
TriedWhenTuned == Idle /\ want /\ tuned => record

(* "terminate outstanding IO requests." (filepush.h:82): no write is in    *)
(* flight when the thread has ended.                                       *)
FlushedWhenEnded == pc = "ended" => ~pending

(* do_recv() leaves the pump before it is deleted.                         *)
PumpOutlivesLoop == phase = "gone" => batch = 0

(* Nothing of a recording is open when it is gone.                         *)
TargetIsClosed == phase = "gone" => ~target
=============================================================================
