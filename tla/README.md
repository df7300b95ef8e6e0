# TLA+ models of enigma2

enigma2 is the user-space program of a Linux set-top box: it tunes, plays and
records DVB services, keeps timers, and draws the user interface.  The C++ part
(`src/lib`) owns devices, threads and services; the Python part
(`src/*.py`, `src/lib/python`) owns timers, jobs, settings and screens.  Both run
in **one** main loop (`eMainloop`), and helper threads do what would block it.

This directory holds models of the parts in which order, time and failure
matter, configurations that check them with TLC, and proofs for TLAPS.

| Module | Models | Code |
|---|---|---|
| `EventChannel` | what a message pump promises (abstract) | - |
| `MessagePump` | posting events from threads to the main loop | `lib/base/message.h`, `filepush.cpp` 304-316 |
| `FilePush` | playback: push thread, seek, flush, stop | `lib/dvb/filepush.cpp` 33-316, parts of `lib/dvb/dvb.cpp` |
| `FilePushProofs` | pause and seek, proved | |
| `RecordTimer` | recording timers: lists, alarm, states, recorders | `timer.py`, `RecordTimer.py`, `Screens/TimerEdit.py` |
| `TimerStore` | the same timers with their file, crashes and restarts (extends `RecordTimer`) | `RecordTimer.py` 955-1187, `TimerSanityCheck.py` 33-54 |
| `RecordTimerProofs` | both: places, recorders, order, alarm, file; proved | |
| `RepeatTime` | when a repeated timer runs next | `timer.py` 46-106 |
| `RepeatTimeProofs` | its loop, proved | |
| `ServiceRecord` | one recording: service, recorder and recorder thread | `servicedvbrecord.cpp`, `demux.cpp` 394-935, `filepush.cpp` 320-428, parts of `pmt.cpp` |
| `ServiceRecordProofs` | thread, file and pids, proved | |
| `ChannelPool` | channels and tuners: use counts, cache, delayed close | `lib/dvb/dvb.cpp`, `dvb.h`, parts of `frontend.cpp`, `pmt.cpp` |
| `ChannelPoolProofs` | who keeps a tuner, who feeds it, what is promised, proved | |
| `Mainloop` | timers, notifiers and the reactor | `lib/base/ebase.cpp`, `ebase.h`, `e2reactor.py` |
| `BaseProofs` | `Mainloop` and `MessagePump`: invariants and refinement, proved | |
| `FileEraser` | a thread that ends by itself, on `eThread` (uses `EventChannel`) | `lib/components/file_eraser.cpp`, `lib/base/thread.cpp` |
| `FileEraserProofs` | hand-over, truncation, use of the channel, proved | |
| `JobManager` | background jobs, tasks, retry and abort | `Components/Task.py`, `console.cpp`, `Screens/TaskView.py` |
| `JobManagerProofs` | the stack of callbacks, proved | |
| `MC*` | small instances for TLC (the one of `FileEraser` is its configuration `MCFileEraser.cfg`) | |

Run a model with `tlc -config X.cfg M`, a proof with `tlapm M.tla`.

## 1. Inventory of the system

**Main loop** (`lib/base/ebase.cpp`).  State: timers sorted by the time they are
due, notifiers per file descriptor, the poll set.  Operations: start and stop a
timer or notifier, `processOneEvent`.  Everything else is called back from it;
callbacks may stop or destroy the very objects that call them.  The twisted
reactor (`e2reactor.py`) drives it with timeouts of its own.  *Correct:* no
callback for a stopped notifier or a former descriptor; `poll()` wakes for every
timer; timers, data and the reactor are all served.  Module `Mainloop`.

**Message pump** (`lib/base/message.h`).  State: a queue with a mutex, an
eventfd.  `send()` from any thread; `do_recv()` on the main loop.  The objects
that post (`eFilePushThread::sendEvent`) add a reference for each event and the
handler releases it.  *Correct:* every event is handled once, in order; the
object outlives its events; the queue is never found empty.  Modules
`MessagePump`, `EventChannel`.

**Threads** (`lib/base/thread.cpp`): start-up handshake with a semaphore,
restart, join.  Used by the push threads, the file eraser, the EPG cache, the
scan of music files.  *Correct:* the handshake never blocks a caller, nobody
joins a thread that will not end, and the program is not aborted by the
handshake's own ASSERTs.  Modelled in `FileEraser`, the client that restarts its
thread most.

**File eraser** (`lib/components/file_eraser.cpp`): a thread with its own main
loop that ends after a second without work and is started again by the next
`erase()`.  *Correct:* a file that is sent is handled, whatever the thread is
about to do.

**Playback** (`lib/dvb/filepush.cpp`, `lib/dvb/dvb.cpp`).  State: `m_stop`,
`m_run_state`, a mutex and a condition; the thread's span, buffer and end-of-file
count; the cue sheet's seek requests; the DVR device.  Operations: `start`,
`stop`, `pause`, `resume`, `seekTo`, `flushPVR`.  A pump carries events back.
*Correct:* while the DVR is flushed the thread is quiet; after a seek nothing of
the old position is played; `stop()` returns; a seek is served.  Module `FilePush`.

**Record service** (`lib/service/servicedvbrecord.cpp`), the recorder
(`eDVBTSRecorder`, `lib/dvb/demux.cpp`), its thread (`eFilePushThreadRecorder`)
and **navigation** (`lib/nav/core.cpp`, `Navigation.py`).  State: `m_state`,
`m_want_record`, `m_tuned`, the active pids; the pids and descriptor of the
recorder; the thread with its asynchronous writes.  Operations: `prepare`,
`start`, `stop`, events of the PMT handler and of the recorder.  *Correct:* what
is recorded belongs to the program the PMT tells of; a recording that has data is
not begun again; a write error ends it; `stop()` returns.  Module `ServiceRecord`;
for `RecordTimer` the same thing is the environment: its `live` is navigation's
table, the failures of `prepare()` and `start()` and the record events are choices.

**Timers** (`timer.py`, `RecordTimer.py`, `PowerTimer.py`).  State: the sorted
`timer_list`, `processed_timers`, one alarm, and for each entry times, state,
flags and a recorder; `timers.xml`.  Operations: `record`, `timeChanged`,
`removeEntry`, the alarm, record events, the user's edits, save and load.
*Correct:* an entry is in one place; no entry is late; the alarm comes in time; a
recorder is owned by exactly one active entry, started once and stopped; a removed
entry records no more; what the user has set survives a restart.  Modules
`RecordTimer`, `RepeatTime`, `TimerStore`.  `PowerTimer.py` is a second client of
`timer.py`, not modelled.

**Resource manager and channels** (`lib/dvb/dvb.cpp`): channels and tuners with
use counts, a cache of the last channel, a delayed release, a delayed close of
tuners which others may be fed by.  *Correct:* who holds a channel keeps its
tuner; `canAllocateChannel()` promises what `allocateChannel()` does; a tuner
nobody needs is closed.  Module `ChannelPool`.

**Jobs** (`lib/python/Components/Task.py`): a queue of jobs, each a sequence of
tasks with conditions, retry and abort, built of synchronous callbacks.
*Correct:* one job at a time; a success has run all its tasks; a failure is
asked about once and reaches the right job; the queue moves on.  Module
`JobManager`.

**PMT handler, CA handler, scan, EPG cache, SEC, stream server, time shift,
settings**: state machines driven by callbacks; only the parts named in the table
above are modelled.  **Channel lists, skins, screens, widgets**: formats and
presentation, left out.

Interactions: threads -> main loop through pumps; main loop -> threads through
shared flags, a condition, a semaphore and SIGUSR1; Python -> C++ by calls that
may call back into Python before they return (record events); timers -> services
through navigation -> PMT handler -> channels -> tuners; everything under one
loop, so a handler that does not return stops the box.

### What is hard here

`PROJECT.json` lists each hazard at its line.  In short: events posted while they
are counted; an object released while its events are queued, or by the handler of
one; a flag tested and then slept on; a signal that comes just before the system
call; a sorted list whose keys change in place; callbacks that re-enter the lists
they are called from; flags of one occurrence used in the next; a retry without
delay; a clock that is set back; a crash between a change and the file; a thread
that ends while it is given work; use counts that tell who else is there; a
program that changes while it is recorded.

## 2. Plan

Done:

1. `MessagePump` refining `EventChannel`: every thread of the program talks to
   the main loop through it.
2. `FilePush`: the one place where main loop and thread share memory.
3. `RecordTimer`, with `RepeatTime` for the arithmetic of days; proofs of 1-3.
4. `TimerStore`: `saveTimer`/`loadTimer`, crash and restart, on top of 3.
5. `JobManager`, `Mainloop`, `FileEraser` (over `EventChannel`), `ChannelPool`,
   `ServiceRecord`.

6. Proofs of every safety invariant and every action property the runs check, and
   of the types of the modules they are about.

A theorem worth proving next: that the recorder's thread of `FilePush` and that of
`ServiceRecord` follow the same protocol of `m_stop` and a signal.

Worth modelling next: `ServiceRecord` composed with `RecordTimer`, so that the
timers' environment is itself a model; power timers; the conflict check; the CA
handler; the scan; settings.

## 3. The models

### MessagePump and EventChannel

`send()` is two steps, `Push` (under the mutex) and `TriggerEvent` (the eventfd
is written after the mutex is released); `sendEvent()` puts `TakeReference` in
front.  On the main loop `ReadEventfd` takes the whole count, `PopEvent` and
`ReleaseEvent` serve one event each.  `OwnerRelease` drops the owner's pointer
between two handlers or from inside one.  `ref` is the reference count of the
object that contains the pump; when it reaches 0 the object is deleted.

A sender runs only while the owner keeps the object, because `stop()` joins the
thread first (`dvb.cpp` 2198-2204).  `do_recv()` has a branch for an empty queue,
which logs and breaks; `NoEmptyPop` says that it is dead code, and it is.

The refinement maps the channel to the queue plus the event being handled, and
`open` to `alive`: a `Push` is a `Send`, a `ReleaseEvent` a `Receive` or, with the
last reference, a `ReceiveAndClose`.

### FilePush

`tpc` walks through the two nested loops of `thread()`: `LoopTop`, the span
(`FindSeekRequest`, `PopSeekRequest`, `ComputeSpan`; the cue sheet's lock is given
back in between, so a request may be queued meanwhile), `ReadData` /
`ReadNothing` / `ReadFails`, the 250 ms `Poll*`, `EndOfFile`, `WriteLoop` /
`EnterWrite` / `Write*`, then `SendStopped`, the lock scope (`Acknowledge`,
`TestPaused`, `Sleep`, `Wake`, `LeaveLockScope`) and `RestartOrExit`.  `mpc` walks
through the owner's calls: `SeekTo`, `Pause*`, `FlushDvr`, `Resume` and
`StopRequest`, `StopSignal`, `Join`.  These calls are one after the other on the
main loop, so a stop never falls into a flush.

SIGUSR1 sets `intr` only if the thread is inside a system call (`InSystemCall`);
one that comes in the gap before `write()` is lost.  Waiting releases the mutex
and adds the waiter to `waiters`; a signal wakes one waiter; `SpuriousWakeup` may
wake any.  Data is the number of seeks that had been served when it was read.

Left out: offsets and sizes (a span is there or used up), the pump (module
`MessagePump`), `m_skipmode_*`, the recorder thread (`ServiceRecord`), the
hisilicon branches.

### RecordTimer

`loop` is the progress of `calcNextActivation()`: `Calc`, for a clock that went
back `Reevaluate` and `Reevaluated`, then one `DoActivate` after the other until
the first entry lies in the future (`SetNextActivation`).  `DoActivate(w)` is
split by what `activate()` does: `Skip`, `DiskNotReady`, `DiskFull`, `Prepare`,
`PrepareFails`, `PrepareRefused`, `PassStart`, `ZapRefused` (a movie player is
still running), `StartRecording`, `StartFails`, `End`; all of them end in `Settle`, the second half of `doActivate()`.  The main
loop's other handlers are `Record`, `Edit`, `Disable`, `Enable`, `RemoveEntry`
(with `Removed` for what follows its nested `calcNextActivation()`), `WriteError`,
`RecordAborted`, `GstRecordEnded`, `Cleanup`, `TimerFires`, and time (`Tick`,
`SetClock`).

Handlers take no time.  A nested call of `calcNextActivation()` returns when the
first entry is in the future, and then so does the outer one, so one `loop`
stands for both.  `Insort` keeps the position of `bisect.insort`: behind the
entries that are not later.  `SkipChecked` is the side effect hidden in
`shouldSkip()`.  The comparison of two wrapped pointers in `gotRecordEvent()`
(`RecordTimer.py` 903-904, with a TODO) is taken to accept an entry's own events
and no others.  `processed_timers` is kept in the order of arrival: the code sorts
it, but nothing depends on the order.  `Only` is what the list comprehension of
`cleanupDaily()` does.

`Streams` are the entries whose recorder is an `eServiceMP3Record`.  The two sorts of
recorder report different things: `eDVBServiceRecord` write errors and that it was
aborted, the other one that its stream has ended.  `GstRecordEnded` calls
`doActivate()` whatever the state of the entry is, as `RecordTimer.py` 936-939 does.
An entry that repeats and was disabled while it ran is among the processed ones
then, or waits again, while its recorder goes on: it is skipped and put into
`processed_timers` once more.  Every property of the lists fails from there on
(`RecordTimerTwice` below); the runs leave the case out, by which entries are
streams, and the theorems by their hypothesis `Steady`.

Left out: the answers "stop current event" to disabling a timer that runs (of the
three of `TimerEdit.py` 196-222 only "don't stop current event but disable future
events" is modelled), autoincrease, standby and deep standby, the zap dialogs, tuner priorities, `isInTimer`, the 5 s poll before the clock is set.

### RepeatTime

One step per round of `nextRepeatTime()`'s loop.  Local time is a number of
hours, days are `Hours` long and weeks `Week` days.  `Fits` is the loop's
condition as Python parses it: the conditional expression takes the whole
conjunction.  `AddOneDay` steps over a day on which the hour it wants is in
`Missing`.

### TimerStore

Extends `RecordTimer` with `file` (what `saveTimer()` writes of each entry) and a
program that is `"up"` or `"loading"`.  Each action of `RecordTimer` is taken with
what it does to the file: `Process` saves while an ending entry is still in
`timer_list`, `UserRecords` is followed by `Save` at the end of `record()`,
`RemovedAndSaved` and `CleanedAndSaved` save behind `Removed` and `Cleanup`,
`UserEdits` and `StreamEnded` save at once, `Unsaved` are those that do not, among
them the disabling and enabling of a timer in the list.  The file is replaced by a rename, so a
crash leaves the old or the new one; an error of writing (`MaxSaveErrors`) is
swallowed and only remembered in the history variable `stale`.  `Crash` and
`Shutdown` start again with `Load`, which records one entry after the other, each
with the `setNextActivation` it brings about (`LoadProcess`), and with the
exception an entry raises that is due while there is no navigation yet
(`LoadRaises`).  `record()` drops an entry without a word when `doubleCheck()` finds
one in `timer_list` for the same service (`Service`) that contains it (`Double`); it
is not asked when `check()` has found a conflict, which is left open.  `dropped`
remembers such entries until the next start: they are missing in the next file.
`Double` is the comparison of `TimerSanityCheck.py` 39; groups of services and the
early `return` for a group beside a single service are not told apart, which a
`Load` that keeps the entry covers.

### ServiceRecord

`phase` is what the timer has done with its recording; `state`, `want`, `tuned`,
`record`, `target`, `active` are members of `eDVBServiceRecord`; `chan`, `demux`,
`program`, `cached` belong to its PMT handler; `recPids`, `running`, `source`,
`filter`, `tap` to the recorder and the demux; `pc`, `mstop`, `pending`, `data` to
the thread; `events` and `batch` to the pump (`batch` is the count `do_recv()` has
read).  `doRecord()` is called from four places and is an operator with one
disjunct per way out (`DoRecordWaits`, `-Fails`, `-NoInfo`, `-Runs`).  `Stop` is
split where the thread may run in between: the source is closed (`Stop`), `m_stop`
set (`SetStop`), the signal sent (`SendSignal`), the thread joined (`Join`), which
is when the rest of `stop()` and its caller follow (`StopEnds`).  SIGUSR1
interrupts a `read()` and an `aio_suspend()` and is lost elsewhere.  The thread's
steps are `TestStop`, `EnterRead`, `ReadReturns`, `WriteData`, `WaitDone`,
`WriteFails`, `Flush`; `AioDone` ends a write.

`Faults` says what may go wrong (a fault may happen any time and often).  Left
out: simulated and streamed recordings, cached pids, pids the demux refuses,
EIT and cut list, meta files, which of several writes is in flight.

### ChannelPool

The calls of the resource manager nest (`AddUse` may stop a timer, `ReleaseUse`
may destroy a channel, which releases a tuner, which starts a timer), and all run
in one thread.  So the state is one record, `pool`, each function an operator from
record to record, and the steps are the calls from outside: `Allocate` and
`FreeChannel` of a service's PMT handler (with the second use its `eDVBScan`
takes), `AllocateRaw`, `TuneRaw`, `FreeRaw` of a user without channel id,
`AllocatePVR`, the timers `ReleaseTimer`, `DisableTimer`, `TuneLoop`, and reports
of the tuner (`FeEvent`).

Left out: simulated channels, FBC tuners, demuxes, the choice of a tuner by its
score (any that fits), the commands inside a sequence, and channels that the
streaming client gives an id (`pmt.cpp` 894-896): such a channel has no tuner, is
registered all the same (`dvb.cpp` 1204-1215) and would be shared by
`allocateChannel()`, so that `UserKeepsTuner` is about channels of tuners only.
`Tunes`, which transponders a tuner can receive, is a constant; in the code it also
depends on what the linked tuners are doing (`sec.cpp` 66-95, 176-215), so that the
model allocates in states in which the code refuses.  A `tune()` that fails clears
the commands and stops their timer (`frontend.cpp` 2425, 2546-2548); `NoChannel`
leaves a close that is pending, which may come later than in the code.

### Mainloop

`at` says where the loop is: in the reactor (`RunCall`, `DoPoll`), in `iterate`,
among the due timers, in a callback, in `poll()`, serving its results.  In every
callback `MaxOps` calls may start, stop or drop any timer or notifier
(`StartTimer` ... `DropNotifier`) or ask the reactor for a call (`CallLater`).
Time is relative, so behaviours do not end: a `Tick` ages every timer in the list,
the timeouts and the reactor's call.  It passes in `poll()` and, up to `Late`
ticks, inside a timer's callback, where `processOneEvent()` works on with an old
`now`.  `EnterPoll` uses the timeout as `iterate()` has computed it before the
callbacks ran (`ebase.cpp` 341-351).  Milliseconds are `Ms` ticks, so the rounding of the timeout is seen.

Left out: `changeInterval` (nobody calls it), nested loops, signals other than as
a spurious `EINTR`, notifiers for anything but reading.

### FileEraser

`mpc` is the main thread in `erase()` (`sync`, `join`, `create`, `wait`) or in the
destructor, `tpc` the eraser thread in its loop.  `sem` is `m_state`.  The pump is
`EventChannel`, instantiated: what `MessagePump` is shown to implement is what
`FileEraser` relies on.  `SetErase` changes speed and flags between any two
steps; `CreateFails` is `pthread_create()` failing.  The bits of `erase_flags` are
one boolean: whether the one for this sort of file is set (87-88) and whether any
is (110) is told apart nowhere else.

The main thread and the eraser thread meet in `m_state`, `m_alive` and `m_started`,
and a step ends where the other one can act on what was read or written.  A thread
that ends clears `m_alive` (`Completed`, `thread.cpp` 10) and reads `m_started`
afterwards (`Finish`, 13).  When `runAsync()` runs in between it clears `m_started`
(48, `Start`, remembered in `raced`), so that the old thread calls `hasStarted()` as
the new one does, and `m_state` is given back twice: `StartFatal` is the ASSERT of
line 137 in the new thread, whatever `m_started` says by then, `SyncFatal` the
`eFatal()` of line 107.

### JobManager

The code is a web of synchronous callbacks.  `stack` holds the calls that are still
to be made, innermost first, and one step makes one of them: `DoKick`,
`DoRunNext`, `DoRun`, `DoCallback` and `DoAfter` (`taskCallback` before and after
its own callbacks), `DoDone`, `GiveUp`, `Retry`, `DoClear`, `DoAbortResident`.  The
user and the processes act when it is empty.  An exception stops the model
(`raised`).  `astray` remembers that a job left a resident task behind; then the
manager no longer runs one job at a time, see below.  `AbortWaiting` is
`list.remove`: one place of the job, the rest in order.

## 4. What TLC checks

| Run | Instance | Shows |
|---|---|---|
| `message_pump` | 2 senders, 3 events each | `NoUseAfterDelete`, `ImplementsChannel`, `DroppedIsDeleted` |
| `file_push` | 3 seeks, 2 empty reads, file or stream | `PausedIsQuiet`, `SeekDropsOldData`, `StopReturns`, `SeekIsServed` |
| `record_timer` | 2 timers, one repeats; failing and refused preparations and starts, full disk, 1 edit, 5 units of time | `NoneOverdue`, `AlarmInTime`, `RecorderIsOwned`, `RemovedIsStopped`, `RecordingEnds` |
| `record_timer_faults` | 3 timers: a stream that repeats, a recording, a zap; disabling, write errors, full disk, refusals, a clock set once, 2 edits | `StartHasRecorder` |
| `timer_store` | 2 timers of one service, one repeats and one is a stream; disabling, write errors, a clock set once, 1 crash or restart, 1 file that cannot be written, 1 edit | `KnownIsStored`, `RemovedStaysAway`, `StoredOnce`, `StaysInFile` |
| `repeat_time` | days of 4 h, weeks of 3 days, all arguments, one missing hour | `FirstWanted` |
| `service_record` | programs of 1 or 2 pids, both sorts of channel, every fault, 2 starts | `RunsOnlyRecording`, `RecordsProgram`, `KeepsRecording`, `JoinReturns`, `WriteErrorEnds` |
| `channel_pool` | 2 services, 1 raw user, 3 transponders, 2 tuners, one fed by the other | `UserKeepsTuner`, `FedHasPower`, `PromiseIsKept`, `TunerIsClosed` |
| `mainloop` | a periodic and a single-shot timer, 3 notifiers on 2 descriptors, 2 calls per callback | `WakesForTimer`, `NoStaleCallback`, `TimerIsServed`, `ReadyIsServed`, `TimeoutIsKept` |
| `file_eraser` | 2 files, 2 speeds, 1 thread that cannot be created | `FatalOnlyRaced`, `CallReturns`, `SentIsHandled` |
| `job_manager` | a DVD job of 4 tasks, one of 2 and one of 1; 2 retries | `OneTaskRuns`, `QuestionIsAboutActive`, `SuccessIsEarned`, `Accounted`, `QueueMoves` |

Bounds and why they are enough.  *message_pump*: with three events of each of two
senders the eventfd counts more than one event, an event is posted between read
and pop, and the owner leaves at each point.  *file_push*: three seeks allow one
to be queued while another is being served and a third after it; two empty reads
give one retry and one end of file, which is all `eofcount` distinguishes.
*record_timer*: with two timers one can overtake the other in the list; lengths,
day, backoff and waiting time are small multiples of one unit chosen so that a
recording spans an alarm, a backoff reaches its limit, and a repeated timer comes
round within the horizon.  Time, edits and clock changes are capped by `MaxTime`,
`MaxEdits`, `MaxClockSets`; the model simply stops there, so deadlock is not
checked (the other models stop too: a playback ends, senders run out).  *faults*:
its `Events` switch on everything that breaks the stronger properties, and what
is checked is what must survive.  *timer_store*: one crash or
restart at every point; that a second one, while the file is being read, loses
nothing is what `KnownIsStored` says of `toLoad`; an entry is kept for one unit of
time after its end (`KeepTime`), so that `cleanupDaily()` finds some to drop and some
to keep within the horizon, and days are so short that a repeated one comes round.
Both timers record the same service, so that one can lie within the other when they
are loaded, and `PrepareTime` is 0, because what lies between the preparation and
the begin is the business of the other runs.  No start fails there: `StartFails`
moves the begin in memory, and `KnownIsStored`, which compares the times in the file
with those of the entry, would not hold.  It excepts an entry that has failed, whose
end is one of its own until it is over, and does not compare whether an entry is
disabled (`TimerStoreSwitch` below).
Its two timers are not enough for what a write error does to a third one that is
removed: there `RemovedStaysAway` does not hold (`RecordTimerRemoved` below), and the
theorem about it assumes that there is none.  *repeat_time*: a recording may cross
midnight, every set of days of a 3-day week occurs, and `now` lies up to two weeks
ahead.  *service_record*: a pid can come and go while the first one stays; two
starts are one that fails and its retry; `MaxEvents` bounds only `evtRetune`, of
which there may be one per block.  *channel_pool*: two services share a channel,
share the cached one, or compete for a tuner; transponders that both tuners, one
and the other can receive (the third tuner is there only for `ChannelPoolFork`).  There is no counter to bound; deadlock is checked.
*mainloop*: one notifier can take the descriptor of another in each callback, a
timer restart itself and stop the other; times are compared to each other only, so
intervals of 1 and 2 ticks at 2 ticks per millisecond show each rounding.
*file_eraser*: the second file comes while the first is waiting, erased, or just
done; file sizes below and above the speed.  *job_manager*: each kind of task, a
resident one that is waited for, and a job behind it.

Fairness.  `message_pump`: senders that began a post finish it, and the main loop
goes on: threads are scheduled, handlers return.  `file_push`: thread and owner
are scheduled; reads of a file and the 250 ms poll return; `write()` returns
because the decoder plays on (`PlayingDecoder`).  With a decoder that is frozen,
`stop()` may wait in `pthread_join` for as long as it is frozen, because a signal
just before `write()` is lost.  `record_timer`: the main loop runs, the alarm is
served, time passes.  `service_record`: main loop and thread run, and a write that
was begun ends; whether the demux ever has data is open, so a `read()` returns only
by data or by the signal.  `channel_pool`: timers that are due are served; nothing
is asked of users or tuners.  `mainloop`: callbacks return, and the clock goes on
whenever the loop is in `poll()` again and again (strong fairness: each visit may
be short).  `file_eraser`: both threads run and the idle timer expires.
`job_manager`: calls are made, and as long as processes run one of them ends some
day (strong fairness, since the user may act at any time in between); the user may
leave a question open.

### Where the code does not do what it says

The run `record_timer_orphan` ends in a counterexample on purpose.  So do further
configurations which are kept beside the listed runs; each checks what a comment
says, with `tlc -config X.cfg M`.

| Configuration | Says | Does |
|---|---|---|
| `RecordTimerOrphan` (run `record_timer_orphan`) | `RecordTimer.py` 1447: "so timer will be stopped" | a prepared entry that is disabled becomes processed with its recorder; removing it leaves the recorder |
| `RecordTimerOverdue`, `MCRecordTimer` | `timer.py` 333: entries are processed until the first "goes into the future" | a write error shortens an entry in place (`RecordTimer.py` 913); behind a later entry it stays overdue |
| `RecordTimerRemoved`, `MCRecordTimer` | `RecordTimer.py` 1463: "Now the timer should be in the processed_timers list" | of three timers, one that is removed stays behind the one whose key the write error changed, and so in `timer_list` |
| `RecordTimerRefused`, `MCRecordTimer` | `RecordTimer.py` 1047: "The timer entry itself will fix up the delay" | when no recorder is to be had it does not, and is activated again at once |
| `RecordTimerRepeat`, `MCRecordTimer` | `timer.py` 59: "the start and end time for the next time" | `failed` and `lastend` survive the occurrence and give a later one the old end |
| `RecordTimerTwice`, `MCRecordTimer` | (no comment) an entry is in one list, once | `evGstRecordEnded` calls `doActivate()` also for an entry that was disabled while its stream ran and is processed already (`RecordTimer.py` 936-939): if it repeats, it is put into `processed_timers` twice; a removal takes out one copy, and the other is saved |
| `TimerStoreSwitch`, `MCTimerStore` | (no comment) the file says which timers are disabled | disabling or enabling a timer in the list saves nothing (`TimerEdit.py` 170-222): after a crash the switch is as it was |
| `RepeatTimeDays`, `MCRepeatTime` | `timer.py` 80-89: the day must be one of the timer's | without `findRunningEvent` the condition tests only that begin lies ahead |
| `FilePushAck`, `MCFilePush` | `filepush.cpp` 263: pause waits "for the thread to acknowledge that" | at end of file the thread clears `m_run_state`, leaves its lock scope, sees `m_stop = 2` and exits; `resume()` wakes nobody |
| `ServiceRecordTuned`, `MCServiceRecord` | `servicedvbrecord.cpp` 294: "try it again when we are tuned in" | `eventTuned` tries only in `stateRecording` (52); the recorder is made with the next program |
| `ServiceRecordFlush`, `MCServiceRecord` | `filepush.h` 81-82: flush is to "terminate outstanding IO requests" | SIGUSR1 ends `aio_suspend()` in `flush()`, which ignores that: the thread ends with a write in flight, and its file is closed |
| `ServiceRecordPump`, `MCServiceRecord` | (no comment) `do_recv()` leaves the pump before it is deleted | the timer's handler of a write error gives the recording back; service, recorder and pump go, while `do_recv()` still counts the `evtStopped` behind it |
| `ServiceRecordLeak`, `MCServiceRecord` | (no comment) nothing stays open | `stop()` closes the file only in `stateRecording` (188); a recorder made while no program was known leaves it open |
| `ChannelPoolLate`, `MCChannelPool` | `idvb.h` 635: "just one reference to this channel is left" | a report of the tuner overwrites the state and stops the release timer (`dvb.cpp` 1150); nothing starts it again |
| `ChannelPoolFork`, `MCChannelPool` | `frontend.cpp` 698-714: a tuner that feeds another is not closed | `tuneLoopInt()`, after the last commands of a tuner that is closed late, closes the tuner which feeds it (1609-1616), also when a third one is fed by it |
| `MainloopLate`, `MCMainloop` | `ebase.h` 216-222: a timeout returns in time | without an eTimer `poll()` is given no timeout (`ebase.cpp` 213 wants a positive one), and a delay below 1 ms counts as none (`e2reactor.py` 147): the reactor's call waits for something else to happen |
| `FileEraserHandover`, `FileEraser` | `thread.cpp` 107, 137: `ASSERT(!m_state.value())` | `runAsync()` clears `m_started` between a thread's `m_alive = 0` (10) and its look at `m_started` (13): two threads call `hasStarted()`, and the ASSERT, or the `eFatal()` of `sync()`, ends the program |
| `FileEraserSync`, `FileEraser` | `thread.h` 14-15: `sync()` returns 0 when there is no thread | after a `pthread_create()` that failed `m_state` stays taken (`thread.cpp` 69-74) and `sync()` waits |
| `JobManagerResident`, `MCJobManager` | `Task.py` 352: "execute multiple jobs, each after another" | a job that fails leaves its resident task running beside the next job |

## 5. What is proved

All proofs are for every value of the constants, under the named assumptions of
the modules.  Most of these state types and signs only.  The others are

* `LoopAssumption`: no timer has an interval of 0, nor a `callLater()` a delay of 0
  (the loop over the due timers would not end with a periodic one, or one that its
  callback starts again, and the reactor would call for ever).  This is more than is
  needed: a single-shot timer of 0 ms, which many parts of the program use once, is
  ruled out with them.  And the reactor's own descriptor is nobody else's;
* `EraserAssumption`: a speed is not 0 (`UsageConfig.py` offers none), the empty
  message is not a file name, and there are finitely many files, each sent once;
* `RecordAssumption`: the pid of the PAT lies below every other, which is why the
  recorder opens the demux with it;
* `PoolAssumption`: the users are finitely many, because the use counts count
  them; tuners are chained only one deep, and the one that feeds others has
  no user band on a shared cable (`UserBands`);
* `JobAssumption`: a job has at most one resident task (`Author`), and waits for
  it before it burns, as the only job that has one does (`DVD/Process.py`);
* `RecordTimerAssumption`: a recording is shorter than a day, and the limit of
  the backoff not below its first value.

Where a theorem needs more than its module assumes, its ASSUME says so.

**`BaseProofs`**, about `Mainloop`: `LoopTypes`, `TimersSorted` (`TimersInOrder`),
`PollWakesForTimers` (`WakesForTimer`), `NeverFatal` (`NoFatal`),
`CallbacksAreAsked` (`NoStaleCallback`).  `TimersInOrder` is inductive with the types
alone, once it is shown what `Without` and `Insort` do to a list of any length: the
entries with an earlier time are an initial segment of a sorted list
(`InitialSegment`), so that their number is the place to insert at.
`WakesForTimer` rests on it: `poll()` is given the time to the first timer, cut
down (`Quotient`), and every other one is due later.  `NotifierInv` is what `NoFatal` and
`NoStaleCallback` need: the map and the notifiers' states agree in both directions;
who listens is referred to by its owner or is the one in whose callback the loop
is, which is why stopping that one makes room for the next owner of its
descriptor (`Started`); and between `poll()` and the end of the round, what was
asked for on behalf of a polled notifier is its own descriptor.

**`BaseProofs`**, about `MessagePump`: `Safety`, `Refinement`.  The invariant counts: the
reference count is the owner's share plus the senders past `TakeReference`, the
queued events and the one in hand (`RefBalance`); what is queued is what the
eventfd and the running loop still announce plus the pushes not yet announced
(`TriggerBalance`).  Neither property is inductive without the balances: that
the queue is not empty at a pop follows from the second, that the object lives
from the first.  `StepImplements` maps each step to a step of the channel.

**`FilePushProofs`**: `PauseIsSafe`, `SeekIsClean`.  `ProtocolInv` says who holds
the mutex, what `m_stop` says about the owner and what `m_run_state` says about
the thread: `runState = 0` is the thread's word that it is out of its inner loop,
and it takes it back only when `m_stop` lets it run.  On top of it `DataInv`
says that a span, a loaded buffer and the DVR are newer than every flushed seek.

**`RepeatTimeProofs`**: `ReturnsFirst`, from the loop invariant that begin and end
have moved together and no day left behind was wanted, as long as no hour was
missing.

**`FileEraserProofs`**: `EraserTypes`, `ThreadHandOver` (`FatalOnlyRaced` and
`NoThreadLeft`), `TruncatingShrinks` (`NeverGrows`), `UsesTheChannel`.  `SemInv`
says who has taken `m_state` and has yet to give it back, as long as `runAsync()` has
not come between the two last accesses of a thread (`raced`; without this, `NoFatal`
does not hold: `FileEraserHandover`); `ThreadInv` that
`m_alive` and `the_thread` may claim a thread that has ended, but never deny one
that runs, which is why `kill()` can always join.  `NeverGrows` needs `FileInv`:
`todo` is the size on the disk, and aligning it on a speed makes it no larger,
whichever of two speeds is read.  `ChanInv` bounds what `do_recv()` has still to
pop by what is in the pump, so that each of its steps is one of the channel that
`MessagePump` implements.

**`ServiceRecordProofs`**: `RecordTypes`, `ThreadHasItsFile`
(`RunsOnlyRecording`), `ProgramIsRecorded` (`RecordsProgram`), `NothingIsLost`
(`KeepsRecording`).  `LifeInv` goes along the life of a recording: which states of
the timer, the service, the recorder and its thread go together.  `PidInv` says
that the pids of the service, of the recorder and of the demux agree, and that a
cached program is the current one: without this, `doRecord()` could set the
recorder to what another program had.  One lemma (`RecordEffect`) says what
`doRecord()` leaves behind, whichever way it returns, and its four callers cite it.

**`ChannelPoolProofs`**: `PoolTypes`, `UserKeepsItsTuner`, `FedKeepsPower`,
`PromisesAreKept`.  Every operator of the manager is shown to lead from a pool
that is `Good` to one that is: the channels that exist are those with uses, each
with a tuner of its own, and the tuners in use are theirs (`Owned`); a channel's
tuner is open and not about to be closed (`Fronted`).  `Counted` equates the use
counts with the users: two for each, one for the cache, so that 3 and 2, at which
`canAllocateChannel()` decides, say that nobody else is there.  `FedKeepsPower`
assumes `OneEach`, that no tuner feeds two: with two, it does not hold (see
`ChannelPoolFork` above).

**`JobManagerProofs`**: `JobTypes`, `OneAfterAnother` (`OneTaskRuns`),
`AnswerReachesItsJob` (`QuestionIsAboutActive`), `NoTaskSkipped`
(`SuccessIsEarned`), `NoException` (`NothingRaised`), `EachInOnePlace`
(`Accounted`).  The invariant describes the stack of nested calls.  `Now` says, for
each sort of call, what holds when it is the next one: where its job is, what of
the job still lives, whether a question is open.  `Firm` says that a call which is
still to return can do nothing more to the active job.  `Books` puts each job into
one place.  All this holds until a job leaves a resident task behind (`astray`, a
history variable, see `JobManagerResident` above), as the properties say too;
the types hold always.

**`RecordTimerProofs`**, about `RecordTimer`: `TimerTypes`, `EntryInOnePlace`
(`OnePlace`), `StartsOnRecorder`, `NoRecorderLost`, `OwnersAreActive`, `NoneLate`,
`AlarmRings`, `RemovedIsAway`, `RemovedHasStopped`.  Every handler changes the
fields of one entry and hands it to `AddTimerEntry`, `TimeChanged` or `Settle`.
One half of the lemmas says what these three do, whatever they are handed: they
keep the lists free of doubles and put the entry into exactly one (`Relisted`),
carry its fields over, except that they may put it aside or wake it up
(`Carries`), and keep `timer_list` sorted (`Queued`).  The other half says, handler by
handler, that what it makes of the entry is `Sound`: one that is prepared, and
neither failed nor cancelled, holds a recorder; and an entry that holds one is
prepared or running and holds exactly those allocated for it.  On top of
`TimerInv`, `Punctual` (sorted, and nothing due when the loop is idle) gives
`NoneLate`, `Prompt` gives `AlarmRings`, and `Leaving` (what is being removed is
cancelled, due, and hence gone from `timer_list` before the loop is idle) the last
two.  The hypotheses are what the events may not contain:

* `Enabled`, nobody disables an entry, for who owns a recorder: a prepared entry
  that is disabled ends with its recorder, and gets a second one when it is
  enabled (compare the run `record_timer_orphan`);
* `Undamaged`, no write error, for the order: that handler changes an entry where
  it is and leaves the list unsorted.  Then an entry may stay overdue
  (`RecordTimerOverdue`), and a removed one in `timer_list`, when two others are in
  front of it (`RecordTimerRemoved`);
* `Steady`, nobody disables an entry or no entry that repeats records a stream: for
  everything that is said about the lists.  Where it does not hold, an entry is
  processed twice (`RecordTimerTwice`); a stream that does not repeat may be disabled
  before it runs only, and one that repeats and ends as it should is part of the
  model, in whatever state its entry is;
* no setting of the clock, for `AlarmRings` only: the armed alarm counts seconds
  and does not learn of it.

That an entry is removed while the clock has gone back takes more than `Leaving`: the
processed entries are then re-evaluated, and the removed one would come back into
`timer_list` if that happened again after it has ended.  `Onward` says why it does
not: nothing else in `timer_list` is both due and past its end, so no other entry ends
and is queued for its next day, which is the one way in which
`calcNextActivation()` would be called from below itself and start again.

**`RecordTimerProofs`**, about `TimerStore`: `StoreTypes`, `KnownIsInFile`, `TimersStoredOnce`,
`RemovedForGood`, `StaysUntilOld` (`StaysInFile`).  `StoreSteps` sorts the steps by what they do to the lists and
the file: the timers go on and are saved or not (`Keeping`, a step of
`RecordTimer`), one is removed, one is recorded, the program starts, one is loaded.
The last two are no steps of `RecordTimer`, so that `TimerInv` is shown for them
anew: a start is a fresh state, and loading an entry handles it as any other
handler does, or drops it (`Dropping`).  `cleanup()` removes a set of entries at once,
as the removal of one does (`Removing`).  `StoreInv` adds that what has still to be loaded is nowhere in
memory (`Unloaded`) and that all that is known is written (`Safe`).

`KnownIsInFile` needs that the times agree, too.  `DaysOn` relates the times written
to those in memory: a repeated entry goes on by whole days, unsaved.  `Follows` says
that of two versions of an entry, unless the later one has failed, and each handler is
shown to make an entry that follows the one it was handed (`AddFollows`,
`TimeChangedFollows`, `SettleFollows`, `ActivateFollows`).  So `Agree`, that the file tells the times of
every entry that counts and what is to be loaded is what the file says, is kept by
the steps that do not write, and is made anew by those that do (`AgreeWritten`).
The hypothesis `Starting`, no start fails, is there because a start that fails sets
the begin of the entry to a later one in memory (`RecordTimer.py` 626-633).  For
`RemovedForGood`, `GoneIsGone` says that what was removed is in no list, not to be
loaded, and not in a file that was written since; it needs `Leaving`, because the
entry is taken out of `processed_timers` only.

`StaysUntilOld` rests on `FileInv`: what is in the file is in memory, still to be
loaded, dropped as double, being removed, removed, or `Old`, that is, it ended longer ago than
`cleanupDaily()` keeps, by the latest time the clock has shown (`Latest`: the clock may
be set back later, and the entry is gone all the same).  What is old stays so because
nothing changes an entry that is in no list (`OldStays`): the handler of a write error
could, if such an entry had left a recorder running.  `Watched` excludes this.  A
recorder that runs is that of a queued entry, or of one that the user has disabled
while it ran; this can be done only to an entry that repeats, and one that is
disabled and repeats is never dropped.  When it is enabled again it comes into
`timer_list` and is not skipped there, because its next end lies ahead
(`RepeatedEndsAhead`).

Only model-checked: liveness (`DroppedIsDeleted`, `StopReturns`, `SeekIsServed`,
`RecordingEnds`, `TunerIsClosed`, `TimerIsServed`, `ReadyIsServed`, `TimeoutIsKept`,
`CallReturns`, `SentIsHandled`, `QueueMoves`, `JoinReturns`, `WriteErrorEnds`),
which needs fairness and is out of the prover's reach.  Every safety invariant and
action property of the runs is stated by a theorem.  Where a theorem excludes
disabling, write errors or the disabling of streams that repeat, the configurations named with its hypothesis show why; the
runs whose events contain them show what is left.

Some modules define invariants which no run lists because another property says
more or the proofs use them: `TypeOK` of each module (`TypeInv` in
`RepeatTimeProofs`) and `NoEmptyPop`, `OnePlace` (part of `StoredOnce`),
`OwnerIsActive`, `RemovedIsInactive`, `NeverGrows`, `NoThreadLeft` and
`NothingRaised`, and `NoFatal` and `TimersInOrder` of `Mainloop`.  All of them are
proved.  `FutureOnly`, `RefusalIsDelayed`, `RepeatIsOrdered`, `SwitchIsStored`, the
`NoFatal` of `FileEraser` and others are there for the configurations of the table
above, which refute them.

## 6. Not modelled

See the components with status `not_modelled` or `partly` in `PROJECT.json`, and
the hazards with a note.  The main gaps:

* the data race between the skip mode of the main thread and
  `getNextSourceSpan()`, and end-of-file events that are older than a seek;
* demuxes and their use counts, simulated channels (zap checks), what `check()` of
  `TimerSanityCheck` says of conflicts, streaming channels with an id, FBC tuners, the commands of SEC and rotors;
* streamed and simulated recordings; descrambling, PMT and CA tables;
* nested main loops (modal dialogs) and `changeInterval`;
* standby, deep standby and wake-up by timers, power timers, autoincrease;
* scan, EPG cache, stream server, time shift, settings: candidates for later;
* channel lists, skins, screens, plugins and network setup: formats, forms and
  scripts with little control of their own.  They are most of the source by
  lines, and nothing in them would be a model rather than a transcript.
