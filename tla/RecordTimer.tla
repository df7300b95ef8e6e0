---------------------------- MODULE RecordTimer ----------------------------
(***************************************************************************)
(* The recording timers: timer.py (Timer, TimerEntry) and RecordTimer.py   *)
(* (RecordTimer, RecordTimerEntry).  timer_list is kept sorted by the next *)
(* activation of its entries; one eTimer wakes calcNextActivation(), which *)
(* activates the first entry until that lies in the future.  Activating    *)
(* moves an entry from waiting to prepared (a recorder is allocated) to    *)
(* running (it records) to ended.                                          *)
(*                                                                         *)
(* Everything runs on the main loop, in handlers that take no time: one    *)
(* unit of time stands for 5 s.  A handler that calls calcNextActivation() *)
(* leaves `loop' at "calc", and nothing else happens until it is "idle"    *)
(* again.  calcNextActivation() also runs nested, below doActivate(): the  *)
(* nested call returns when the first entry is in the future, and then so  *)
(* does the outer one, so one loop stands for both.  All repeated timers   *)
(* repeat daily (days of the week are module RepeatTime).  Screens,        *)
(* standby, tuner priorities and autoincrease are left out.                *)
(***************************************************************************)
EXTENDS Integers, SequencesExt

CONSTANTS
  Timers,       \* the entries
  NoTimer,      \* none of them
  JustPlay,     \* entries that zap and do not record
  Repeated,     \* entries that repeat daily
  Streams,      \* entries whose recorder is an eServiceMP3Record
  Events,       \* what may happen: the switches of the environment, below
  Begins,       \* where the user lets a recording begin
  Length,       \* how long it lasts
  Day,          \* 24 h
  PrepareTime,  \* prepare_time
  MinBackoff, MaxBackoff, RetryDelay, MountRetries, MaxWaitTime, KeepTime,
  MaxTime, MaxEdits, MaxClockSets   \* bounds

Switches == {"disable", "writeError", "diskFull", "startError", "refuse", "clock"}

ASSUME RecordTimerAssumption ==
  /\ NoTimer \notin Timers
  /\ {JustPlay, Repeated, Streams} \subseteq SUBSET Timers
  /\ Events \subseteq Switches
  /\ Begins \subseteq Nat
  /\ {Length, Day, MinBackoff, MaxBackoff, RetryDelay, MaxWaitTime} \subseteq Nat \ {0}
  /\ {PrepareTime, MountRetries, KeepTime, MaxTime, MaxEdits, MaxClockSets} \subseteq Nat
  /\ Length < Day /\ MinBackoff <= MaxBackoff

Waiting == 0            \* TimerEntry.State...
Prepared == 1
Running == 2
Ended == 3

VARIABLES
  now,         \* time()
  alarm,       \* when the eTimer fires, counted down by the monotonic clock
  last,        \* lastActivation
  loop,        \* how far calcNextActivation() is; "idle": not called
  list,        \* timer_list
  processed,   \* processed_timers, in the order of arrival
  warping,     \* processed timers still to be re-evaluated after a timewarp
  entry,       \* the fields of each entry
  live,        \* eNavigation.m_recordings: recorders not stopped, per entry
  recordings,  \* n_recordings
  removing,    \* the entry removeEntry() is removing
  edits, clockSets   \* counters of the bounds

listVars == <<list, processed, entry>>
clockVars == <<now, alarm, last>>
recVars == <<live, recordings>>
bounds == <<edits, clockSets>>
vars == <<clockVars, loop, listVars, warping, recVars, removing, bounds>>

Entry == [begin : Int, end : Int, prep : Int, state : Waiting .. Ended,
          disabled : BOOLEAN, cancelled : BOOLEAN, failed : BOOLEAN,
          repeats : BOOLEAN, lastend : Int, backoff : 0 .. MaxBackoff,
          retries : 0 .. MountRetries, recorder : {"none", "ready", "recording", "over"}]

TypeOK ==
  /\ now \in 0 .. MaxTime /\ last \in 0 .. MaxTime
  /\ alarm \in 0 .. MaxWaitTime
  /\ loop \in {"idle", "calc", "warp", "processing"}
  /\ list \in Seq(Timers) /\ processed \in Seq(Timers) /\ warping \in Seq(Timers)
  /\ entry \in [Timers -> Entry]
  /\ live \in [Timers -> Nat] /\ recordings \in Nat
  /\ removing \in Timers \cup {NoTimer}
  /\ edits \in 0 .. MaxEdits /\ clockSets \in 0 .. MaxClockSets

NewEntry(e) == [begin |-> 0, end |-> 0, prep |-> 0, state |-> Waiting,
  disabled |-> FALSE, cancelled |-> FALSE, failed |-> FALSE,
  repeats |-> e \in Repeated, lastend |-> 0, backoff |-> 0, retries |-> 0,
  recorder |-> "none"]

Init ==
  /\ now = 0 /\ alarm = MaxWaitTime /\ last = 0 /\ loop = "idle"
  /\ list = <<>> /\ processed = <<>> /\ warping = <<>>
  /\ entry = [e \in Timers |-> NewEntry(e)]
  /\ live = [e \in Timers |-> 0] /\ recordings = 0
  /\ removing = NoTimer /\ edits = 0 /\ clockSets = 0

-----------------------------------------------------------------------------
(* One entry. *)

NextActivation(r) ==
  CASE r.state = Waiting -> r.prep
    [] r.state = Prepared -> r.begin
    [] OTHER -> r.end

(* TimerEntry.timeChanged() *)
TimesSet(r) == [r EXCEPT !.prep = r.begin - PrepareTime, !.backoff = 0]

(* nextRepeatTime(): the first day on which the end, or the begin, is ahead. *)
DaysAhead(time) == IF now < time THEN 0 ELSE (now - time) \div Day + 1

ProcessRepeated(r, findRunningEvent) ==
  IF ~r.repeats THEN r
  ELSE LET shift == Day * DaysAhead(IF findRunningEvent THEN r.end ELSE r.begin)
       IN  TimesSet([r EXCEPT !.begin = @ + shift, !.end = @ + shift])

(* Seeded fault: skipped in every state once its end is past. *)
SkippedWhenPast(r) == r.disabled \/ r.end <= now

ShouldSkip(r) == r.disabled \/ (r.end <= now /\ r.state = Waiting)

(* ... which forgets that a timer of the past was disabled. *)
SkipChecked(r) ==
  IF r.disabled /\ r.end <= now /\ ~r.repeats THEN [r EXCEPT !.disabled = FALSE] ELSE r

NextBackoff(r) ==
  IF r.backoff = 0 THEN MinBackoff
  ELSE IF 2 * r.backoff > MaxBackoff THEN MaxBackoff ELSE 2 * r.backoff

GivenUp(r) == [r EXCEPT !.failed = TRUE, !.lastend = r.end,
                        !.end = now + RetryDelay, !.backoff = 0]

(* The end of activate(): the recorder is released, a cut end restored. *)
Finished(r) == [r EXCEPT !.state = Ended, !.recorder = "none",
  !.end = IF r.lastend # 0 /\ r.failed THEN r.lastend ELSE r.end]

Kept(r) == (r.disabled /\ r.repeats) \/ r.end > now - KeepTime

(* Of the entries p, those of S, in their order. *)
Only(p, S) ==
  LET kept == {i \in DOMAIN p : p[i] \in S}
      Nth(n) == CHOOSE i \in kept : Cardinality({j \in kept : j <= i}) = n
  IN  [n \in 1 .. Cardinality(kept) |-> p[Nth(n)]]

(* cleanupDaily() of the entries p, when the fields are f. *)
CleanupDaily(p, f) == Only(p, {e \in Timers : Kept(f[e])})

-----------------------------------------------------------------------------
(* The lists. *)

(* Seeded fault: the list is sorted by the begin of the recordings. *)
InsortByBegin(l, e, r) ==
  \E p \in 1 .. Len(l) + 1 :
     /\ p > 1 => entry[l[p - 1]].begin <= r.begin
     /\ p <= Len(l) => r.begin < entry[l[p]].begin
     /\ list' = InsertAt(l, p, e)

(* bisect.insort(): after the entries that are not later. *)
Insort(l, e, r) ==
  \E p \in 1 .. Len(l) + 1 :
     /\ p > 1 => NextActivation(entry[l[p - 1]]) <= NextActivation(r)
     /\ p <= Len(l) => NextActivation(r) < NextActivation(entry[l[p]])
     /\ list' = InsertAt(l, p, e)

(* addTimerEntry(), of an entry that has been taken out of the lists. *)
AddTimerEntry(e, r, l, p, recalc) ==
  LET q == ProcessRepeated(r, TRUE)
  IN  IF ShouldSkip(q) \/ q.state = Ended
      THEN /\ entry' = [entry EXCEPT ![e] = [SkipChecked(q) EXCEPT !.state = Ended]]
           /\ list' = l /\ processed' = Append(p, e)
           /\ UNCHANGED loop
      ELSE /\ entry' = [entry EXCEPT ![e] = q]
           /\ Insort(l, e, q) /\ processed' = p
           /\ loop' = IF recalc THEN "calc" ELSE loop

(* Seeded fault: a processed entry is queued again and stays processed. *)
TimeChangedInBoth(e, r) ==
  LET q == TimesSet(r)
  IN  CASE r.state = Ended ->
             AddTimerEntry(e, [q EXCEPT !.state = Waiting], list, processed, TRUE)
        [] r.state # Ended /\ Contains(list, e) ->
             AddTimerEntry(e, q, RemoveFirst(list, e), processed, TRUE)
        [] OTHER ->
             entry' = [entry EXCEPT ![e] = q] /\ UNCHANGED <<list, processed, loop>>

(* RecordTimer.timeChanged(), after the caller has changed the entry to r. *)
TimeChanged(e, r) ==
  LET q == TimesSet(r)
  IN  CASE r.state = Ended ->
             AddTimerEntry(e, [q EXCEPT !.state = Waiting], list, RemoveFirst(processed, e), TRUE)
        [] r.state # Ended /\ Contains(list, e) ->
             AddTimerEntry(e, q, RemoveFirst(list, e), processed, TRUE)
        [] OTHER ->
             entry' = [entry EXCEPT ![e] = q] /\ UNCHANGED <<list, processed, loop>>

(* doActivate(), after activate() has left the entry as r. *)
Settle(w, r) ==
  LET l == RemoveFirst(list, w)
      checked == [x \in Timers |->
        IF x = w THEN r
        ELSE IF Contains(processed, x) THEN SkipChecked(entry[x]) ELSE entry[x]]
  IN  CASE r.state < Ended ->
             /\ entry' = [entry EXCEPT ![w] = r]
             /\ Insort(l, w, r) /\ UNCHANGED <<processed, loop>>
        [] r.state = Ended /\ r.repeats ->
             AddTimerEntry(w, [ProcessRepeated(r, TRUE) EXCEPT !.state = Waiting], l, processed, TRUE)
        [] OTHER ->
             /\ entry' = checked
             /\ processed' = Append(CleanupDaily(processed, checked), w)
             /\ list' = l /\ UNCHANGED loop

Counted(n) == recordings' = IF n < 0 THEN 0 ELSE n     \* RecordingsState()

Released(w) == live' = [live EXCEPT ![w] = IF entry[w].recorder = "none" THEN @ ELSE @ - 1]

-----------------------------------------------------------------------------
(* calcNextActivation(). *)

(* The time went back: every processed entry gets a chance to re-occur. *)
Calc ==
  /\ loop = "calc"
  /\ loop' = IF last > now THEN "warp" ELSE "processing"
  /\ IF last > now
     THEN warping' = processed /\ processed' = <<>>
     ELSE UNCHANGED <<warping, processed>>
  /\ UNCHANGED <<clockVars, list, entry, recVars, removing, bounds>>

Reevaluate ==
  /\ loop = "warp" /\ warping # <<>>
  /\ LET e == Head(warping)
         r == TimesSet([entry[e] EXCEPT !.state = Waiting, !.cancelled = FALSE])
     IN  AddTimerEntry(e, r, list, processed, FALSE)
  /\ warping' = Tail(warping)
  /\ UNCHANGED <<clockVars, recVars, removing, bounds>>

Reevaluated ==
  /\ loop = "warp" /\ warping = <<>>
  /\ loop' = "processing"
  /\ UNCHANGED <<clockVars, listVars, warping, recVars, removing, bounds>>

FirstIsDue == list # <<>> /\ NextActivation(entry[Head(list)]) <= now

(* Seeded fault: the eTimer only polls. *)
SetNextPoll ==
  /\ loop = "processing" /\ ~FirstIsDue
  /\ last' = now
  /\ alarm' = MaxWaitTime
  /\ loop' = "idle"
  /\ UNCHANGED <<now, listVars, warping, recVars, removing, bounds>>

(* The first entry lies in the future: arm the eTimer. *)
SetNextActivation ==
  /\ loop = "processing" /\ ~FirstIsDue
  /\ last' = now
  /\ alarm' = IF list = <<>> \/ NextActivation(entry[Head(list)]) > now + MaxWaitTime
              THEN MaxWaitTime ELSE NextActivation(entry[Head(list)]) - now
  /\ loop' = "idle"
  /\ UNCHANGED <<now, listVars, warping, recVars, removing, bounds>>

(* doActivate() of an entry w with the fields r: what activate() does, case *)
(* by case.  An entry that has ended is disabled if it still has a recorder *)
(* (see GstRecordEnded), so that activate() is not called for it.           *)

Activates(w) == loop = "processing" /\ FirstIsDue /\ w = Head(list)
Activated(r, state) == ~ShouldSkip(r) /\ r.state = state
Quiet == UNCHANGED <<clockVars, warping, removing, bounds>>

Skip(w, r) ==
  /\ ShouldSkip(r)
  /\ Settle(w, [SkipChecked(r) EXCEPT !.state = Ended])
  /\ Quiet /\ UNCHANGED recVars

(* freespace() fails: it is tried again in 5 s, three times. *)
DiskNotReady(w, r) ==
  /\ "diskFull" \in Events
  /\ Activated(r, Waiting) /\ w \notin JustPlay /\ r.retries < MountRetries
  /\ Settle(w, [r EXCEPT !.retries = @ + 1, !.prep = now + RetryDelay])
  /\ Quiet /\ UNCHANGED recVars

(* ... or the disk is full: the entry goes on as a failed one. *)
DiskFull(w, r) ==
  /\ "diskFull" \in Events
  /\ Activated(r, Waiting) /\ w \notin JustPlay
  /\ Settle(w, [GivenUp(r) EXCEPT !.state = Prepared])
  /\ Quiet /\ UNCHANGED recVars

Prepare(w, r) ==
  /\ Activated(r, Waiting)
  /\ LET q == [r EXCEPT !.state = Prepared, !.backoff = 0]
     IN  IF w \in JustPlay
         THEN Settle(w, q) /\ UNCHANGED live
         ELSE /\ Settle(w, [q EXCEPT !.retries = 0, !.recorder = "ready"])
              /\ live' = [live EXCEPT ![w] = @ + 1]
  /\ Quiet /\ UNCHANGED recordings

(* Seeded fault: the recorder that could not be prepared is kept. *)
PrepareFailsKeeps(w, r) ==
  /\ Activated(r, Waiting) /\ w \notin JustPlay
  /\ Settle(w, [r EXCEPT !.retries = 0, !.recorder = "none",
                  !.backoff = NextBackoff(r), !.prep = now + NextBackoff(r)])
  /\ live' = [live EXCEPT ![w] = @ + 1]
  /\ Quiet /\ UNCHANGED recordings

(* The recorder is there but has no tuner: it is stopped, and tried later. *)
PrepareFails(w, r) ==
  /\ Activated(r, Waiting) /\ w \notin JustPlay
  /\ Settle(w, [r EXCEPT !.retries = 0, !.recorder = "none",
                  !.backoff = NextBackoff(r), !.prep = now + NextBackoff(r)])
  /\ Quiet /\ UNCHANGED recVars

(* No recorder for the service, or no playable service in the group. *)
PrepareRefused(w, r) ==
  /\ "refuse" \in Events
  /\ Activated(r, Waiting) /\ w \notin JustPlay
  /\ Settle(w, [r EXCEPT !.retries = 0, !.recorder = "none"])
  /\ Quiet /\ UNCHANGED recVars

(* A cancelled or failed entry just goes on; a justplay one zaps. *)
PassStart(w, r) ==
  /\ Activated(r, Prepared)
  /\ r.cancelled \/ r.failed \/ w \in JustPlay
  /\ Settle(w, [r EXCEPT !.state = Running])
  /\ Quiet /\ UNCHANGED recVars

(* ... but not while a movie player runs, which is told to close. *)
ZapRefused(w, r) ==
  /\ "refuse" \in Events
  /\ Activated(r, Prepared)
  /\ ~r.cancelled /\ ~r.failed /\ w \in JustPlay
  /\ Settle(w, r)
  /\ Quiet /\ UNCHANGED recVars

(* Seeded fault: a failed entry is started. *)
StartsFailed(w, r) == Activated(r, Prepared) /\ w \notin JustPlay /\ ~r.cancelled

Starts(w, r) ==
  /\ Activated(r, Prepared) /\ w \notin JustPlay
  /\ ~r.cancelled /\ ~r.failed

(* start() sends evStart, whether it succeeds or not. *)
StartRecording(w, r) ==
  /\ Starts(w, r)
  /\ Settle(w, [r EXCEPT !.state = Running, !.recorder = "recording"])
  /\ Counted(recordings + 1)
  /\ Quiet /\ UNCHANGED live

StartFails(w, r) ==
  /\ "startError" \in Events
  /\ Starts(w, r)
  /\ Settle(w, [r EXCEPT !.backoff = NextBackoff(r), !.begin = now + NextBackoff(r)])
  /\ Counted(recordings + 1)
  /\ Quiet /\ UNCHANGED live

(* Seeded fault: the recorder is stopped and the state kept. *)
EndRefused(w, r) ==
  /\ Activated(r, Running)
  /\ Settle(w, [Finished(r) EXCEPT !.state = Running])
  /\ Released(w) /\ Counted(recordings - 1)
  /\ Quiet

End(w, r) ==
  /\ Activated(r, Running)
  /\ Settle(w, Finished(r))
  /\ Released(w) /\ Counted(recordings - 1)
  /\ Quiet

DoActivate(w, r) ==
  \/ Skip(w, r) \/ DiskNotReady(w, r) \/ DiskFull(w, r)
  \/ Prepare(w, r) \/ PrepareFails(w, r) \/ PrepareRefused(w, r)
  \/ PassStart(w, r) \/ ZapRefused(w, r) \/ StartRecording(w, r) \/ StartFails(w, r) \/ End(w, r)

-----------------------------------------------------------------------------
(* What the main loop calls. *)

Idle == loop = "idle" /\ removing = NoTimer
Known(e) == Contains(list, e) \/ Contains(processed, e)
Edited == edits < MaxEdits /\ edits' = edits + 1 /\ UNCHANGED clockSets
Undisturbed == UNCHANGED <<clockVars, warping, recVars, removing>>

TimerFires ==
  /\ Idle /\ alarm = 0
  /\ loop' = "calc"
  /\ UNCHANGED <<clockVars, listVars, warping, recVars, removing, bounds>>

(* record(), of an entry that was created for it. *)
Record(e, begin) ==
  /\ Idle /\ ~Known(e) /\ entry[e] = NewEntry(e)
  /\ AddTimerEntry(e, TimesSet([entry[e] EXCEPT !.begin = begin, !.end = begin + Length]),
                   list, processed, TRUE)
  /\ Undisturbed /\ UNCHANGED bounds

(* The user moves the recording, or lengthens one that runs. *)
Edit(e, begin) ==
  /\ Idle /\ Known(e) /\ Edited
  /\ TimeChanged(e, IF entry[e].state = Running
                    THEN [entry[e] EXCEPT !.end = begin + Length]
                    ELSE [entry[e] EXCEPT !.begin = begin, !.end = begin + Length])
  /\ Undisturbed

(* A running entry can be disabled only if it repeats: "don't stop current  *)
(* event but disable future events", the one answer of three modelled.      *)
Disable(e) ==
  /\ "disable" \in Events
  /\ Idle /\ Known(e) /\ ~entry[e].disabled /\ Edited
  /\ entry[e].state = Running => entry[e].repeats
  /\ TimeChanged(e, [entry[e] EXCEPT !.disabled = TRUE])
  /\ Undisturbed

Enable(e) ==
  /\ Idle /\ Known(e) /\ entry[e].disabled /\ Edited
  /\ TimeChanged(e, [entry[e] EXCEPT !.disabled = FALSE])
  /\ Undisturbed

(* removeEntry(): abort the entry; once calcNextActivation() has returned, *)
(* take it from the processed ones.                                        *)
AbortEntry(e) ==
  LET r == [entry[e] EXCEPT !.repeats = FALSE, !.cancelled = TRUE, !.end = now,
                            !.begin = IF @ > now THEN now ELSE @]
  IN  /\ IF r.state = Ended
         THEN entry' = [entry EXCEPT ![e] = r] /\ UNCHANGED <<list, processed, loop>>
         ELSE TimeChanged(e, r)
      /\ removing' = e
      /\ UNCHANGED <<clockVars, warping, recVars>>

RemoveEntry(e) == Idle /\ Known(e) /\ Edited /\ AbortEntry(e)

Removed ==
  /\ loop = "idle" /\ removing # NoTimer
  /\ processed' = RemoveFirst(processed, removing)
  /\ removing' = NoTimer
  /\ UNCHANGED <<clockVars, loop, list, entry, warping, recVars, bounds>>

(* cleanup(), from the list: all that has ended and is not disabled goes. *)
Cleanup ==
  /\ Idle /\ Edited
  /\ processed' = Only(processed, {e \in Timers : entry[e].disabled})
  /\ Undisturbed /\ UNCHANGED <<loop, list, entry>>

-----------------------------------------------------------------------------
(* gotRecordEvent() *)

(* What only eDVBServiceRecord reports.  A write error: the end is now near, *)
(* but the entry keeps its place in timer_list.                              *)
WriteError(e) ==
  /\ "writeError" \in Events
  /\ Idle /\ e \notin Streams /\ entry[e].recorder = "recording"
  /\ entry' = [entry EXCEPT ![e] = [GivenUp(entry[e]) EXCEPT !.recorder = "none"]]
  /\ Released(e)
  /\ UNCHANGED <<clockVars, loop, list, processed, warping, recordings, removing, bounds>>

RecordAborted(e) ==
  /\ Idle /\ e \notin Streams /\ entry[e].recorder # "none"
  /\ AbortEntry(e)
  /\ UNCHANGED bounds

(* The stream has ended, which it does once: doActivate(), whatever state   *)
(* the entry is in.  One that was disabled while it ran is among the        *)
(* processed ones, or waits again; its recorder goes on, and is over now.   *)
GstRecordEnded(e) ==
  /\ Idle /\ e \in Streams /\ entry[e].recorder = "recording"
  /\ DoActivate(e, [ProcessRepeated(entry[e], FALSE) EXCEPT !.recorder = "over"])

-----------------------------------------------------------------------------
(* Time.  The eTimer runs on the monotonic clock and is served at once. *)

Tick ==
  /\ Idle /\ alarm > 0 /\ now < MaxTime
  /\ now' = now + 1 /\ alarm' = alarm - 1
  /\ UNCHANGED <<last, loop, listVars, warping, recVars, removing, bounds>>

(* The receiver corrects the clock from the transponder's or the net's.    *)
SetClock(t) ==
  /\ "clock" \in Events
  /\ Idle /\ t # now /\ clockSets < MaxClockSets
  /\ now' = t /\ clockSets' = clockSets + 1
  /\ UNCHANGED <<alarm, last, loop, listVars, warping, recVars, removing, edits>>

CalcNextActivation ==
  \/ Calc \/ Reevaluate \/ Reevaluated \/ SetNextActivation
  \/ \E w \in Timers : Activates(w) /\ DoActivate(w, entry[w])

Next ==
  \/ CalcNextActivation \/ TimerFires \/ Removed \/ Tick \/ Cleanup
  \/ \E e \in Timers : \/ \E b \in Begins : Record(e, b) \/ Edit(e, b)
                       \/ Disable(e) \/ Enable(e) \/ RemoveEntry(e)
                       \/ WriteError(e) \/ RecordAborted(e) \/ GstRecordEnded(e)
  \/ \E t \in 0 .. MaxTime : SetClock(t)

Spec == Init /\ [][Next]_vars

(* The main loop runs, and time passes. *)
FairSpec == Spec /\ WF_vars(CalcNextActivation) /\ WF_vars(TimerFires)
                 /\ WF_vars(Removed) /\ WF_vars(Tick)

-----------------------------------------------------------------------------
(* Properties *)

(* An entry is in one place of one list (RecordTimer.py:1051-1072).  It is  *)
(* taken out of a list and inserted again by every handler, also by those  *)
(* called back from another.  RecordTimerTwice refutes it, where an entry  *)
(* that repeats is disabled while its stream runs.                         *)
OnePlace ==
  LET all == list \o processed \o warping
  IN  \A i, j \in 1 .. Len(all) : i # j => all[i] # all[j]

(* No entry is late: after calcNextActivation() has processed the first    *)
(* ones, nothing further down the list was due (timer.py:331-335).         *)
NoneOverdue ==
  loop = "idle" => \A i \in 1 .. Len(list) : NextActivation(entry[list[i]]) > last \/ last > now

(* The eTimer fires before the next activation, however the list has been  *)
(* changed since it was armed (timer.py:248-279).                          *)
AlarmInTime ==
  loop = "idle" => \A i \in 1 .. Len(list) : now + alarm <= NextActivation(entry[list[i]])

(* Every recorder that was allocated is either owned by its entry, which   *)
(* will stop it, or stopped (RecordTimer.py:402-454, 637-649).             *)
RecorderIsOwned ==
  \A e \in Timers : live[e] = IF entry[e].recorder = "none" THEN 0 ELSE 1

(* Only an entry on its way in timer_list, or one being removed, owns a    *)
(* recorder: no recording goes on without an entry to end it.              *)
OwnerIsActive ==
  loop = "idle" /\ removing = NoTimer => \A e \in Timers : entry[e].recorder # "none" =>
     Contains(list, e) /\ entry[e].state \in {Prepared, Running}

(* start() is called on a recorder, never on None (RecordTimer.py:626).    *)
StartHasRecorder ==
  \A e \in Timers : Starts(e, entry[e]) => entry[e].recorder = "ready"

(* An entry that is being removed is active no more when its abort returns, *)
(* so taking it off processed_timers leaves it nowhere                      *)
(* (RecordTimer.py:1463).  It may be gone from there, too, when it got back *)
(* the end of an old failure and cleanupDaily() ran.                        *)
RemovedIsInactive == loop = "idle" /\ removing # NoTimer => ~Contains(list, removing)

(* "This sets the end time to current time, so timer will be stopped."     *)
(* (RecordTimer.py:1447): what is removed leaves no recorder behind.       *)
RemovedIsStopped ==
  [][removing # NoTimer /\ removing' = NoTimer => live[removing] = 0]_vars

(* A recording ends (RecordTimer.py:637-649), however often its start was  *)
(* tried and whatever its neighbours in the list do: if its end, which may  *)
(* be edited, lies before the bound.                                        *)
Records(e) == Contains(list, e) /\ entry[e].state = Running /\ entry[e].end <= MaxTime
RecordingEnds == \A e \in Timers : Records(e) ~> ~Records(e)

(* "We keep on processing the first entry until it goes into the future."  *)
(* (timer.py:333): then every entry lies in the future.                    *)
FutureOnly ==
  loop = "idle" => \A i \in 1 .. Len(list) : NextActivation(entry[list[i]]) > last

(* "The timer entry itself will fix up the delay." (RecordTimer.py:1047):  *)
(* an entry whose activation is refused is not due any more.               *)
RefusalIsDelayed ==
  [][\A w \in Timers :
       Activates(w) /\ entry'[w].state = entry[w].state /\ Contains(list', w)
         => NextActivation(entry'[w]) > now]_vars

(* "Return the start and end time for the next time a repeat timer runs"   *)
(* (timer.py:59): the one is not after the other.                          *)
RepeatIsOrdered ==
  \A e \in Timers : entry[e].repeats /\ entry[e].state = Waiting => entry[e].begin <= entry[e].end
=============================================================================
