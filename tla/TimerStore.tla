----------------------------- MODULE TimerStore -----------------------------
(* The recording timers of RecordTimer across restarts: saveTimer() writes *)
(* the begin, the end and the switches of every entry to timers.xml,       *)
(* loadTimer() reads them back, one record() after the other, when the     *)
(* program starts.  The program, or the power, may fail at any moment, and *)
(* writing may fail, which saveTimer() does not report.                    *)
(*                                                                         *)
(* A state, a backoff or a cut end's original is not written: an entry     *)
(* that is loaded starts from the beginning.  Instant recordings, which    *)
(* are never saved (dontSave), are left out.                               *)
EXTENDS RecordTimer

CONSTANTS
  Service,        \* what each timer records
  MaxCrashes,     \* bound: how often the program fails
  MaxSaveErrors   \* bound: how often the file cannot be written

ASSUME StoreAssumption == DOMAIN Service = Timers /\ MaxCrashes \in Nat /\ MaxSaveErrors \in Nat

VARIABLES
  phase,      \* "up", "loading" (in the constructor of RecordTimer)
  file,       \* timers.xml
  toLoad,     \* what loadTimer() has still to load
  saving,     \* record() has yet to call saveTimer()
  stale,      \* history: the last saveTimer() failed
  gone,       \* history: the entries the user has removed
  dropped,    \* history: those that loadTimer() took for double
  crashes, saveErrors

storeVars == <<phase, file, toLoad, saving, stale, gone, dropped, crashes, saveErrors>>
allVars == <<vars, storeVars>>

Stored == [timer : Timers, begin : Int, end : Int, disabled : BOOLEAN, repeats : BOOLEAN]
In(e, f) == \E i \in DOMAIN f : f[i].timer = e

StoreTypeOK ==
  /\ TypeOK
  /\ phase \in {"up", "loading"} /\ file \in Seq(Stored) /\ toLoad \in Seq(Stored)
  /\ saving \in BOOLEAN /\ stale \in BOOLEAN /\ gone \subseteq Timers /\ dropped \subseteq Timers
  /\ crashes \in 0 .. MaxCrashes /\ saveErrors \in 0 .. MaxSaveErrors
  /\ phase = "up" => toLoad = <<>>

StoreInit ==
  /\ Init
  /\ phase = "up" /\ file = <<>> /\ toLoad = <<>> /\ saving = FALSE
  /\ stale = FALSE /\ gone = {} /\ dropped = {} /\ crashes = 0 /\ saveErrors = 0

-----------------------------------------------------------------------------
(* saveTimer(), when the entries are as in f.  The file is written under   *)
(* another name and renamed, so it is the old one or the new one.          *)

Write(l, p, f) ==
  \/ /\ file' = [i \in DOMAIN (l \o p) |-> LET e == (l \o p)[i] IN
        [timer |-> e, begin |-> f[e].begin, end |-> f[e].end,
         disabled |-> f[e].disabled, repeats |-> f[e].repeats]]
     /\ stale' = FALSE /\ UNCHANGED saveErrors
  \/ /\ saveErrors < MaxSaveErrors
     /\ saveErrors' = saveErrors + 1 /\ stale' = TRUE /\ UNCHANGED file

Unwritten == UNCHANGED <<file, stale, saveErrors>>
Up == phase = "up" /\ ~(saving /\ Idle)
KeepsPhase == UNCHANGED <<phase, toLoad, dropped, crashes>>

(* activate() saves while the entry that ends is still in timer_list. *)
Ending(w) == Activates(w) /\ Activated(entry[w], Running)

Process ==
  /\ phase = "up" /\ CalcNextActivation
  /\ IF \E w \in Timers : Ending(w)
     THEN Write(list, processed, [entry EXCEPT ![Head(list)] = Finished(@)])
     ELSE Unwritten
  /\ KeepsPhase /\ UNCHANGED <<saving, gone>>

StreamEnded(e) ==
  LET r == ProcessRepeated(entry[e], FALSE)
  IN  /\ Up /\ GstRecordEnded(e)
      /\ IF Activated(r, Running) THEN Write(list, processed, [entry EXCEPT ![e] = Finished(r)])
         ELSE Unwritten
      /\ KeepsPhase /\ UNCHANGED <<saving, gone>>

(* record() saves at its end, after calcNextActivation().  (One that it     *)
(* refuses, because it is double or in conflict, changes nothing.)         *)
UserRecords(e, begin) ==
  /\ Up /\ e \notin gone \cup dropped /\ Record(e, begin)
  /\ saving' = TRUE
  /\ KeepsPhase /\ Unwritten /\ UNCHANGED gone

Save ==
  /\ saving /\ Idle /\ phase = "up"
  /\ Write(list, processed, entry) /\ saving' = FALSE
  /\ KeepsPhase /\ UNCHANGED <<vars, gone>>

(* Seeded fault: the edit screen saves before it sets the times. *)
UserEditsLater(e, begin) ==
  /\ Up /\ Edit(e, begin)
  /\ Write(list, processed, entry)
  /\ KeepsPhase /\ UNCHANGED <<saving, gone>>

(* The edit screen sets the times and saves; the list calls timeChanged(). *)
UserEdits(e, begin) ==
  /\ Up /\ Edit(e, begin)
  /\ Write(list, processed,
       [entry EXCEPT ![e] = [entry[e] EXCEPT !.begin = IF entry[e].state = Running THEN @ ELSE begin,
                                             !.end = begin + Length]])
  /\ KeepsPhase /\ UNCHANGED <<saving, gone>>

(* Seeded fault: removeEntry() saves before it takes the entry out. *)
RemovedTooLate ==
  /\ phase = "up" /\ Removed
  /\ Write(list, processed, entry) /\ gone' = gone \cup {removing}
  /\ KeepsPhase /\ UNCHANGED saving

RemovedAndSaved ==
  /\ phase = "up" /\ Removed
  /\ Write(list, processed', entry) /\ gone' = gone \cup {removing}
  /\ KeepsPhase /\ UNCHANGED saving

(* What cleanup() takes off the list, the user has removed. *)
CleanedAndSaved ==
  /\ Up /\ Cleanup
  /\ Write(list, processed', entry)
  /\ gone' = gone \cup {e \in Timers : Contains(processed, e) /\ ~entry[e].disabled}
  /\ KeepsPhase /\ UNCHANGED saving

(* The rest changes what is in memory only: so does a timer that is        *)
(* disabled or enabled in the list.                                        *)
Unsaved ==
  /\ Up
  /\ \/ TimerFires \/ Tick
     \/ \E e \in Timers : Disable(e) \/ Enable(e) \/ RemoveEntry(e) \/ WriteError(e) \/ RecordAborted(e)
     \/ \E t \in 0 .. MaxTime : SetClock(t)
  /\ KeepsPhase /\ Unwritten /\ UNCHANGED <<saving, gone>>

-----------------------------------------------------------------------------
(* Restarting, from a file.  What could not be written as removed comes    *)
(* back.                                                                   *)

Start(f) ==
  /\ alarm' = MaxWaitTime /\ last' = now /\ loop' = "idle"
  /\ list' = <<>> /\ processed' = <<>> /\ warping' = <<>>
  /\ entry' = [e \in Timers |-> NewEntry(e)]
  /\ live' = [e \in Timers |-> 0] /\ recordings' = 0 /\ removing' = NoTimer
  /\ phase' = "loading" /\ toLoad' = f /\ saving' = FALSE
  /\ gone' = {e \in gone : ~In(e, f)} /\ dropped' = {}
  /\ UNCHANGED <<now, bounds>>

Crash ==
  /\ crashes < MaxCrashes /\ crashes' = crashes + 1
  /\ Start(file) /\ stale' = FALSE /\ UNCHANGED <<file, saveErrors>>

(* shutdown() of the navigation saves; the next start loads. *)
Shutdown ==
  /\ Up /\ Idle /\ crashes < MaxCrashes /\ crashes' = crashes + 1
  /\ Write(list, processed, entry) /\ Start(file')

(* An entry as createTimer() makes it of what was written. *)
Created(x) == [NewEntry(x.timer) EXCEPT !.begin = x.begin, !.end = x.end,
                 !.disabled = x.disabled, !.repeats = x.repeats]

(* doubleCheck(): a timer that is queued records all of this one. *)
Double(x) ==
  \E y \in Timers : /\ Contains(list, y) /\ Service[y] = Service[x.timer]
                    /\ x.begin >= entry[y].begin /\ x.end <= entry[y].end

LoadNext(x) ==
  /\ phase = "loading" /\ Idle /\ toLoad # <<>> /\ x = Head(toLoad) /\ toLoad' = Tail(toLoad)
  /\ Undisturbed /\ Unwritten /\ UNCHANGED <<bounds, phase, saving, gone, crashes>>

(* Seeded fault: a timer whose time is past is not loaded. *)
LoadAhead ==
  LET x == Head(toLoad)
  IN  /\ LoadNext(x) /\ UNCHANGED dropped
      /\ IF x.end > now
         THEN AddTimerEntry(x.timer, TimesSet(Created(x)), list, processed, TRUE)
         ELSE UNCHANGED <<listVars, loop>>

(* record() of the next one, without saving.  One that is double is        *)
(* dropped without a word, unless check() has found a conflict: then       *)
(* doubleCheck() is not asked.  What check() finds is left open.           *)
Load ==
  LET x == Head(toLoad)
  IN  /\ LoadNext(x)
      /\ \/ AddTimerEntry(x.timer, TimesSet(Created(x)), list, processed, TRUE) /\ UNCHANGED dropped
         \/ Double(x) /\ dropped' = dropped \cup {x.timer} /\ UNCHANGED <<listVars, loop>>

(* Timers are activated while the others are still being loaded, and that  *)
(* takes time.                                                             *)
LoadProcess ==
  /\ phase = "loading"
  /\ ~\E w \in Timers : Ending(w)
  /\ CalcNextActivation \/ Tick
  /\ KeepsPhase /\ Unwritten /\ UNCHANGED <<saving, gone>>

(* One that ends while others are being loaded: activate() asks the        *)
(* navigation for its RecordTimer, which is not there before the           *)
(* constructor returns.  The start fails; the file is as it was.           *)
LoadRaises ==
  /\ phase = "loading" /\ \E w \in Timers : Ending(w)
  /\ Start(file) /\ Unwritten /\ UNCHANGED crashes

Loaded ==
  /\ phase = "loading" /\ Idle /\ toLoad = <<>>
  /\ phase' = "up"
  /\ UNCHANGED <<vars, file, toLoad, saving, stale, gone, dropped, crashes, saveErrors>>

StoreNext ==
  \/ Process \/ Save \/ RemovedAndSaved \/ CleanedAndSaved \/ Unsaved
  \/ \E e \in Timers : StreamEnded(e) \/ \E b \in Begins : UserRecords(e, b) \/ UserEdits(e, b)
  \/ Crash \/ Shutdown \/ Load \/ LoadProcess \/ LoadRaises \/ Loaded

StoreSpec == StoreInit /\ [][StoreNext]_allVars

-----------------------------------------------------------------------------
(* Properties *)

(* The times in the file are those of the entry, or of an earlier day.     *)
Current(x, r) ==
  /\ x.repeats = r.repeats /\ r.end - x.end = r.begin - x.begin
  /\ IF r.repeats THEN \E k \in 0 .. r.begin - x.begin : r.begin = x.begin + k * Day
     ELSE r.begin = x.begin

(* No timer depends on the memory: each that is known is in the file       *)
(* whenever the program may fail, also while it is still reading that      *)
(* file, and with the times the user has set, which go on by days in       *)
(* memory only (RecordTimer.py:1118-1187, TimerEdit.py:405-431).  A failed *)
(* one has an end of its own until it is over; and whether one is disabled *)
(* is not compared: what is switched in the list is not saved.             *)
KnownIsStored ==
  ~stale /\ ~saving /\ loop = "idle" =>
    \A e \in Timers :
       /\ Known(e) \/ In(e, toLoad) => In(e, file)
       /\ Known(e) /\ ~entry[e].failed /\ e \notin gone \cup {removing} =>
            \E i \in DOMAIN file : file[i].timer = e /\ Current(file[i], entry[e])

(* "Disable" is a change like any other: the file says what the list shows. *)
SwitchIsStored ==
  ~stale /\ ~saving /\ loop = "idle" =>
    \A i \in DOMAIN file : Known(file[i].timer) => file[i].disabled = entry[file[i].timer].disabled

(* A timer the user removed does not come back with a restart, although    *)
(* saveTimer() also runs in the middle of removing it, unless the file     *)
(* could not be written (RecordTimer.py:1436-1472, 653), or a second copy  *)
(* of it stays (see StoredOnce).                                           *)
RemovedStaysAway ==
  \A e \in gone : ~Known(e) /\ ~In(e, toLoad) /\ (~stale => ~In(e, file))

(* A timer that is in the file stays there until it is removed, through    *)
(* any number of restarts, also when it ended while the receiver was off   *)
(* (RecordTimer.py:1083-1116).  What cleanupDaily() drops ended KeepTime   *)
(* ago, or did so by a clock that was wrong; what loadTimer() takes for    *)
(* double is not in the next file.                                         *)
Latest == IF clockSets = 0 THEN now ELSE MaxTime
Old(e) == entry[e].end <= Latest - KeepTime /\ ~(entry[e].disabled /\ entry[e].repeats)
StaysInFile ==
  [][\A e \in Timers : In(e, file) /\ ~In(e, file') => e \in gone' \cup dropped \/ Old(e)]_allVars

(* Timers are loaded into one place each, and the file holds each once,    *)
(* also when the end of a stream calls doActivate() for one that is        *)
(* processed (RecordTimer.py:936-939).  If that one repeats it is put into *)
(* processed_timers twice, and stored twice: see RecordTimerTwice.  In the *)
(* run of this property the timer with a stream does not repeat.           *)
StoredOnce ==
  /\ OnePlace
  /\ \A i, j \in DOMAIN file : i # j => file[i].timer # file[j].timer
  /\ \A e \in Timers : In(e, toLoad) => ~Known(e)
=============================================================================
