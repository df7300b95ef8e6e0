------------------------ MODULE ServiceRecordProofs ------------------------
(***************************************************************************)
(* Proofs about ServiceRecord, for any programs, faults and bounds.  The   *)
(* invariant follows a recording through its life: which states of the     *)
(* timer, the service, the recorder and the thread go together, and, on    *)
(* top of it, what the service, the recorder and the demux each believe    *)
(* the recorded pids to be.                                                *)
(***************************************************************************)
EXTENDS ServiceRecord, TLAPS

Lives == phase # "gone"

(* The service is prepared with the timer's first step, the recorder's     *)
(* thread exists exactly while it runs, which it does only for a service   *)
(* that records, and stop() waits only for a thread.  What has been        *)
(* written was written by the recorder that is there.                      *)
LifeInv ==
  /\ phase = "new" => state = "Idle" /\ chan = "none"
  /\ phase \in {"prepared", "started"} => state # "Idle"
  /\ state = "Recording" => Lives /\ record /\ target
  /\ running => state = "Recording" /\ tuned /\ want
  /\ running <=> pc # "none"
  /\ call # "idle" => running
  /\ Lives /\ data => record

(* The pids of the service, of its recorder and of the demux agree, and    *)
(* are those of the program; a cached program is never another one.  The   *)
(* pid the demux was opened with, which it cannot drop, is the PAT's.      *)
PidInv ==
  Lives =>
    /\ recPids = active
    /\ state # "Recording" => active = {}
    /\ program # NoProgram /\ cached # NotCached => cached = program
    /\ running /\ call = "idle" => filter = active /\ tap = PAT
    /\ running /\ program # NoProgram => active = PidsToRecord(program)

(* do_recv() never pops more than is in the queue, and there is nothing    *)
(* in it before the service is prepared.                                   *)
PumpInv ==
  /\ Lives => batch <= Len(events)
  /\ phase = "new" => events = <<>>

RecordInv == TypeOK /\ LifeInv /\ PidInv /\ PumpInv

-----------------------------------------------------------------------------
(* The pids doRecord() knows of: a program's, or none from an empty cache. *)
Known == Programs \cup {{}}
AllPids == Pids \cup {PAT}

LEMMA NotKnown == NoProgram \notin Known /\ NotCached \notin Known
BY RecordAssumption DEF Known

(* The demux is opened with the smallest pid, which is the PAT's. *)
LEMMA SmallestIsPAT ==
  ASSUME NEW P \in Known
  PROVE  /\ PidsToRecord(P) \subseteq AllPids
         /\ (CHOOSE p \in PidsToRecord(P) : \A q \in PidsToRecord(P) : p <= q) = PAT
<1>1. PAT \in Nat /\ P \subseteq Nat /\ (\A p \in P : PAT < p) /\ P \subseteq Pids
  BY RecordAssumption DEF Known, Pids
<1>2. \A q \in PidsToRecord(P) : PAT <= q
  BY <1>1 DEF PidsToRecord
<1>3. ASSUME NEW p \in PidsToRecord(P), \A q \in PidsToRecord(P) : p <= q PROVE p = PAT
  BY <1>1, <1>3 DEF PidsToRecord
<1>4. PAT \in PidsToRecord(P)
  BY DEF PidsToRecord
<1>. QED BY <1>1, <1>2, <1>3, <1>4 DEF AllPids, PidsToRecord

(* What doRecord() leaves behind, whether it waits, fails or goes on: the  *)
(* thread it starts belongs to a service that records, nothing that was    *)
(* recorded is lost, and the pids of all three are those it was told.      *)
LEMMA RecordEffect ==
  ASSUME TypeOK, LifeInv, PidInv, Lives, call = "idle",
         NEW t \in BOOLEAN, NEW c \in Known \cup {NotCached}, NEW p \in Programs \cup {NoProgram},
         running => t, c # NotCached /\ p # NoProgram => c = p,
         DoRecord(t, c, p)
  PROVE  /\ state' \in {state, "Recording"}
         /\ {record', target', running', source', mstop', pending', data'} \subseteq BOOLEAN
         /\ state' = "Recording" => record' /\ target'
         /\ running' => state' = "Recording" /\ t
         /\ running' <=> pc' # "none"
         /\ pc' \in {pc, "test"}
         /\ data' => record'
         /\ data => data'
         /\ cached' \in Known \cup {NotCached}
         /\ {active', filter'} \subseteq SUBSET AllPids /\ tap' \in AllPids
         /\ recPids' = active'
         /\ state' # "Recording" => active' = {}
         /\ p # NoProgram /\ cached' # NotCached => cached' = p
         /\ running' => filter' = active' /\ tap' = PAT
         /\ running' /\ p # NoProgram => active' = PidsToRecord(p)
<1>. USE DEF Lives, LifeInv, PidInv, recorder, thread
<1>t. /\ record \in BOOLEAN /\ target \in BOOLEAN /\ running \in BOOLEAN /\ source \in BOOLEAN
      /\ mstop \in BOOLEAN /\ pending \in BOOLEAN /\ data \in BOOLEAN
      /\ state \in {"Idle", "Prepared", "Recording"}
      /\ active \subseteq AllPids /\ filter \subseteq AllPids /\ tap \in AllPids
  BY DEF TypeOK, AllPids
<1>1. CASE DoRecordWaits(t, c)
  BY <1>1, <1>t DEF DoRecordWaits
<1>2. CASE DoRecordFails(t, c)
  BY <1>2, <1>t DEF DoRecordFails
<1>3. CASE DoRecordNoInfo(t, c, p)
  BY <1>3, <1>t, NotKnown DEF DoRecordNoInfo, Allocates, Info, FillsCache, Known
<1>4. CASE DoRecordRuns(t, c, p)
  <2>. DEFINE P == Info(c, p)
              pids == PidsToRecord(P)
  <2>1. P \in Known /\ (p # NoProgram => P = p) /\ P # NoProgram
    BY <1>4, NotKnown DEF DoRecordRuns, Info, Known
  <2>2. pids \subseteq AllPids /\ (CHOOSE r \in pids : \A q \in pids : r <= q) = PAT
    BY <2>1, SmallestIsPAT
  <2>3. recPids' = pids /\ active' = pids /\ state' = "Recording" /\ pending' = pending
    BY <1>4 DEF DoRecordRuns, Allocates
  <2>4. cached' = P
    BY <1>4, <2>1, NotKnown DEF DoRecordRuns, FillsCache
  <2>5. record' = TRUE /\ target' = TRUE /\ data' = (record /\ data) /\ t
    BY <1>4 DEF DoRecordRuns, Allocates
  <2>6. CASE state # "Recording"
    <3>1. StartRecorder(pids)
      BY <1>4, <2>3, <2>6 DEF DoRecordRuns
    <3>2. CASE running' = TRUE /\ source' = TRUE /\ filter' = pids /\ tap' = PAT /\ pc' = "test" /\ mstop' = FALSE
      BY <3>2, <2>1, <2>2, <2>3, <2>4, <2>5, <1>t DEF AllPids
    <3>3. CASE UNCHANGED <<running, source, filter, tap, pc, mstop>>
      BY <3>3, <2>1, <2>2, <2>3, <2>4, <2>5, <2>6, <1>t
    <3>. QED BY <3>1, <3>2, <3>3, <2>2 DEF StartRecorder
  <2>7. CASE state = "Recording"
    <3>1. UNCHANGED <<running, source, tap, pc, mstop>>
      BY <1>4, <2>7 DEF DoRecordRuns
    <3>2. filter' = IF running THEN (filter \cup (pids \ active)) \ ((active \ pids) \ {tap}) ELSE filter
      BY <1>4, <2>7 DEF DoRecordRuns
    <3>3. running => filter' = pids
      BY <3>2 DEF PidsToRecord
    <3>4. filter' \subseteq AllPids
      BY <3>2, <2>2, <1>t
    <3>. QED BY <3>1, <3>3, <3>4, <2>1, <2>2, <2>3, <2>4, <2>5, <2>7, <1>t
  <2>. QED BY <2>6, <2>7
<1>. QED BY <1>1, <1>2, <1>3, <1>4 DEF DoRecord, DoRecordDone

(* TypeOK, one variable at a time. *)
Typed ==
  /\ phase \in {"new", "prepared", "started", "gone"} /\ starts \in 0 .. MaxStarts
  /\ state \in {"Idle", "Prepared", "Recording"}
  /\ want \in BOOLEAN /\ tuned \in BOOLEAN /\ record \in BOOLEAN /\ target \in BOOLEAN
  /\ demux \in BOOLEAN /\ running \in BOOLEAN /\ source \in BOOLEAN /\ mstop \in BOOLEAN
  /\ pending \in BOOLEAN /\ data \in BOOLEAN
  /\ sort \in Sorts /\ chan \in {"none", "tuning", "ok", "failed"}
  /\ program \in Programs \cup {NoProgram} /\ cached \in Known \cup {NotCached}
  /\ active \subseteq AllPids /\ recPids \subseteq AllPids /\ filter \subseteq AllPids
  /\ tap \in AllPids
  /\ pc \in {"none", "test", "read", "reading", "write", "wait", "flush", "last", "ended"}
  /\ events \in Seq({"readError", "stopped"} \cup Relayed) /\ batch \in Nat
  /\ call \in {"idle", "closed", "told", "join"} /\ who \in {"timer", "writeError", "sourceStops"}

LEMMA OneByOne == (TypeOK <=> Typed) /\ (TypeOK' <=> Typed')
BY DEF TypeOK, Typed, Known, AllPids

(* So doRecord() keeps the invariant wherever it is called: from start(),  *)
(* for a new PMT and for a channel that has tuned.                         *)
LEMMA RecordKeeps ==
  ASSUME RecordInv, Idle, state # "Idle",
         NEW t \in BOOLEAN, NEW c \in Known \cup {NotCached}, NEW p \in Programs \cup {NoProgram},
         running => t, c # NotCached /\ p # NoProgram => c = p,
         DoRecord(t, c, p),
         t => tuned', want', program' = p,
         phase' \in {"prepared", "started"}, starts' \in 0 .. MaxStarts,
         tuned' \in BOOLEAN, want' \in BOOLEAN, demux' \in BOOLEAN,
         chan' \in {"none", "tuning", "ok", "failed"}, UNCHANGED <<sort, pump, main>>
  PROVE  RecordInv' /\ (data => data')
<1>. USE DEF RecordInv, Idle, Lives, pump, main
<1>1. /\ state' \in {state, "Recording"}
      /\ {record', target', running', source', mstop', pending', data'} \subseteq BOOLEAN
      /\ state' = "Recording" => record' /\ target'
      /\ running' => state' = "Recording" /\ t
      /\ running' <=> pc' # "none"
      /\ pc' \in {pc, "test"}
      /\ data' => record'
      /\ data => data'
      /\ cached' \in Known \cup {NotCached}
      /\ {active', filter'} \subseteq SUBSET AllPids /\ tap' \in AllPids
      /\ recPids' = active'
      /\ state' # "Recording" => active' = {}
      /\ p # NoProgram /\ cached' # NotCached => cached' = p
      /\ running' => filter' = active' /\ tap' = PAT
      /\ running' /\ p # NoProgram => active' = PidsToRecord(p)
  BY RecordEffect
<1>2. Typed'
  BY <1>1, OneByOne DEF Typed
<1>3. LifeInv'
  BY <1>1 DEF LifeInv
<1>4. PidInv'
  BY <1>1 DEF PidInv
<1>5. PumpInv'
  BY DEF PumpInv
<1>. QED BY <1>1, <1>2, <1>3, <1>4, <1>5, OneByOne

(* stop(), whoever calls it: with a thread to wait for it stays half done, *)
(* without one it goes on to its end.                                      *)
Events == Seq({"readError", "stopped"} \cup Relayed)

LEMMA StopKeepsInv ==
  ASSUME RecordInv, Lives, call = "idle",
         NEW w \in {"timer", "writeError", "sourceStops"}, NEW q \in Events,
         batch' \in Nat, batch' <= Len(q), Stop(w, q)
  PROVE  RecordInv' /\ (data => data')
<1>. USE DEF RecordInv, Lives, Stop, StopEnds, GivesBack, handler
<1>1. Typed'
  <2>1. events' \in Events
    <3>1. <<>> \in Events
      BY DEF Events
    <3>2. events' \in {<<>>, q}
      OBVIOUS
    <3>. QED BY <3>1, <3>2
  <2>2. /\ phase' \in {"new", "prepared", "started", "gone"} /\ state' \in {"Idle", "Prepared", "Recording"}
        /\ call' \in {"idle", "closed"} /\ who' = w
        /\ UNCHANGED <<starts, want, tuned, active, sort, chan, demux, program, cached, recPids, tap,
                      pending, data, pc, mstop>>
    BY OneByOne DEF Typed
  <2>3. target' \in BOOLEAN /\ record' \in BOOLEAN /\ running' \in BOOLEAN /\ source' \in BOOLEAN
        /\ filter' = {}
    BY OneByOne DEF Typed, LifeInv
  <2>. QED BY <2>1, <2>2, <2>3, OneByOne DEF Typed, Events
<1>2. LifeInv'
  BY DEF LifeInv
<1>3. PidInv'
  BY DEF PidInv, LifeInv
<1>4. PumpInv'
  BY DEF PumpInv, LifeInv
<1>. QED BY <1>1, <1>2, <1>3, <1>4, OneByOne

LEMMA ThreadKeepsInv ==
  ASSUME RecordInv, ThreadStep \/ ReadReturns \/ AioDone
  PROVE  RecordInv' /\ (data => data')
<1>. USE DEF RecordInv, ThreadKeeps, Goes, Sends, owner, service, handler, recorder, main
<1>1. pc' # "none" <=> pc # "none"
  BY DEF ThreadStep, TestStop, EnterRead, WriteFails, WriteData, WaitDone, Flush, ReadReturns, AioDone
<1>2. /\ pc' \in {"none", "test", "read", "reading", "write", "wait", "flush", "last", "ended"}
      /\ pending' \in BOOLEAN /\ data' \in BOOLEAN
  BY DEF ThreadStep, TestStop, EnterRead, WriteFails, WriteData, WaitDone, Flush, ReadReturns, AioDone,
         TypeOK
<1>3. data' = data \/ (data' = TRUE /\ pc = "write")
  BY DEF ThreadStep, TestStop, EnterRead, WriteFails, WriteData, WaitDone, Flush, ReadReturns, AioDone
<1>4. events' \in Seq({"readError", "stopped"} \cup Relayed) /\ Len(events') >= Len(events)
  <2>1. events \in Seq({"readError", "stopped"} \cup Relayed)
    BY DEF TypeOK
  <2>2. events' = events \/ \E e \in {"readError", "stopped"} \cup Relayed : events' = Append(events, e)
    BY DEF ThreadStep, TestStop, EnterRead, WriteFails, WriteData, WaitDone, Flush, ReadReturns, AioDone,
           Relayed
  <2>. QED BY <2>1, <2>2
<1>5. UNCHANGED <<owner, service, handler, recorder, batch, main, mstop>>
  BY DEF ThreadStep, TestStop, EnterRead, WriteFails, WriteData, WaitDone, Flush, ReadReturns, AioDone
<1>6. Typed'
  BY <1>2, <1>4, <1>5, OneByOne DEF Typed
<1>7. LifeInv'
  BY <1>1, <1>3, <1>5 DEF LifeInv, Lives
<1>8. PidInv'
  BY <1>5 DEF PidInv, Lives
<1>9. PumpInv'
  <2>1. events' = events \/ pc # "none"
    BY DEF ThreadStep, TestStop, EnterRead, WriteFails, WriteData, WaitDone, Flush, ReadReturns, AioDone
  <2>2. phase = "new" => events' = events
    BY <2>1 DEF LifeInv
  <2>3. batch \in Nat /\ Len(events) \in Nat /\ Len(events') \in Nat
    BY <1>4, OneByOne DEF Typed
  <2>. QED BY <1>4, <1>5, <2>2, <2>3 DEF PumpInv, Lives
<1>. QED BY <1>3, <1>6, <1>7, <1>8, <1>9, OneByOne

LEMMA RecordInit == Init => RecordInv
<1>. SUFFICES ASSUME Init PROVE RecordInv
  OBVIOUS
<1>1. Typed
  <2>1. events \in Seq({"readError", "stopped"} \cup Relayed) /\ batch \in Nat /\ tap \in AllPids
        /\ starts \in 0 .. MaxStarts
    BY RecordAssumption DEF Init, AllPids
  <2>. QED BY <2>1 DEF Init, Typed
<1>2. LifeInv /\ PidInv /\ PumpInv
  BY DEF Init, LifeInv, PidInv, PumpInv, Lives
<1>. QED BY <1>1, <1>2, OneByOne DEF RecordInv

LEMMA RecordStep == RecordInv /\ [Next]_vars => RecordInv' /\ (data => data')
<1>. SUFFICES ASSUME RecordInv, [Next]_vars PROVE RecordInv' /\ (data => data')
  OBVIOUS
<1>. USE DEF owner, service, handler, recorder, thread, pump, main
<1>1. CASE Prepare
  <2>1. CASE phase' = "gone" /\ UNCHANGED <<service, handler, recorder, thread>>
    <3>1. LifeInv' /\ PidInv' /\ PumpInv'
      BY <1>1, <2>1 DEF Prepare, Idle, RecordInv, LifeInv, PidInv, PumpInv, Lives
    <3>2. Typed'
      BY <1>1, <2>1, OneByOne DEF Prepare, Typed, RecordInv
    <3>. QED BY <2>1, <3>1, <3>2, OneByOne DEF RecordInv
  <2>2. CASE DoPrepare /\ chan' # "none" /\ phase' = "prepared" /\ UNCHANGED <<want, sort, program>>
    <3>1. /\ chan' \in {"tuning", "ok"} /\ demux' \in BOOLEAN /\ tuned' \in BOOLEAN
          /\ cached' \in {cached, NotCached} /\ (tuned => tuned')
          /\ UNCHANGED <<record, target, recorder, thread>>
      <4>1. CASE Tuned("Prepared")
        <5>1. chan' = "ok" /\ demux' \in BOOLEAN /\ tuned' = (tuned \/ demux')
              /\ cached' = (IF demux' THEN NotCached ELSE cached)
              /\ UNCHANGED <<record, target, recorder, thread>>
          BY <4>1 DEF Tuned
        <5>. QED BY <5>1, OneByOne DEF RecordInv, Typed
      <4>2. CASE ~Tuned("Prepared")
        BY <2>2, <4>2, OneByOne DEF DoPrepare, TuneExt, RecordInv, Typed
      <4>. QED BY <4>1, <4>2
    <3>2. state' = "Prepared" /\ active' = {} /\ UNCHANGED <<starts, pump, main>> /\ phase = "new"
          /\ call = "idle"
      BY <1>1, <2>2 DEF Prepare, DoPrepare, Idle
    <3>3. Typed'
      BY <2>2, <3>1, <3>2, OneByOne DEF Typed, RecordInv
    <3>4. LifeInv' /\ PidInv' /\ PumpInv'
      BY <2>2, <3>1, <3>2 DEF RecordInv, LifeInv, PidInv, PumpInv, Lives
    <3>. QED BY <3>1, <3>3, <3>4, OneByOne DEF RecordInv
  <2>. QED BY <1>1, <2>1, <2>2 DEF Prepare
<1>2. CASE Start
  <2>1. DoRecord(tuned, cached, program) /\ phase' \in {"prepared", "started"} /\ Idle
    BY <1>2 DEF Start, DoRecord
  <2>2. starts' \in 0 .. MaxStarts /\ want' = TRUE
    BY <1>2, RecordAssumption, OneByOne DEF Start, Typed, RecordInv
  <2>3. running => tuned
    BY DEF RecordInv, LifeInv
  <2>4. cached # NotCached /\ program # NoProgram => cached = program
    BY <2>1 DEF RecordInv, PidInv, Lives, Idle
  <2>5. /\ tuned \in BOOLEAN /\ cached \in Known \cup {NotCached} /\ program \in Programs \cup {NoProgram}
        /\ demux \in BOOLEAN /\ chan \in {"none", "tuning", "ok", "failed"}
    BY OneByOne DEF Typed, RecordInv
  <2>. QED BY <1>2, <2>1, <2>2, <2>3, <2>4, <2>5, RecordKeeps DEF Start
<1>3. CASE StopRecordService \/ SourceStops
  <2>1. Lives /\ call = "idle" /\ UNCHANGED batch /\ \E w \in {"timer", "sourceStops"} : Stop(w, events)
    BY <1>3 DEF StopRecordService, SourceStops, Idle, Lives
  <2>2. events \in Events /\ batch \in Nat /\ batch <= Len(events)
    BY <2>1, OneByOne DEF RecordInv, Typed, PumpInv, Events
  <2>. QED BY <2>1, <2>2, StopKeepsInv
<1>4. CASE ChannelOk
  <2>1. Idle /\ state # "Idle" /\ Tuned(state)
    BY <1>4, OneByOne DEF ChannelOk, RecordInv, LifeInv, Lives, Idle, Typed
  <2>2. CASE demux' /\ state = "Recording" /\ want
    <3>1. DoRecord(TRUE, NotCached, program)
      BY <2>1, <2>2 DEF Tuned
    <3>2. tuned' = TRUE /\ want' = want /\ chan' = "ok" /\ program' = program /\ phase' = phase
          /\ starts' = starts /\ UNCHANGED <<sort, pump, main>>
      BY <1>4, <2>1, <2>2 DEF ChannelOk, Tuned
    <3>3. phase \in {"prepared", "started"} /\ starts \in 0 .. MaxStarts
          /\ program \in Programs \cup {NoProgram}
      BY <2>2, OneByOne DEF RecordInv, LifeInv, Lives, Typed
    <3>. QED BY <2>1, <2>2, <3>1, <3>2, <3>3, RecordKeeps
  <2>3. CASE ~(demux' /\ state = "Recording" /\ want)
    <3>1. /\ chan' = "ok" /\ demux' \in BOOLEAN /\ tuned' \in BOOLEAN /\ (tuned => tuned')
          /\ cached' \in {cached, NotCached}
          /\ UNCHANGED <<record, target, recorder, thread, state, active, owner, want, sort, program, pump, main>>
      BY <1>4, <2>1, <2>3 DEF ChannelOk, Tuned, RecordInv, TypeOK
    <3>2. Typed'
      BY <3>1, OneByOne DEF Typed, RecordInv
    <3>3. LifeInv' /\ PidInv' /\ PumpInv'
      BY <2>1, <3>1 DEF RecordInv, LifeInv, PidInv, PumpInv, Lives
    <3>. QED BY <3>1, <3>2, <3>3, OneByOne DEF RecordInv
  <2>. QED BY <2>2, <2>3
<1>5. CASE ChannelLost \/ ChannelFails
  <2>1. chan # "none" /\ chan' \in {"tuning", "failed"}
        /\ UNCHANGED <<owner, service, sort, demux, program, cached, recorder, thread, pump, main>>
    BY <1>5 DEF ChannelLost, ChannelFails
  <2>2. Typed'
    BY <2>1, OneByOne DEF Typed, RecordInv
  <2>3. LifeInv' /\ PidInv' /\ PumpInv'
    BY <2>1 DEF RecordInv, LifeInv, PidInv, PumpInv, Lives
  <2>. QED BY <2>1, <2>2, <2>3, OneByOne DEF RecordInv
<1>6. CASE PATready
  <2>1. program' = NoProgram
        /\ UNCHANGED <<owner, service, sort, chan, demux, cached, recorder, thread, pump, main>>
    BY <1>6 DEF PATready
  <2>2. Typed'
    BY <2>1, OneByOne DEF Typed, RecordInv
  <2>3. LifeInv' /\ PidInv' /\ PumpInv'
    BY <2>1 DEF RecordInv, LifeInv, PidInv, PumpInv, Lives
  <2>. QED BY <2>1, <2>2, <2>3, OneByOne DEF RecordInv
<1>7. ASSUME NEW r \in Programs, PMTready(r) PROVE RecordInv' /\ (data => data')
  <2>1. Idle /\ state # "Idle" /\ NewProgramInfo(NotCached, r) /\ program' = r
        /\ UNCHANGED <<owner, want, sort, pump, main>>
    BY <1>7, OneByOne DEF PMTready, RecordInv, LifeInv, Lives, Idle, Typed
  <2>2. phase \in {"prepared", "started"} /\ starts \in 0 .. MaxStarts /\ tuned \in BOOLEAN
        /\ want \in BOOLEAN /\ demux \in BOOLEAN /\ chan \in {"none", "tuning", "ok", "failed"}
    BY <2>1, OneByOne DEF RecordInv, LifeInv, Lives, Idle, Typed
  <2>3. CASE want
    <3>1. DoRecord(tuned, NotCached, r) /\ UNCHANGED <<tuned, chan, demux>>
      BY <2>1, <2>3 DEF NewProgramInfo
    <3>2. running => tuned
      BY DEF RecordInv, LifeInv
    <3>. QED BY <2>1, <2>2, <2>3, <3>1, <3>2, RecordKeeps
  <2>4. CASE ~want
    <3>1. cached' = NotCached
          /\ UNCHANGED <<state, tuned, record, target, active, chan, demux, recorder, thread>>
      BY <2>1, <2>4 DEF NewProgramInfo
    <3>2. Typed'
      BY <2>1, <3>1, OneByOne DEF Typed, RecordInv
    <3>3. LifeInv' /\ PidInv' /\ PumpInv'
      BY <2>1, <2>4, <3>1 DEF RecordInv, LifeInv, PidInv, PumpInv, Lives
    <3>. QED BY <3>1, <3>2, <3>3, OneByOne DEF RecordInv
  <2>. QED BY <2>3, <2>4
<1>8. CASE DoRecv \/ LeaveDeleted
  <2>1. events \in Seq({"readError", "stopped"} \cup Relayed)
    BY OneByOne DEF Typed, RecordInv
  <2>2. batch' \in Nat /\ (Lives => batch' = Len(events)) /\ data' = data
        /\ UNCHANGED <<owner, service, handler, recorder, thread, events, main>>
    BY <1>8, <2>1 DEF DoRecv, LeaveDeleted, Lives, Idle
  <2>3. Typed'
    BY <2>2, OneByOne DEF Typed, RecordInv
  <2>4. LifeInv' /\ PidInv'
    BY <2>2 DEF RecordInv, LifeInv, PidInv, Lives
  <2>5. PumpInv'
    BY <2>1, <2>2 DEF RecordInv, PumpInv, Lives
  <2>. QED BY <2>2, <2>3, <2>4, <2>5, OneByOne DEF RecordInv
<1>9. CASE PopEvent
  <2>1. Lives /\ call = "idle" /\ batch > 0 /\ batch' = batch - 1 /\ batch \in Nat
        /\ events \in Events /\ batch <= Len(events)
    BY <1>9, OneByOne DEF PopEvent, Lives, RecordInv, Typed, PumpInv, Events
  <2>2. Tail(events) \in Events /\ Len(Tail(events)) = Len(events) - 1
    BY <2>1 DEF Events
  <2>3. batch' \in Nat /\ batch' <= Len(Tail(events))
    BY <2>1, <2>2 DEF Events
  <2>3a. phase # "new"
    BY <2>1 DEF RecordInv, PumpInv
  <2>4. CASE Stop("writeError", Tail(events))
    BY <2>1, <2>2, <2>3, <2>4, StopKeepsInv
  <2>5. CASE /\ events' = Tail(events) /\ chan' \in {"tuning", chan}
             /\ UNCHANGED <<owner, service, sort, demux, program, cached, recorder, thread, main>>
    <3>1. Typed'
      BY <2>2, <2>3, <2>5, OneByOne DEF Typed, RecordInv, Events
    <3>2. LifeInv' /\ PidInv'
      BY <2>5, <2>3a DEF RecordInv, LifeInv, PidInv, Lives
    <3>3. PumpInv'
      BY <2>3, <2>3a, <2>5 DEF PumpInv, Lives
    <3>. QED BY <2>5, <3>1, <3>2, <3>3, OneByOne DEF RecordInv
  <2>. QED BY <1>9, <2>4, <2>5 DEF PopEvent, RecordEvent
<1>10. CASE SetStop
  <2>1. Typed'
    BY <1>10, OneByOne DEF SetStop, StopKeeps, Typed, RecordInv
  <2>2. LifeInv' /\ PidInv' /\ PumpInv' /\ data' = data
    BY <1>10 DEF SetStop, StopKeeps, RecordInv, LifeInv, PidInv, PumpInv, Lives
  <2>. QED BY <2>1, <2>2, OneByOne DEF RecordInv
<1>11. CASE SendSignal
  <2>1. call' = "join" /\ call # "idle" /\ UNCHANGED <<owner, service, handler, recorder, data, batch, who, mstop, pending>>
    BY <1>11 DEF SendSignal, StopKeeps
  <2>2. pc' \in {pc, "flush", "last"} /\ (pc' # pc => pc # "none")
    BY <1>11 DEF SendSignal
  <2>3. events' = events \/ events' = Append(events, "writeError")
    BY <1>11 DEF SendSignal
  <2>4. events \in Seq({"readError", "stopped"} \cup Relayed)
    BY OneByOne DEF Typed, RecordInv
  <2>5. events' \in Seq({"readError", "stopped"} \cup Relayed) /\ Len(events') >= Len(events)
    BY <2>3, <2>4 DEF Relayed
  <2>6. Typed'
    BY <2>1, <2>2, <2>5, OneByOne DEF Typed, RecordInv
  <2>7. LifeInv' /\ PidInv'
    BY <2>1, <2>2 DEF RecordInv, LifeInv, PidInv, Lives
  <2>8. PumpInv'
    <3>1. phase # "new"
      BY <2>1 DEF RecordInv, LifeInv
    <3>2. batch \in Nat /\ Len(events) \in Nat /\ Len(events') \in Nat
      BY <2>4, <2>5, OneByOne DEF RecordInv, Typed
    <3>. QED BY <2>1, <2>5, <3>1, <3>2 DEF PumpInv, Lives, RecordInv
  <2>. QED BY <2>1, <2>6, <2>7, <2>8, OneByOne DEF RecordInv
<1>12. CASE Join
  <2>1. call' = "idle" /\ state' = "Idle" /\ record' = FALSE /\ target' \in BOOLEAN
        /\ running' = FALSE /\ source' = FALSE /\ filter' = {} /\ pc' = "none"
        /\ UNCHANGED <<starts, want, tuned, active, handler, recPids, tap, mstop, pending, data, batch, who>>
    BY <1>12, OneByOne DEF Join, Joins, StopEnds, RecordInv, Typed
  <2>2. phase' = "gone" /\ events' = <<>>
    BY <1>12, OneByOne DEF Join, Joins, StopEnds, RecordInv, Typed, GivesBack
  <2>3. Typed'
    <3>1. events' \in Seq({"readError", "stopped"} \cup Relayed)
      BY <2>2
    <3>2. Typed
      BY OneByOne DEF RecordInv
    <3>3. /\ UNCHANGED <<starts, want, tuned, active, sort, chan, demux, program, cached, recPids, tap>>
          /\ UNCHANGED <<mstop, pending, data, batch, who>>
      BY <2>1
    <3>. QED BY <2>1, <2>2, <3>1, <3>2, <3>3 DEF Typed
  <2>4. LifeInv' /\ PidInv' /\ PumpInv'
    BY <2>1, <2>2 DEF LifeInv, PidInv, PumpInv, Lives
  <2>. QED BY <2>1, <2>3, <2>4, OneByOne DEF RecordInv
<1>13. CASE UNCHANGED vars
  <2>1. Typed'
    BY <1>13, OneByOne DEF vars, RecordInv, Typed
  <2>2. LifeInv' /\ PidInv' /\ PumpInv' /\ data' = data
    BY <1>13 DEF vars, RecordInv, LifeInv, PidInv, PumpInv, Lives
  <2>. QED BY <2>1, <2>2, OneByOne DEF RecordInv
<1>. QED
  BY <1>1, <1>2, <1>3, <1>4, <1>5, <1>6, <1>7, <1>8, <1>9, <1>10, <1>11, <1>12, <1>13, ThreadKeepsInv
     DEF Next, MainStep

LEMMA RecordInvariant == Spec => []RecordInv
BY RecordInit, RecordStep, PTL DEF Spec

-----------------------------------------------------------------------------
(* Every variable keeps its type. *)
THEOREM RecordTypes == Spec => []TypeOK
<1>1. RecordInv => TypeOK
  BY DEF RecordInv
<1>. QED BY <1>1, RecordInvariant, PTL

(* Whenever the recorder's thread exists, and however stop(), a write      *)
(* error and the end of the source meet it, the service records and the    *)
(* file it writes to is open.                                              *)
THEOREM ThreadHasItsFile == Spec => []RunsOnlyRecording
<1>1. RecordInv => RunsOnlyRecording
  BY DEF RecordInv, LifeInv, RunsOnlyRecording
<1>. QED BY <1>1, RecordInvariant, PTL

(* Whatever PMTs come, with the channel tuning anew in between, the demux  *)
(* passes the pids of the program the handler knows, and no others.        *)
THEOREM ProgramIsRecorded == Spec => []RecordsProgram
<1>1. RecordInv => RecordsProgram
  BY DEF RecordInv, PidInv, RecordsProgram, Idle, Lives
<1>. QED BY <1>1, RecordInvariant, PTL

(* A file that holds something is never emptied again.                     *)
THEOREM NothingIsLost == Spec => KeepsRecording
<1>1. RecordInv /\ [Next]_vars => [data => data']_vars
  BY RecordStep
<1>. QED BY <1>1, RecordInvariant, PTL DEF Spec, KeepsRecording
=============================================================================
