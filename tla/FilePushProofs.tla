--------------------------- MODULE FilePushProofs ---------------------------
(***************************************************************************)
(* Proofs about FilePush, for any number of seeks, any EOF limit, and both *)
(* kinds of source.  First the protocol: who holds the mutex, what m_stop  *)
(* says of the owner, and what m_run_state says of the thread.  Then, on   *)
(* top of it, what the data in the DVR says of the seeks.                  *)
(***************************************************************************)
EXTENDS FilePush, TLAPS

(* The mutex is held exactly in the lock scopes of the two sides. *)
MutexInv ==
  /\ mutex = "thread" <=> tpc \in ThreadHolds
  /\ mutex = "main" <=> mpc \in OwnerHolds

(* m_stop is written by the owner alone, so it tells where the owner is.   *)
StopInv ==
  /\ mpc \in {"closed", "signal", "join", "stopped"} => stop = Stopping
  /\ mpc \in {"idle", "pause"} => stop = Running
  /\ mpc \in {"kick", "pausing", "asleep", "flush", "resume"} => stop = Pausing
  /\ tpc = "none" <=> mpc = "closed"

(* m_run_state = 0 is the thread's word that it is out of the inner loop,  *)
(* which it takes back only when m_stop lets it run; pause() waits for it. *)
RunStateInv ==
  /\ runState = 0 => tpc \notin Pushing
  /\ runState = 0 /\ tpc \in {"again", "exit"} => stop = Stopping
  /\ tpc = "leave" => stop # Pausing
  /\ mpc \in {"flush", "resume"} => runState = 0

(* Inside the inner loop eofcount has not reached its limit. *)
EofInv == tpc \in {"none"} \cup (Pushing \ {"stopped", "lock"}) => eofs < EofLimit

ProtocolInv == TypeOK /\ MutexInv /\ StopInv /\ RunStateInv /\ EofInv

LEMMA EofRange == EofLimit \in Nat /\ 0 < EofLimit /\ 0 \in 0 .. EofLimit
BY FilePushAssumption

LEMMA ProtocolInit == Init => ProtocolInv
<1>. SUFFICES ASSUME Init PROVE ProtocolInv
  OBVIOUS
<1>. USE DEF Init, ThreadAt, Pushing, ThreadHolds, InSystemCall, OwnerAt, OwnerHolds,
             Running, Stopping, Pausing
<1>1. TypeOK
  BY EofRange DEF TypeOK
<1>2. MutexInv /\ StopInv /\ RunStateInv
  BY DEF MutexInv, StopInv, RunStateInv
<1>3. EofInv
  BY EofRange DEF EofInv
<1>. QED BY <1>1, <1>2, <1>3 DEF ProtocolInv

LEMMA ProtocolStep == ProtocolInv /\ [Next]_vars => ProtocolInv'
<1>. SUFFICES ASSUME ProtocolInv, [Next]_vars PROVE ProtocolInv'
  OBVIOUS
<1>. USE EofRange
     DEF ProtocolInv, TypeOK, MutexInv, StopInv, RunStateInv, EofInv, ThreadAt, Pushing, ThreadHolds,
         InSystemCall, OwnerAt, OwnerHolds, Running, Stopping, Pausing,
         ownerVars, lockVars, pushVars, GoTo, CondSignal, Interrupt
<1>1. CASE LoopTop
  BY <1>1 DEF LoopTop
<1>2. CASE FindSeekRequest
  BY <1>2 DEF FindSeekRequest
<1>3. CASE PopSeekRequest
  BY <1>3 DEF PopSeekRequest
<1>4. CASE ComputeSpan
  BY <1>4 DEF ComputeSpan
<1>5. CASE ReadData
  BY <1>5 DEF ReadData
<1>6. CASE ReadNothing
  BY <1>6 DEF ReadNothing
<1>7. CASE ReadFails
  BY <1>7 DEF ReadFails
<1>8. CASE PollTimeout
  BY <1>8 DEF PollTimeout
<1>9. CASE PollReady
  BY <1>9 DEF PollReady
<1>10. CASE PollInterrupted
  BY <1>10 DEF PollInterrupted
<1>11. CASE EndOfFile
  <2>1. TypeOK'
    BY <1>11 DEF EndOfFile
  <2>2. MutexInv' /\ StopInv'
    BY <1>11 DEF EndOfFile
  <2>3. RunStateInv' /\ EofInv'
    BY <1>11 DEF EndOfFile
  <2>. QED BY <2>1, <2>2, <2>3
<1>12. CASE WriteLoop
  <2>1. TypeOK'
    BY <1>12 DEF WriteLoop, BlockDone
  <2>2. MutexInv' /\ StopInv'
    BY <1>12 DEF WriteLoop, BlockDone
  <2>3. RunStateInv' /\ EofInv'
    BY <1>12 DEF WriteLoop, BlockDone
  <2>. QED BY <2>1, <2>2, <2>3
<1>13. CASE EnterWrite
  BY <1>13 DEF EnterWrite
<1>14. CASE WriteInterrupted
  <2>1. TypeOK'
    BY <1>14 DEF WriteInterrupted, BlockDone
  <2>2. MutexInv' /\ StopInv'
    BY <1>14 DEF WriteInterrupted, BlockDone
  <2>3. RunStateInv' /\ EofInv'
    BY <1>14 DEF WriteInterrupted, BlockDone
  <2>. QED BY <2>1, <2>2, <2>3
<1>15. CASE SendStopped
  BY <1>15 DEF SendStopped
<1>16. CASE Acknowledge
  BY <1>16 DEF Acknowledge
<1>17. CASE TestPaused
  BY <1>17 DEF TestPaused
<1>18. CASE Sleep
  BY <1>18 DEF Sleep
<1>19. CASE Wake
  BY <1>19 DEF Wake
<1>20. CASE LeaveLockScope
  BY <1>20 DEF LeaveLockScope
<1>21. CASE RestartOrExit
  <2>1. TypeOK'
    BY <1>21 DEF RestartOrExit
  <2>2. MutexInv' /\ StopInv'
    BY <1>21 DEF RestartOrExit
  <2>3. RunStateInv' /\ EofInv'
    BY <1>21 DEF RestartOrExit
  <2>. QED BY <2>1, <2>2, <2>3
<1>22. CASE PauseRequest
  BY <1>22 DEF PauseRequest
<1>23. CASE PauseKick
  BY <1>23 DEF PauseKick
<1>24. CASE PauseWait
  BY <1>24 DEF PauseWait
<1>25. CASE PauseWake
  BY <1>25 DEF PauseWake
<1>26. CASE FlushDvr
  BY <1>26 DEF FlushDvr
<1>27. CASE Resume
  <2>1. TypeOK'
    BY <1>27 DEF Resume
  <2>2. MutexInv' /\ StopInv'
    BY <1>27 DEF Resume
  <2>3. RunStateInv' /\ EofInv'
    BY <1>27 DEF Resume
  <2>. QED BY <2>1, <2>2, <2>3
<1>28. CASE StopSignal
  <2>1. TypeOK'
    BY <1>28 DEF StopSignal
  <2>2. MutexInv' /\ StopInv'
    BY <1>28 DEF StopSignal
  <2>3. RunStateInv' /\ EofInv'
    BY <1>28 DEF StopSignal
  <2>. QED BY <2>1, <2>2, <2>3
<1>29. CASE Join
  BY <1>29 DEF Join
<1>30. CASE WriteData
  <2>1. TypeOK'
    BY <1>30 DEF WriteData, BlockDone
  <2>2. MutexInv' /\ StopInv'
    BY <1>30 DEF WriteData, BlockDone
  <2>3. RunStateInv' /\ EofInv'
    BY <1>30 DEF WriteData, BlockDone
  <2>. QED BY <2>1, <2>2, <2>3
<1>31. CASE WriteFails
  <2>1. TypeOK'
    BY <1>31 DEF WriteFails, BlockDone
  <2>2. MutexInv' /\ StopInv'
    BY <1>31 DEF WriteFails, BlockDone
  <2>3. RunStateInv' /\ EofInv'
    BY <1>31 DEF WriteFails, BlockDone
  <2>. QED BY <2>1, <2>2, <2>3
<1>32. CASE SpuriousWakeup
  BY <1>32 DEF SpuriousWakeup
<1>33. CASE Start
  BY <1>33 DEF Start
<1>34. CASE SeekTo
  BY <1>34 DEF SeekTo
<1>35. CASE StopRequest
  BY <1>35 DEF StopRequest
<1>36. CASE UNCHANGED vars
  BY <1>36 DEF vars
<1>. QED
  BY <1>1, <1>2, <1>3, <1>4, <1>5, <1>6, <1>7, <1>8, <1>9, <1>10, <1>11, <1>12, <1>13, <1>14, <1>15, <1>16, <1>17, <1>18, <1>19, <1>20, <1>21, <1>22, <1>23, <1>24, <1>25, <1>26, <1>27, <1>28, <1>29, <1>30, <1>31, <1>32, <1>33, <1>34, <1>35, <1>36
     DEF Next, ThreadStep, OwnerStep

LEMMA Protocol == Spec => []ProtocolInv
BY ProtocolInit, ProtocolStep, PTL DEF Spec

(* Every variable keeps its type, and while the owner flushes the DVR the  *)
(* thread is out of its inner loop, in every behaviour.                    *)
THEOREM PauseIsSafe == Spec => [](TypeOK /\ PausedIsQuiet)
<1>1. ProtocolInv => TypeOK /\ PausedIsQuiet
  BY DEF ProtocolInv, RunStateInv, PausedIsQuiet
<1>. QED BY <1>1, Protocol, PTL

-----------------------------------------------------------------------------
(* Data: no request is served that was not issued; a span, and a block on  *)
(* its way to the DVR, is newer than every flushed seek, because the flush *)
(* happens while the thread has neither; and so is what is in the DVR.     *)

Loaded == {"writing", "calling", "write"}

SeekInv ==
  /\ flushed <= issued
  /\ served <= issued
  /\ tpc = "pop" => served < issued

DataInv ==
  /\ tpc \in Pushing /\ haveSpan => spanSeek >= flushed
  /\ tpc \in Loaded => buffer >= flushed
  /\ tpc = "none" => ~haveSpan
  /\ \A d \in dvr : d >= flushed

LEMMA DataInit == Init => SeekInv /\ DataInv
BY DEF Init, SeekInv, DataInv, Pushing, InSystemCall, Loaded

LEMMA DataStep ==
  ProtocolInv /\ SeekInv /\ DataInv /\ [Next]_vars => SeekInv' /\ DataInv'
<1>. SUFFICES ASSUME ProtocolInv, SeekInv, DataInv, [Next]_vars
              PROVE  SeekInv' /\ DataInv'
  OBVIOUS
<1>t. /\ spanSeek \in Nat /\ buffer \in Nat /\ issued \in Nat
      /\ served \in Nat /\ flushed \in Nat /\ dvr \subseteq Nat
  BY DEF ProtocolInv, TypeOK
<1>b. BlockDone => /\ haveSpan' => haveSpan
                   /\ tpc' = "top" /\ spanSeek' = spanSeek /\ served' = served
  <2>. SUFFICES ASSUME BlockDone
                PROVE  /\ haveSpan' => haveSpan
                       /\ tpc' = "top" /\ spanSeek' = spanSeek /\ served' = served
    OBVIOUS
  <2>1. haveSpan' = haveSpan \/ haveSpan' = FALSE
    BY DEF BlockDone
  <2>2. haveSpan' => haveSpan
    BY <2>1
  <2>3. tpc' = "top" /\ spanSeek' = spanSeek /\ served' = served
    BY DEF BlockDone, GoTo
  <2>. QED BY <2>2, <2>3
<1>. USE <1>t DEF SeekInv, DataInv, Pushing, InSystemCall, Loaded,
                  ownerVars, lockVars, pushVars, GoTo
<1>1. CASE LoopTop
  BY <1>1 DEF LoopTop
<1>2. CASE FindSeekRequest
  BY <1>2 DEF FindSeekRequest
<1>3. CASE PopSeekRequest
  BY <1>3 DEF PopSeekRequest
<1>4. CASE ComputeSpan
  BY <1>4 DEF ComputeSpan
<1>5. CASE ReadData
  BY <1>5 DEF ReadData
<1>6. CASE ReadNothing
  BY <1>6 DEF ReadNothing
<1>7. CASE ReadFails
  BY <1>7 DEF ReadFails
<1>8. CASE PollTimeout
  BY <1>8 DEF PollTimeout
<1>9. CASE PollReady
  BY <1>9 DEF PollReady
<1>10. CASE PollInterrupted
  BY <1>10 DEF PollInterrupted
<1>11. CASE EndOfFile
  BY <1>11 DEF EndOfFile
<1>12. CASE WriteLoop
  BY <1>12, <1>b DEF WriteLoop
<1>13. CASE EnterWrite
  BY <1>13 DEF EnterWrite
<1>14. CASE WriteInterrupted
  BY <1>14, <1>b DEF WriteInterrupted
<1>15. CASE SendStopped
  BY <1>15 DEF SendStopped
<1>16. CASE Acknowledge
  BY <1>16 DEF Acknowledge
<1>17. CASE TestPaused
  BY <1>17 DEF TestPaused
<1>18. CASE Sleep
  BY <1>18 DEF Sleep
<1>19. CASE Wake
  BY <1>19 DEF Wake
<1>20. CASE LeaveLockScope
  BY <1>20 DEF LeaveLockScope
<1>21. CASE RestartOrExit
  BY <1>21 DEF RestartOrExit
<1>22. CASE PauseRequest
  BY <1>22 DEF PauseRequest
<1>23. CASE PauseKick
  BY <1>23 DEF PauseKick
<1>24. CASE PauseWait
  BY <1>24 DEF PauseWait
<1>25. CASE PauseWake
  BY <1>25 DEF PauseWake
<1>26. CASE FlushDvr
  <2>1. tpc \notin Pushing
    BY <1>26 DEF FlushDvr, ProtocolInv, RunStateInv
  <2>. QED BY <1>26, <2>1 DEF FlushDvr
<1>27. CASE Resume
  BY <1>27 DEF Resume
<1>28. CASE StopSignal
  BY <1>28 DEF StopSignal
<1>29. CASE Join
  BY <1>29 DEF Join
<1>30. CASE WriteData
  BY <1>30, <1>b DEF WriteData
<1>31. CASE WriteFails
  BY <1>31, <1>b DEF WriteFails
<1>32. CASE SpuriousWakeup
  BY <1>32 DEF SpuriousWakeup
<1>33. CASE Start
  BY <1>33 DEF Start, ProtocolInv, StopInv
<1>34. CASE SeekTo
  BY <1>34 DEF SeekTo
<1>35. CASE StopRequest
  BY <1>35 DEF StopRequest
<1>36. CASE UNCHANGED vars
  BY <1>36 DEF vars
<1>. QED
  BY <1>1, <1>2, <1>3, <1>4, <1>5, <1>6, <1>7, <1>8, <1>9, <1>10, <1>11, <1>12, <1>13, <1>14, <1>15, <1>16, <1>17, <1>18, <1>19, <1>20, <1>21, <1>22, <1>23, <1>24, <1>25, <1>26, <1>27, <1>28, <1>29, <1>30, <1>31, <1>32, <1>33, <1>34, <1>35, <1>36
     DEF Next, ThreadStep, OwnerStep

(* After a seek, whatever the interleaving, nothing read before it gets    *)
(* into the DVR once flushPVR() has emptied it.                            *)
THEOREM SeekIsClean == Spec => []SeekDropsOldData
<1>1. DataInv => SeekDropsOldData
  BY DEF DataInv, SeekDropsOldData
<1>. QED BY <1>1, DataInit, DataStep, Protocol, PTL DEF Spec
=============================================================================
