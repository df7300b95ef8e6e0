-------------------------- MODULE FileEraserProofs --------------------------
(***************************************************************************)
(* Proofs about FileEraser, for any set of files, any sizes and speeds.    *)
(* First the hand-over between the two threads: who has the semaphore, and *)
(* what m_alive and the_thread say of the thread.  Then the file that is   *)
(* being truncated, and the messages that are still to be handled.         *)
(***************************************************************************)
EXTENDS FileEraser, FiniteSetTheorems, TLAPS

(* As long as run() has not met a thread between m_alive and m_started:    *)
(* m_state is taken from sync()'s down() to the up() of whoever is next,   *)
(* sync() itself or the new thread, which the main thread waits for;       *)
(* m_alive may say that a thread is left when there is none, but does not  *)
(* deny one that runs; and a thread that runs has started.                 *)
Running == {"started", "loop", "timers", "poll", "recv", "stat", "test", "cut", "arm", "stop", "done"}

SemInv == ~raced =>
  /\ sem \in {0, 1}
  /\ mpc \in {"synced", "join", "create", "waited"} => sem = 0
  /\ tpc \in {"begin", "start"} => sem = 0 /\ mpc = "wait"
  /\ tpc \in Running \/ tpc = "cleared" => started
  /\ tpc # "again" /\ mpc # "fatal"
  /\ tpc = "start" => started
  /\ mpc = "join" => tpc = "none"
  /\ mpc \in {"join", "create"} => alive
  /\ ~alive => tpc \in {"none", "cleared"}

(* In any case the_thread denies no thread that runs, and a new one is     *)
(* not started before the old one has ended.                               *)
ThreadInv ==
  /\ thread # "created" => tpc \in {"none", "fatal"}
  /\ mpc \in {"create", "gone"} => tpc = "none"
  /\ tpc = "fatal" => mpc = "fatal"

(* While a file is truncated, todo is what it takes on the disk.           *)
FileInv ==
  /\ tpc \in {"stat", "test", "cut", "arm"} => work \in Files
  /\ tpc \in {"test", "cut"} => todo = size[work]

(* A name is sent once, the empty message once, and one round of do_recv() *)
(* never pops more than there was in the pump when it began.               *)
Sent == Cardinality(asked) + (IF mpc \in {"kill", "gone", "fatal"} THEN 1 ELSE 0)

ChanInv ==
  /\ open
  /\ Len(chan) <= Sent
  /\ count <= Len(chan)

(* TypeOK without the bound on count, which is ChanInv's.                  *)
Typed ==
  /\ Messages!ChanTypeOK
  /\ mpc \in {"idle", "send", "sync", "synced", "join", "create", "wait", "waited", "kill", "gone",
              "fatal"}
  /\ sem \in Nat /\ alive \in BOOLEAN /\ started \in BOOLEAN /\ raced \in BOOLEAN
  /\ thread \in {"none", "created", "stale"}
  /\ tpc \in {"none", "begin", "start", "started", "loop", "timers", "poll", "recv", "stat", "test",
              "cut", "arm", "stop", "done", "cleared", "again", "fatal"}
  /\ quit \in BOOLEAN /\ timer \in {"off", "on", "due"} /\ count \in Nat
  /\ work \in Files \cup {NoFile} /\ todo \in Int
  /\ flags \in BOOLEAN /\ speed \in Speeds
  /\ name \in [Files -> BOOLEAN] /\ size \in [Files -> Nat]
  /\ asked \subseteq Files /\ failures \in 0 .. MaxFailures

EraserInv == Typed /\ SemInv /\ ThreadInv /\ FileInv /\ ChanInv

-----------------------------------------------------------------------------
(* What is aligned on a speed is not more than it was, and not negative.   *)
LEMMA Aligned ==
  ASSUME NEW n \in Nat, NEW s \in Speeds
  PROVE  n - (n % s) \in Nat /\ n - (n % s) <= n
<1>1. s \in Nat /\ s > 0
  BY EraserAssumption
<1>2. n % s \in Nat /\ n % s < s
  BY <1>1
<1>3. CASE n < s
  <2>1. n % s = n
    BY <1>1, <1>3
  <2>. QED BY <2>1
<1>4. CASE s <= n
  BY <1>1, <1>2, <1>4
<1>. QED BY <1>1, <1>3, <1>4

(* The channel grows by one with a message sent, shrinks by one with a     *)
(* message received, and keeps its type.                                   *)
LEMMA SendOne ==
  ASSUME Messages!ChanTypeOK, NEW e \in Files \cup {Quit}, Messages!Send(e)
  PROVE  Messages!ChanTypeOK' /\ Len(chan') = Len(chan) + 1 /\ open' = open
BY DEF Messages!ChanTypeOK, Messages!Send

LEMMA ReceiveOne ==
  ASSUME Messages!ChanTypeOK, NEW e, Messages!Receive(e)
  PROVE  Messages!ChanTypeOK' /\ Len(chan') = Len(chan) - 1 /\ open' = open
BY DEF Messages!ChanTypeOK, Messages!Receive

(* A file that is renamed, cut or unlinked is still a file.                *)
LEMMA FileTypes ==
  ASSUME name \in [Files -> BOOLEAN], size \in [Files -> Nat], NEW n \in Nat,
         name' = name \/ name' = [name EXCEPT ![work] = FALSE],
         size' = size \/ size' = [size EXCEPT ![work] = n]
  PROVE  name' \in [Files -> BOOLEAN] /\ size' \in [Files -> Nat]
<1>1. [name EXCEPT ![work] = FALSE] \in [Files -> BOOLEAN]
  OBVIOUS
<1>2. [size EXCEPT ![work] = n] \in [Files -> Nat]
  OBVIOUS
<1>3. name' \in [Files -> BOOLEAN]
  BY <1>1
<1>4. size' \in [Files -> Nat]
  BY <1>2
<1>. QED BY <1>3, <1>4

LEMMA Bounds == MaxFailures \in Nat /\ Speeds \subseteq Nat /\ 0 \notin Speeds
BY EraserAssumption

-----------------------------------------------------------------------------
LEMMA EraserInit == Init => EraserInv
<1>. SUFFICES ASSUME Init PROVE EraserInv
  OBVIOUS
<1>. USE EraserAssumption DEF Init, Messages!ChanInit
<1>1. Typed
  <2>1. Messages!ChanTypeOK
    BY DEF Messages!ChanTypeOK
  <2>2. name \in [Files -> BOOLEAN] /\ size \in [Files -> Nat]
    OBVIOUS
  <2>3. speed \in Speeds /\ failures \in 0 .. MaxFailures
    OBVIOUS
  <2>4. count \in Nat /\ todo \in Int /\ asked \subseteq Files /\ work \in Files \cup {NoFile}
    OBVIOUS
  <2>. QED BY <2>1, <2>2, <2>3, <2>4 DEF Typed
<1>2. SemInv /\ ThreadInv /\ FileInv
  BY DEF Running, SemInv, ThreadInv, FileInv
<1>3. ChanInv
  BY FS_EmptySet DEF ChanInv, Sent
<1>. QED BY <1>1, <1>2, <1>3 DEF EraserInv

LEMMA TypedStep == EraserInv /\ [Next]_vars => Typed'
<1>. SUFFICES ASSUME Typed, SemInv, FileInv, [Next]_vars PROVE Typed'
  BY DEF EraserInv
<1>c. UNCHANGED <<chan, open>> => (Messages!ChanTypeOK => Messages!ChanTypeOK')
  BY DEF Messages!ChanTypeOK
<1>. USE <1>c, Bounds DEF Typed, FileInv, shared, loop, file, bounds, Main, ThreadKeeps, At, MainKeeps, Quiet, FileStep
<1>1. CASE SyncDown
  BY <1>1 DEF SyncDown, SemDown
<1>2. CASE SyncAgain
  BY <1>2 DEF SyncAgain, SemDown
<1>3. CASE Start
  <2>1. sem' \in Nat /\ mpc' \in {"idle", "join"}
    BY <1>3 DEF Start
  <2>2. alive' \in BOOLEAN /\ started' \in BOOLEAN /\ raced' \in BOOLEAN
    BY <1>3 DEF Start
  <2>. QED BY <1>3, <2>1, <2>2 DEF Start
<1>4. CASE JoinOld
  BY <1>4 DEF JoinOld
<1>5. CASE Create
  BY <1>5 DEF Create
<1>6. CASE SyncUp
  BY <1>6 DEF SyncUp
<1>7. CASE Kill
  BY <1>7 DEF Kill
<1>8. CASE HasStarted
  BY <1>8 DEF HasStarted
<1>9. CASE Reset
  <2>1. tpc' = "loop" /\ quit' = FALSE /\ UNCHANGED <<timer, count>> /\ Quiet
    BY <1>9 DEF Reset
  <2>2. UNCHANGED <<chan, open, mpc, sem, alive, started, raced, thread, work, todo, flags, speed, name, size,
                    asked, failures>>
    BY <2>1
  <2>. QED BY <2>1, <2>2
<1>10. CASE LoopTop
  BY <1>10 DEF LoopTop
<1>11. CASE Timers
  BY <1>11 DEF Timers
<1>12. CASE PollReturns
  BY <1>12 DEF PollReturns
<1>13. CASE ReadEventfd
  <2>1. Len(chan) \in Nat
    BY DEF Messages!ChanTypeOK
  <2>. QED BY <1>13, <2>1 DEF ReadEventfd
<1>14. CASE GotQuit
  <2>1. Messages!ChanTypeOK'
    BY <1>14, ReceiveOne DEF GotQuit
  <2>. QED BY <1>14, <2>1 DEF GotQuit
<1>15. CASE Received
  BY <1>15 DEF Received
<1>16. CASE Unlink
  <2>1. (name' = name \/ name' = [name EXCEPT ![work] = FALSE])
        /\ (size' = size \/ size' = [size EXCEPT ![work] = 0])
    BY <1>16 DEF Unlink
  <2>2. name' \in [Files -> BOOLEAN] /\ size' \in [Files -> Nat]
    BY <2>1, FileTypes
  <2>. QED BY <1>16, <2>2 DEF Unlink
<1>17. CASE Open
  <2>1. PICK s \in Speeds : todo' = size[work] - (size[work] % s)
    BY <1>17 DEF Open
  <2>2. todo' \in Nat
    BY <1>17, <2>1, Aligned DEF Open
  <2>3. name' \in [Files -> BOOLEAN] /\ size' \in [Files -> Nat]
    BY <1>17, <2>2 DEF Open
  <2>. QED BY <1>17, <2>2, <2>3 DEF Open
<1>18. CASE Cut
  BY <1>18 DEF Cut
<1>19. CASE Truncate
  <2>1. todo - speed \in Int /\ work \in Files
    BY <1>19 DEF Truncate
  <2>2. (name' = name \/ name' = [name EXCEPT ![work] = FALSE])
        /\ (size' = [size EXCEPT ![work] = 0] \/ (todo' \in Nat /\ size' = [size EXCEPT ![work] = todo']))
    BY <1>19, <2>1 DEF Truncate
  <2>3. name' \in [Files -> BOOLEAN] /\ size' \in [Files -> Nat]
    BY <2>2, FileTypes
  <2>. QED BY <1>19, <2>1, <2>3 DEF Truncate
<1>20. CASE Closed
  <2>1. (name' = name \/ name' = [name EXCEPT ![work] = FALSE])
        /\ (size' = size \/ size' = [size EXCEPT ![work] = 0])
    BY <1>20 DEF Closed
  <2>2. name' \in [Files -> BOOLEAN] /\ size' \in [Files -> Nat]
    BY <2>1, FileTypes
  <2>. QED BY <1>20, <2>2 DEF Closed
<1>21. CASE ArmTimer
  BY <1>21 DEF ArmTimer
<1>22. CASE StopTimer
  BY <1>22 DEF StopTimer
<1>23. CASE Completed
  <2>1. tpc' = "cleared" /\ alive' = FALSE
        /\ UNCHANGED <<chan, open, sem, started, loop, file>> /\ MainKeeps
    BY <1>23 DEF Completed
  <2>2. UNCHANGED <<chan, open, mpc, sem, started, raced, thread, quit, timer, count, work, todo, flags, speed,
                    name, size, asked, failures>>
    BY <2>1
  <2>. QED BY <2>1, <2>2
<1>24. ASSUME NEW f \in Files, GotFile(f) PROVE Typed'
  BY <1>24, ReceiveOne DEF GotFile
<1>25. ASSUME NEW f \in Files, Erase(f) PROVE Typed'
  BY <1>25, SendOne DEF Erase
<1>26. CASE SetErase
  BY <1>26 DEF SetErase
<1>27. CASE Destroy
  <2>1. Messages!ChanTypeOK' /\ mpc' = "kill" /\ flags' = FALSE
        /\ UNCHANGED <<shared, speed, bounds>> /\ ThreadKeeps
    BY <1>27, SendOne DEF Destroy
  <2>2. UNCHANGED <<sem, alive, started, raced, thread, tpc, quit, timer, count, work, todo, speed, name, size,
                    failures>> /\ asked' = asked
    BY <2>1
  <2>3. name' \in [Files -> BOOLEAN] /\ size' \in [Files -> Nat] /\ asked' \subseteq Files
    BY <2>2
  <2>4. quit' \in BOOLEAN /\ timer' \in {"off", "on", "due"} /\ count' \in Nat /\ speed' \in Speeds
        /\ work' \in Files \cup {NoFile} /\ todo' \in Int /\ failures' \in 0 .. MaxFailures
    BY <2>2
  <2>. QED BY <2>1, <2>2, <2>3, <2>4
<1>28. CASE CreateFails
  <2>1. failures' \in 0 .. MaxFailures /\ alive' = FALSE /\ mpc' = "idle" /\ thread' \in {"none", "stale"}
    BY <1>28 DEF CreateFails
  <2>2. UNCHANGED <<chan, open, sem, started, raced, flags, speed, asked>> /\ ThreadKeeps
    BY <1>28 DEF CreateFails
  <2>3. UNCHANGED <<tpc, quit, timer, count, work, todo, name, size>>
    BY <2>2
  <2>. QED BY <2>1, <2>2, <2>3
<1>29. CASE Expire
  BY <1>29 DEF Expire
<1>30. CASE SyncFatal
  BY <1>30 DEF SyncFatal, Fatal
<1>31. CASE StartFatal
  BY <1>31 DEF StartFatal, Fatal
<1>32. CASE Up
  BY <1>32 DEF Up
<1>33. CASE Finish
  BY <1>33 DEF Finish
<1>34. CASE UNCHANGED vars
  BY <1>34 DEF vars
<1>. QED
  BY <1>1, <1>2, <1>3, <1>4, <1>5, <1>6, <1>7, <1>8, <1>9, <1>10, <1>11, <1>12, <1>13, <1>14, <1>15,
     <1>16, <1>17, <1>18, <1>19, <1>20, <1>21, <1>22, <1>23, <1>24, <1>25, <1>26, <1>27, <1>28, <1>29, <1>30,
     <1>31, <1>32, <1>33, <1>34
     DEF Next, MainStep, ThreadStep, User

LEMMA HandOverStep == EraserInv /\ [Next]_vars => SemInv' /\ ThreadInv'
<1>. SUFFICES ASSUME Typed, SemInv, ThreadInv, [Next]_vars PROVE SemInv' /\ ThreadInv'
  BY DEF EraserInv
<1>. USE DEF Running, Typed, SemInv, ThreadInv, Joinable, shared, loop, file, bounds, Main, ThreadKeeps, At, MainKeeps, Quiet, FileStep
<1>1. CASE SyncDown
  BY <1>1 DEF SyncDown, SemDown
<1>2. CASE SyncAgain
  BY <1>2 DEF SyncAgain, SemDown
<1>3. CASE Start
  BY <1>3 DEF Start
<1>4. CASE JoinOld
  BY <1>4 DEF JoinOld
<1>5. CASE Create
  BY <1>5 DEF Create
<1>6. CASE SyncUp
  BY <1>6 DEF SyncUp
<1>7. CASE Kill
  BY <1>7 DEF Kill
<1>8. CASE HasStarted
  BY <1>8 DEF HasStarted
<1>9. CASE Reset
  BY <1>9 DEF Reset
<1>10. CASE LoopTop
  BY <1>10 DEF LoopTop
<1>11. CASE Timers
  BY <1>11 DEF Timers
<1>12. CASE PollReturns
  BY <1>12 DEF PollReturns
<1>13. CASE ReadEventfd
  BY <1>13 DEF ReadEventfd
<1>14. CASE GotQuit
  BY <1>14 DEF GotQuit
<1>15. CASE Received
  BY <1>15 DEF Received
<1>16. CASE Unlink
  BY <1>16 DEF Unlink
<1>17. CASE Open
  BY <1>17 DEF Open
<1>18. CASE Cut
  BY <1>18 DEF Cut
<1>19. CASE Truncate
  BY <1>19 DEF Truncate
<1>20. CASE Closed
  BY <1>20 DEF Closed
<1>21. CASE ArmTimer
  BY <1>21 DEF ArmTimer
<1>22. CASE StopTimer
  BY <1>22 DEF StopTimer
<1>23. CASE Completed
  BY <1>23 DEF Completed
<1>24. ASSUME NEW f \in Files, GotFile(f) PROVE SemInv' /\ ThreadInv'
  BY <1>24 DEF GotFile
<1>25. ASSUME NEW f \in Files, Erase(f) PROVE SemInv' /\ ThreadInv'
  BY <1>25 DEF Erase
<1>26. CASE SetErase
  BY <1>26 DEF SetErase
<1>27. CASE Destroy
  BY <1>27 DEF Destroy
<1>28. CASE CreateFails
  BY <1>28 DEF CreateFails
<1>29. CASE Expire
  BY <1>29 DEF Expire
<1>30. CASE SyncFatal
  BY <1>30 DEF SyncFatal, Fatal
<1>31. CASE StartFatal
  BY <1>31 DEF StartFatal, Fatal
<1>32. CASE Up
  BY <1>32 DEF Up
<1>33. CASE Finish
  BY <1>33 DEF Finish
<1>34. CASE UNCHANGED vars
  BY <1>34 DEF vars
<1>. QED
  BY <1>1, <1>2, <1>3, <1>4, <1>5, <1>6, <1>7, <1>8, <1>9, <1>10, <1>11, <1>12, <1>13, <1>14, <1>15,
     <1>16, <1>17, <1>18, <1>19, <1>20, <1>21, <1>22, <1>23, <1>24, <1>25, <1>26, <1>27, <1>28, <1>29, <1>30,
     <1>31, <1>32, <1>33, <1>34
     DEF Next, MainStep, ThreadStep, User

LEMMA ErasedStep == EraserInv /\ [Next]_vars => FileInv' /\ \A f \in Files : size'[f] <= size[f]
<1>. SUFFICES ASSUME Typed, FileInv, ThreadInv, [Next]_vars
              PROVE  FileInv' /\ \A f \in Files : size'[f] <= size[f]
  BY DEF EraserInv
<1>. USE DEF Typed, FileInv, ThreadInv, shared, loop, file, bounds, Main, ThreadKeeps, At, MainKeeps, Quiet, FileStep
<1>1. CASE SyncDown
  BY <1>1 DEF SyncDown, SemDown
<1>2. CASE SyncAgain
  BY <1>2 DEF SyncAgain, SemDown
<1>3. CASE Start
  BY <1>3 DEF Start
<1>4. CASE JoinOld
  BY <1>4 DEF JoinOld
<1>5. CASE Create
  BY <1>5 DEF Create
<1>6. CASE SyncUp
  BY <1>6 DEF SyncUp
<1>7. CASE Kill
  BY <1>7 DEF Kill
<1>8. CASE HasStarted
  BY <1>8 DEF HasStarted
<1>9. CASE Reset
  BY <1>9 DEF Reset
<1>10. CASE LoopTop
  BY <1>10 DEF LoopTop
<1>11. CASE Timers
  BY <1>11 DEF Timers
<1>12. CASE PollReturns
  BY <1>12 DEF PollReturns
<1>13. CASE ReadEventfd
  BY <1>13 DEF ReadEventfd
<1>14. CASE GotQuit
  BY <1>14 DEF GotQuit
<1>15. CASE Received
  BY <1>15 DEF Received
<1>16. CASE Unlink
  BY <1>16 DEF Unlink
<1>17. CASE Open
  <2>1. PICK s \in Speeds : todo' = size[work] - (size[work] % s)
    BY <1>17 DEF Open
  <2>2. todo' \in Nat /\ todo' <= size[work]
    BY <1>17, <2>1, Aligned DEF Open
  <2>. QED BY <1>17, <2>2 DEF Open
<1>18. CASE Cut
  BY <1>18 DEF Cut
<1>19. CASE Truncate
  <2>1. todo' <= size[work] /\ work \in Files
    BY <1>19, EraserAssumption DEF Truncate
  <2>. QED BY <1>19, <2>1 DEF Truncate
<1>20. CASE Closed
  BY <1>20 DEF Closed
<1>21. CASE ArmTimer
  BY <1>21 DEF ArmTimer
<1>22. CASE StopTimer
  BY <1>22 DEF StopTimer
<1>23. CASE Completed
  BY <1>23 DEF Completed
<1>24. ASSUME NEW f \in Files, GotFile(f) PROVE FileInv' /\ \A g \in Files : size'[g] <= size[g]
  BY <1>24 DEF GotFile
<1>25. ASSUME NEW f \in Files, Erase(f) PROVE FileInv' /\ \A g \in Files : size'[g] <= size[g]
  BY <1>25 DEF Erase
<1>26. CASE SetErase
  BY <1>26 DEF SetErase
<1>27. CASE Destroy
  BY <1>27 DEF Destroy
<1>28. CASE CreateFails
  BY <1>28 DEF CreateFails
<1>29. CASE Expire
  BY <1>29 DEF Expire
<1>30. CASE SyncFatal
  BY <1>30 DEF SyncFatal, Fatal
<1>31. CASE StartFatal
  BY <1>31 DEF StartFatal, Fatal
<1>32. CASE Up
  BY <1>32 DEF Up
<1>33. CASE Finish
  BY <1>33 DEF Finish
<1>34. CASE UNCHANGED vars
  BY <1>34 DEF vars
<1>. QED
  BY <1>1, <1>2, <1>3, <1>4, <1>5, <1>6, <1>7, <1>8, <1>9, <1>10, <1>11, <1>12, <1>13, <1>14, <1>15,
     <1>16, <1>17, <1>18, <1>19, <1>20, <1>21, <1>22, <1>23, <1>24, <1>25, <1>26, <1>27, <1>28, <1>29, <1>30,
     <1>31, <1>32, <1>33, <1>34
     DEF Next, MainStep, ThreadStep, User

LEMMA ChanStep == EraserInv /\ [Next]_vars => ChanInv'
<1>. SUFFICES ASSUME Typed, ChanInv, [Next]_vars PROVE ChanInv'
  BY DEF EraserInv
<1>c. Messages!ChanTypeOK /\ Len(chan) \in Nat /\ Cardinality(asked) \in Nat /\ IsFiniteSet(asked)
  BY EraserAssumption, FS_Subset, FS_CardinalityType DEF Typed, Messages!ChanTypeOK
<1>t. count \in Nat
  BY DEF Typed
<1>. USE <1>c, <1>t DEF ChanInv, Sent, shared, loop, file, bounds, Main, ThreadKeeps, At, MainKeeps, Quiet, FileStep
<1>1. CASE SyncDown
  BY <1>1 DEF SyncDown, SemDown
<1>2. CASE SyncAgain
  BY <1>2 DEF SyncAgain, SemDown
<1>3. CASE Start
  BY <1>3 DEF Start
<1>4. CASE JoinOld
  BY <1>4 DEF JoinOld
<1>5. CASE Create
  BY <1>5 DEF Create
<1>6. CASE SyncUp
  BY <1>6 DEF SyncUp
<1>7. CASE Kill
  BY <1>7 DEF Kill
<1>8. CASE HasStarted
  BY <1>8 DEF HasStarted
<1>9. CASE Reset
  BY <1>9 DEF Reset
<1>10. CASE LoopTop
  BY <1>10 DEF LoopTop
<1>11. CASE Timers
  BY <1>11 DEF Timers
<1>12. CASE PollReturns
  BY <1>12 DEF PollReturns
<1>13. CASE ReadEventfd
  BY <1>13 DEF ReadEventfd
<1>14. CASE GotQuit
  <2>1. Len(chan') = Len(chan) - 1 /\ open'
    BY <1>14, ReceiveOne DEF GotQuit
  <2>. QED BY <1>14, <2>1 DEF GotQuit
<1>15. CASE Received
  BY <1>15 DEF Received
<1>16. CASE Unlink
  BY <1>16 DEF Unlink
<1>17. CASE Open
  BY <1>17 DEF Open
<1>18. CASE Cut
  BY <1>18 DEF Cut
<1>19. CASE Truncate
  BY <1>19 DEF Truncate
<1>20. CASE Closed
  BY <1>20 DEF Closed
<1>21. CASE ArmTimer
  BY <1>21 DEF ArmTimer
<1>22. CASE StopTimer
  BY <1>22 DEF StopTimer
<1>23. CASE Completed
  BY <1>23 DEF Completed
<1>24. ASSUME NEW f \in Files, GotFile(f) PROVE ChanInv'
  <2>1. Len(chan') = Len(chan) - 1 /\ open'
    BY <1>24, ReceiveOne DEF GotFile
  <2>. QED BY <1>24, <2>1 DEF GotFile
<1>25. ASSUME NEW f \in Files, Erase(f) PROVE ChanInv'
  <2>1. Cardinality(asked') = Cardinality(asked) + 1
    BY <1>25, FS_AddElement DEF Erase
  <2>2. Len(chan') = Len(chan) + 1 /\ open'
    BY <1>25, SendOne DEF Erase
  <2>. QED BY <1>25, <2>1, <2>2 DEF Erase
<1>26. CASE SetErase
  BY <1>26 DEF SetErase
<1>27. CASE Destroy
  <2>1. Len(chan') = Len(chan) + 1 /\ open'
    BY <1>27, SendOne DEF Destroy
  <2>. QED BY <1>27, <2>1 DEF Destroy
<1>28. CASE CreateFails
  BY <1>28 DEF CreateFails
<1>29. CASE Expire
  BY <1>29 DEF Expire
<1>30. CASE SyncFatal
  BY <1>30 DEF SyncFatal, Fatal
<1>31. CASE StartFatal
  BY <1>31 DEF StartFatal, Fatal
<1>32. CASE Up
  BY <1>32 DEF Up
<1>33. CASE Finish
  BY <1>33 DEF Finish
<1>34. CASE UNCHANGED vars
  BY <1>34 DEF vars
<1>. QED
  BY <1>1, <1>2, <1>3, <1>4, <1>5, <1>6, <1>7, <1>8, <1>9, <1>10, <1>11, <1>12, <1>13, <1>14, <1>15,
     <1>16, <1>17, <1>18, <1>19, <1>20, <1>21, <1>22, <1>23, <1>24, <1>25, <1>26, <1>27, <1>28, <1>29, <1>30,
     <1>31, <1>32, <1>33, <1>34
     DEF Next, MainStep, ThreadStep, User

LEMMA EraserInvariant == Spec => []EraserInv
<1>1. EraserInv /\ [Next]_vars => EraserInv'
  BY TypedStep, HandOverStep, ErasedStep, ChanStep DEF EraserInv
<1>. QED BY <1>1, EraserInit, PTL DEF Spec

-----------------------------------------------------------------------------
(* Every variable keeps its type; in particular do_recv() is never told of *)
(* more messages than names were sent, and one for the destructor's.       *)
THEOREM EraserTypes == Spec => []TypeOK
<1>1. EraserInv => TypeOK
  <2>. SUFFICES ASSUME EraserInv PROVE TypeOK
    OBVIOUS
  <2>1. Cardinality(asked) <= Cardinality(Files) /\ Cardinality(Files) \in Nat
        /\ Cardinality(asked) \in Nat
    BY EraserAssumption, FS_Subset, FS_CardinalityType DEF EraserInv, Typed
  <2>2. Len(chan) \in Nat
    BY DEF EraserInv, Typed, Messages!ChanTypeOK
  <2>3. count \in 0 .. Cardinality(Files) + 1
    BY <2>1, <2>2 DEF EraserInv, ChanInv, Sent, Typed
  <2>. QED BY <2>3 DEF EraserInv, Typed, TypeOK
<1>. QED BY <1>1, EraserInvariant, PTL

(* The ASSERTs of thread.cpp and the eFatal() of sync() hold in every      *)
(* interleaving of erase() with the thread, but for those that go through  *)
(* the one hand-over of thread_completed(), from m_alive to m_started; and *)
(* in all of them the destructor leaves no thread behind.                  *)
THEOREM ThreadHandOver == Spec => [](FatalOnlyRaced /\ NoThreadLeft)
<1>1. EraserInv => FatalOnlyRaced /\ NoThreadLeft
  BY DEF EraserInv, SemInv, ThreadInv, FatalOnlyRaced, NoThreadLeft
<1>. QED BY <1>1, EraserInvariant, PTL

(* No step makes a file larger, whatever erase_speed is set to while the   *)
(* thread cuts its file down.                                              *)
THEOREM TruncatingShrinks == Spec => NeverGrows
<1>1. EraserInv /\ [Next]_vars => [\A f \in Files : size'[f] <= size[f]]_vars
  BY ErasedStep
<1>. QED BY <1>1, EraserInvariant, PTL DEF Spec, NeverGrows

(* The pump is used within its contract: what the eraser does to its       *)
(* messages are steps of EventChannel, and nobody drops the channel while  *)
(* something is in it.                                                     *)
THEOREM UsesTheChannel == Spec => Messages!ChanSpec
<1>1. Init => Messages!ChanInit
  BY DEF Init
<1>2. [Next]_vars => [Messages!ChanNext]_(Messages!chanVars)
  <2>. SUFFICES ASSUME [Next]_vars PROVE [Messages!ChanNext]_(Messages!chanVars)
    OBVIOUS
  <2>1. CASE \E f \in Files : Erase(f)
    BY <2>1 DEF Erase, Messages!ChanNext
  <2>2. CASE Destroy
    BY <2>2 DEF Destroy, Messages!ChanNext
  <2>3. CASE GotQuit
    BY <2>3 DEF GotQuit, Messages!ChanNext
  <2>4. CASE \E f \in Files : GotFile(f)
    BY <2>4 DEF GotFile, Messages!ChanNext
  <2>5. CASE UNCHANGED <<chan, open>>
    BY <2>5 DEF Messages!chanVars
  <2>6. MainStep => UNCHANGED <<chan, open>>
    BY DEF MainStep, SyncDown, SyncAgain, SemDown, SyncFatal, Fatal, Start, JoinOld, Create, SyncUp, Kill
  <2>7. Reset \/ HasStarted \/ LoopTop \/ Timers \/ PollReturns \/ ReadEventfd \/ Received \/ Unlink
        \/ Open \/ Cut \/ Truncate \/ Closed \/ ArmTimer \/ StopTimer \/ Completed \/ Expire
        \/ StartFatal \/ Up \/ Finish
        => UNCHANGED <<chan, open>>
    BY DEF HasStarted, Reset, LoopTop, Timers, PollReturns, ReadEventfd, Received, Unlink, Open,
           Cut, Truncate, Closed, ArmTimer, StopTimer, Completed, Expire, StartFatal, Fatal, Up, Finish, Quiet, FileStep
  <2>8. SetErase \/ CreateFails \/ UNCHANGED vars => UNCHANGED <<chan, open>>
    BY DEF SetErase, CreateFails, vars
  <2>. QED BY <2>1, <2>2, <2>3, <2>4, <2>5, <2>6, <2>7, <2>8 DEF Next, ThreadStep, User
<1>. QED BY <1>1, <1>2, PTL DEF Spec, Messages!ChanSpec
=============================================================================
