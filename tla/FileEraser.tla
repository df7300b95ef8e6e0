----------------------------- MODULE FileEraser -----------------------------
(* eBackgroundFileEraser (lib/components/file_eraser.cpp) on eThread       *)
(* (lib/base/thread.cpp).  erase() renames a file, sends its name through  *)
(* the message pump and sees to it that the eraser thread runs; the thread *)
(* handles the messages in a loop of its own and leaves it when it has had *)
(* nothing to do for a second.  The two meet in eThread: m_state, a        *)
(* semaphore that run() takes and hasStarted() gives back, and m_alive,    *)
(* which the thread clears before it looks at m_started for the last time. *)
(* A thread that finds it clear gives m_state back once more, which can be *)
(* once too often: then an ASSERT or eFatal() ends the program.            *)
(* The pump is EventChannel; the main thread is its only sender.           *)
EXTENDS Integers, Sequences, FiniteSets

CONSTANTS
  Files, NoFile,
  Quit,        \* the empty message of the destructor
  Sizes,       \* bound: what a file may take on the disk
  Speeds,      \* the values of erase_speed; sizes are in the same unit
  MaxFailures  \* bound: threads that cannot be created

ASSUME EraserAssumption ==
  /\ Quit \notin Files /\ NoFile \notin Files \cup {Quit} /\ IsFiniteSet(Files)
  /\ Sizes \subseteq Nat /\ MaxFailures \in Nat
  /\ Speeds \subseteq Nat \ {0} /\ Speeds # {}     \* UsageConfig.py offers no 0

VARIABLES
  chan, open,   \* `messages': sent and not yet handled
  mpc,          \* where the main thread is
  sem, alive, started,   \* m_state, m_alive, m_started
  thread,       \* the_thread: "none", "created", or what a failed create left, "stale"
  tpc,          \* where the eraser thread is
  quit,         \* app_quit_now
  timer,        \* stop_thread_timer: "off", "on" or "due"
  count,        \* do_recv(): messages still to pop
  work, todo,   \* the file being erased, and st.st_size
  flags, speed, \* erase_flags # 0 (a bit of it may hold for the file or not) and erase_speed
  name,         \* of each file: is there still a name for it?
  size,         \* of each file: what it takes on the disk
  asked,        \* the files erase() has been called for: a name comes once
  failures,
  raced         \* history: run() found the last thread between m_alive and m_started

shared == <<sem, alive, started, thread, raced>>
loop == <<quit, timer, count>>
file == <<work, todo, name, size>>
bounds == <<asked, failures>>
vars == <<chan, open, mpc, shared, tpc, loop, file, flags, speed, bounds>>

Messages == INSTANCE EventChannel WITH Event <- Files \cup {Quit}

TypeOK ==
  /\ Messages!ChanTypeOK
  /\ mpc \in {"idle", "send", "sync", "synced", "join", "create", "wait", "waited", "kill", "gone",
              "fatal"}
  /\ sem \in Nat /\ alive \in BOOLEAN /\ started \in BOOLEAN /\ raced \in BOOLEAN
  /\ thread \in {"none", "created", "stale"}
  /\ tpc \in {"none", "begin", "start", "started", "loop", "timers", "poll", "recv", "stat", "test",
              "cut", "arm", "stop", "done", "cleared", "again", "fatal"}
  /\ quit \in BOOLEAN /\ timer \in {"off", "on", "due"} /\ count \in 0 .. Cardinality(Files) + 1
  /\ work \in Files \cup {NoFile} /\ todo \in Int
  /\ flags \in BOOLEAN /\ speed \in Speeds
  /\ name \in [Files -> BOOLEAN] /\ size \in [Files -> Nat]
  /\ asked \subseteq Files /\ failures \in 0 .. MaxFailures

Init ==
  /\ Messages!ChanInit
  /\ mpc = "idle" /\ sem = 1 /\ alive = FALSE /\ started = FALSE /\ raced = FALSE /\ thread = "none" /\ tpc = "none"
  /\ quit = FALSE /\ timer = "off" /\ count = 0
  /\ work = NoFile /\ todo = 0 /\ flags = TRUE /\ speed \in Speeds
  /\ name = [f \in Files |-> TRUE] /\ size \in [Files -> Sizes]
  /\ asked = {} /\ failures = 0

-----------------------------------------------------------------------------
(* The main thread.  A step ends where the other thread could come between. *)

Main(from, to) == mpc = from /\ mpc' = to
ThreadKeeps == UNCHANGED <<tpc, loop, file>>

(* eFatal(): the program is aborted. *)
Fatal ==
  /\ mpc' = "fatal" /\ tpc' = "fatal"
  /\ UNCHANGED <<chan, open, shared, loop, file, flags, speed, bounds>>

(* erase(): the rename fails with ENOENT when there is no such file; when  *)
(* it fails otherwise the file is erased under its old name.               *)
Erase(f) ==
  /\ f \notin asked /\ asked' = asked \cup {f}
  /\ Main("idle", "sync") /\ Messages!Send(f)
  /\ ThreadKeeps /\ UNCHANGED <<shared, flags, speed, failures>>

SetErase ==
  /\ mpc = "idle"
  /\ flags' \in BOOLEAN /\ speed' \in Speeds
  /\ UNCHANGED <<chan, open, mpc, shared, bounds>> /\ ThreadKeeps

(* sync(): down() blocks until the thread has started. *)
SemDown(from, to) ==
  /\ sem > 0 /\ sem' = sem - 1 /\ Main(from, to)
  /\ UNCHANGED <<chan, open, alive, started, raced, thread, flags, speed, bounds>> /\ ThreadKeeps

SyncDown == SemDown("sync", "synced")
SyncAgain == SemDown("wait", "waited")

(* ... and then nobody else may have m_state. *)
SyncFatal == mpc \in {"synced", "waited"} /\ sem # 0 /\ Fatal

(* Seeded fault: the thread is started again whatever sync() said. *)
StartAnyhow ==
  /\ sem = 0 /\ Main("synced", "join") /\ alive' = TRUE /\ started' = FALSE
  /\ UNCHANGED <<chan, open, sem, raced, thread, flags, speed, bounds>> /\ ThreadKeeps

(* The rest of sync(), and of runAsync() up to the join: m_alive is read,  *)
(* m_state given back and, if the thread is not alive, taken again at once. *)
Start ==
  /\ sem = 0
  /\ \/ /\ alive /\ Main("synced", "idle") /\ sem' = sem + 1
        /\ UNCHANGED <<alive, started, raced>>
     \/ /\ ~alive /\ Main("synced", "join") /\ alive' = TRUE /\ started' = FALSE
        /\ raced' = (raced \/ tpc = "cleared") /\ UNCHANGED sem
  /\ UNCHANGED <<chan, open, thread, flags, speed, bounds>> /\ ThreadKeeps

(* pthread_join(): a stale handle is no thread, the call returns an error. *)
Joinable == thread = "created" => tpc = "none"

JoinOld ==
  /\ Main("join", "create") /\ Joinable /\ thread' = "none"
  /\ UNCHANGED <<chan, open, sem, alive, started, raced, flags, speed, bounds>> /\ ThreadKeeps

Create ==
  /\ Main("create", "wait")
  /\ thread' = "created" /\ tpc' = "begin"
  /\ UNCHANGED <<chan, open, loop, file, sem, alive, started, raced, flags, speed, bounds>>

(* pthread_create() fails: what it leaves in the_thread is undefined.      *)
(* m_state stays taken.                                                    *)
CreateFails ==
  /\ Main("create", "idle") /\ failures < MaxFailures
  /\ failures' = failures + 1 /\ alive' = FALSE /\ thread' \in {"none", "stale"}
  /\ UNCHANGED <<chan, open, sem, started, raced, flags, speed, asked>> /\ ThreadKeeps

SyncUp ==
  /\ sem = 0 /\ Main("waited", "idle") /\ sem' = sem + 1
  /\ UNCHANGED <<chan, open, alive, started, raced, thread, flags, speed, bounds>> /\ ThreadKeeps

(* Seeded fault: the destructor trusts in the idle timer. *)
DestroySilently ==
  /\ Main("idle", "kill") /\ flags' = FALSE
  /\ UNCHANGED <<chan, open, shared, speed, bounds>> /\ ThreadKeeps

(* The destructor: no more truncating, the empty message, kill(). *)
Destroy ==
  /\ Main("idle", "kill") /\ Messages!Send(Quit) /\ flags' = FALSE
  /\ UNCHANGED <<shared, speed, bounds>> /\ ThreadKeeps

Kill ==
  /\ Main("kill", "gone") /\ Joinable /\ thread' = "none"
  /\ UNCHANGED <<chan, open, sem, alive, started, raced, flags, speed, bounds>> /\ ThreadKeeps

-----------------------------------------------------------------------------
(* The eraser thread. *)

At(from, to) == tpc = from /\ tpc' = to
MainKeeps == UNCHANGED <<mpc, thread, raced, flags, speed, bounds>>
Quiet == UNCHANGED <<chan, open, sem, alive, started, file>> /\ MainKeeps

(* hasStarted(), of a new thread or of one that thread_completed() finds   *)
(* not started: nobody else may have given m_state back.                   *)
StartFatal == (tpc = "begin" \/ (~started /\ tpc = "cleared")) /\ sem # 0 /\ Fatal

HasStarted ==
  /\ sem = 0 /\ started' = TRUE
  /\ At("begin", "start") \/ (~started /\ At("cleared", "again"))
  /\ UNCHANGED <<chan, open, sem, alive, loop, file>> /\ MainKeeps

Up ==
  /\ At("start", "started") \/ At("again", "none")
  /\ sem' = sem + 1
  /\ UNCHANGED <<chan, open, alive, started, loop, file>> /\ MainKeeps

Reset == At("started", "loop") /\ quit' = FALSE /\ UNCHANGED <<timer, count>> /\ Quiet

LoopTop == At("loop", IF quit THEN "stop" ELSE "timers") /\ UNCHANGED loop /\ Quiet

(* Seeded fault: idle() ends the loop without the last look at the pump. *)
IdleLeaves ==
  /\ At("timers", IF timer = "due" THEN "stop" ELSE "poll")
  /\ timer' = (IF timer = "due" THEN "off" ELSE timer)
  /\ UNCHANGED <<quit, count>> /\ Quiet

(* processOneEvent(): the timers first.  idle() sets app_quit_now and the  *)
(* round goes on to poll(), with timeout 0 now that no timer is left.      *)
Timers ==
  /\ At("timers", "poll")
  /\ quit' = (timer = "due") /\ timer' = (IF timer = "due" THEN "off" ELSE timer)
  /\ UNCHANGED count /\ Quiet

PollReturns ==
  /\ chan = <<>> /\ (quit \/ timer = "due") /\ At("poll", "loop")
  /\ UNCHANGED loop /\ Quiet

ReadEventfd ==
  /\ chan # <<>> /\ At("poll", "recv")
  /\ count' = Len(chan) /\ UNCHANGED <<quit, timer>> /\ Quiet

GotQuit ==
  /\ count > 0 /\ At("recv", "recv") /\ Messages!Receive(Quit)
  /\ quit' = TRUE /\ count' = count - 1
  /\ UNCHANGED <<sem, alive, started, file, timer>> /\ MainKeeps

GotFile(f) ==
  /\ count > 0 /\ At("recv", "stat") /\ Messages!Receive(f)
  /\ work' = f /\ count' = count - 1
  /\ UNCHANGED <<sem, alive, started, todo, name, size, quit, timer>> /\ MainKeeps

Received == count = 0 /\ At("recv", "loop") /\ UNCHANGED loop /\ Quiet

FileStep == UNCHANGED <<chan, open, sem, alive, started, loop>> /\ MainKeeps

(* No truncation: switched off, a hard link, a small file, no open().  An  *)
(* unlink() that fails is logged and the file stays.                       *)
Unlink ==
  /\ At("stat", "arm")
  /\ \/ name' = [name EXCEPT ![work] = FALSE] /\ size' = [size EXCEPT ![work] = 0]
     \/ UNCHANGED <<name, size>>
  /\ UNCHANGED <<work, todo>> /\ FileStep

(* The name goes first.  The main thread may change erase_speed between    *)
(* the two reads of it: the file is aligned on another speed.              *)
Open ==
  /\ At("stat", "test") /\ flags /\ size[work] > speed
  /\ name' \in {name, [name EXCEPT ![work] = FALSE]}
  /\ \E s \in Speeds : todo' = size[work] - (size[work] % s)
  /\ size' = [size EXCEPT ![work] = todo']
  /\ UNCHANGED work /\ FileStep

Cut ==
  /\ todo > speed /\ flags /\ At("test", "cut")
  /\ UNCHANGED <<work, todo, name, size>> /\ FileStep

(* erase_speed is read again: it may be more than todo by now, and a       *)
(* negative size makes ftruncate() fail, as other things may.              *)
Truncate ==
  /\ tpc = "cut" /\ todo' = todo - speed
  /\ \/ todo' >= 0 /\ At("cut", "test") /\ size' = [size EXCEPT ![work] = todo'] /\ UNCHANGED name
     \/ At("cut", "arm") /\ name' = [name EXCEPT ![work] = FALSE] /\ size' = [size EXCEPT ![work] = 0]
  /\ UNCHANGED work /\ FileStep

(* The file is closed; an unlink() that failed is tried once more. *)
Closed ==
  /\ ~(todo > speed /\ flags) /\ At("test", "arm")
  /\ \/ name' = [name EXCEPT ![work] = FALSE] /\ size' = [size EXCEPT ![work] = 0]
     \/ name[work] /\ UNCHANGED <<name, size>>
  /\ UNCHANGED <<work, todo>> /\ FileStep

ArmTimer ==
  /\ At("arm", "recv") /\ timer' = "on" /\ work' = NoFile /\ todo' = 0
  /\ UNCHANGED <<chan, open, sem, alive, started, quit, count, name, size>> /\ MainKeeps

StopTimer == At("stop", "done") /\ timer' = "off" /\ UNCHANGED <<quit, count>> /\ Quiet

(* thread_completed(): m_alive goes, and only then m_started is read.      *)
Completed ==
  /\ At("done", "cleared") /\ alive' = FALSE
  /\ UNCHANGED <<chan, open, sem, started, loop, file>> /\ MainKeeps

(* Nobody cancels this thread, so m_started was set, unless run() has      *)
(* reset it by now: then the thread starts once more, in HasStarted.       *)
Finish == started /\ At("cleared", "none") /\ UNCHANGED loop /\ Quiet

(* A second has passed. *)
Expire ==
  /\ timer = "on" /\ tpc \in {"loop", "timers", "poll"} /\ timer' = "due"
  /\ UNCHANGED <<tpc, quit, count>> /\ Quiet

-----------------------------------------------------------------------------
MainStep ==
  \/ SyncDown \/ SyncAgain \/ SyncFatal \/ Start \/ JoinOld \/ Create \/ SyncUp \/ Kill
ThreadStep ==
  \/ HasStarted \/ StartFatal \/ Up \/ Reset \/ LoopTop \/ Timers \/ PollReturns \/ ReadEventfd \/ GotQuit \/ Received
  \/ Unlink \/ Open \/ Cut \/ Truncate \/ Closed \/ ArmTimer \/ StopTimer \/ Completed \/ Finish
  \/ \E f \in Files : GotFile(f)
User == (\E f \in Files : Erase(f)) \/ SetErase \/ Destroy

Next == MainStep \/ ThreadStep \/ User \/ CreateFails \/ Expire

Spec == Init /\ [][Next]_vars

(* Both threads are scheduled, and a second passes. *)
FairSpec == Spec /\ WF_vars(MainStep) /\ WF_vars(ThreadStep) /\ WF_vars(Expire)

-----------------------------------------------------------------------------
(* Properties *)

(* The ASSERTs of thread.cpp (41-44, 107, 137) and the eFatal() of sync()  *)
(* never end the program: m_state is free when sync() has said that there  *)
(* is no thread, and taken when the new thread reports that it has started. *)
NoFatal == mpc # "fatal"

(* They do so after one hand-over only: the last thread had cleared        *)
(* m_alive and not yet read m_started (thread.cpp:10-13) when erase()      *)
(* started the next one.                                                   *)
FatalOnlyRaced == mpc = "fatal" => raced

(* The object is not destroyed under its thread, "halfway destroyed" in    *)
(* the words of thread.cpp:95.                                             *)
NoThreadLeft == mpc = "gone" => tpc = "none"

(* Truncating never makes a file grow, although erase_speed is read three  *)
(* times while the main thread may change it (file_eraser.cpp:88-117).     *)
NeverGrows == [][\A f \in Files : size'[f] <= size[f]]_vars

(* Every call comes back: erase() to the GUI, the destructor to the        *)
(* shutdown, unless a thread could not be created before, or that          *)
(* hand-over has happened.                                                 *)
CallReturns == mpc # "idle" ~> (mpc \in {"idle", "gone"} \/ failures > 0 \/ raced)

(* A file that is sent while the thread has not yet polled for the last    *)
(* time is handled, and so is one that is left over when a thread starts.  *)
(* idle() relies on this: it quits before the poll() of the same round.    *)
(* That hand-over may end the program first.                               *)
InChan(f) == \E i \in DOMAIN chan : chan[i] = f
BeforeLastPoll == tpc \in {"begin", "start", "started", "timers", "poll"} \/ (tpc = "loop" /\ ~quit)
SentIsHandled == \A f \in Files : (InChan(f) /\ BeforeLastPoll) ~> (~InChan(f) \/ raced)

(* "sync() will return: 0 (="not alive") for 1, 4, 5" (thread.h:14-15):    *)
(* with no thread there is nothing for sync() to wait for.                 *)
SyncReturns == mpc = "sync" /\ tpc = "none" => sem > 0
=============================================================================
