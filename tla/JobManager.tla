----------------------------- MODULE JobManager -----------------------------
(* The background jobs of lib/python/Components/Task.py: the queue of the  *)
(* JobManager, the jobs with their tasks, the processes the tasks start    *)
(* through eConsoleAppContainer, the question asked after a recoverable    *)
(* failure and the abort of Screens/TaskView.py.                           *)
(*                                                                         *)
(* The code is a web of synchronous callbacks: a task that ends calls its  *)
(* job, which runs the next task or reports to the manager, which starts   *)
(* the next job.  The variable `stack' holds the calls still to be made,   *)
(* the next one first; the environment acts only when it is empty.  An     *)
(* exception (`raised') reaches the C++ caller and ends the program; the   *)
(* model stops there.                                                      *)
EXTENDS Integers, Sequences, FiniteSets

CONSTANTS
  Jobs,         \* the jobs that may be queued
  NoJob,        \* Python's None
  Kinds,        \* the tasks of each job, as a sequence of kinds
  MaxRetries    \* bound: how often the user answers "retry"

\* "Instant" has no command, "Tool" runs a process, "Burn" is a tool with a
\* RECOVERABLE postcondition, "Python" works in a thread, "Author" is a tool
\* that goes resident (DVDAuthorTask) and "Wait" waits for it.  A job has at
\* most one "Author", and waits for it before it burns (Process.py 896-933).
TaskKinds == {"Instant", "Tool", "Burn", "Python", "Author", "Wait"}

ASSUME JobAssumption ==
  /\ NoJob \notin Jobs
  /\ Kinds \in [Jobs -> Seq(TaskKinds)]
  /\ \A j \in Jobs : Cardinality({i \in DOMAIN Kinds[j] : Kinds[j][i] = "Author"}) <= 1
  /\ \A j \in Jobs : \A a, b \in DOMAIN Kinds[j] :
       a < b /\ Kinds[j][a] = "Author" /\ Kinds[j][b] = "Burn" =>
         \E w \in DOMAIN Kinds[j] : a < w /\ w < b /\ Kinds[j][w] = "Wait"
  /\ MaxRetries \in Nat

VARIABLES
  queue,      \* JobManager.active_jobs
  active,     \* JobManager.active_job
  failed,     \* JobManager.failed_jobs
  asked,      \* the jobs the open "Retry?" questions were asked about
  job,        \* status, current_task, resident_tasks and callback of each job
  task,       \* what each task does
  stack,      \* the calls still to be made
  raised,     \* an exception was raised
  retries,    \* the retries so far
  good,       \* history: the tasks of each job that ended well
  astray      \* history: a resident task was left running by a job that
              \* failed, or ended while its job was not waiting for it
vars == <<queue, active, failed, asked, job, task, stack, raised, retries, good, astray>>
manager == <<queue, active, failed, asked, retries>>

Tasks(j) == DOMAIN Kinds[j]
Results == {"ok", "failed", "recoverable"}
Status == {"new", "waiting", "removed", "progress", "finished", "failed"}
Frames == [op : {"Kick", "Clear", "Yes", "No"}, j : Jobs \cup {NoJob}]
          \cup [op : {"RunNext", "Run", "AbortResident"}, j : Jobs]
          \cup [op : {"Callback", "After"}, j : Jobs, i : Nat, res : Results, stay : BOOLEAN]
          \cup [op : {"Done"}, j : Jobs, res : Results]
TypeOK ==
  /\ queue \in Seq(Jobs) /\ asked \in Seq(Jobs)
  /\ active \in Jobs \cup {NoJob} /\ failed \in Seq(Jobs \cup {NoJob})
  /\ job \in [Jobs -> [status : Status, current : Nat \ {0}, resident : SUBSET Nat, callback : BOOLEAN]]
  /\ \A j \in Jobs : task[j] \in [Tasks(j) -> {"idle", "running", "stuck", "wait"}]
  /\ stack \in Seq(Frames) /\ raised \in BOOLEAN /\ retries \in 0 .. MaxRetries
  /\ \A j \in Jobs : good[j] \subseteq Tasks(j)

Init ==
  /\ queue = <<>> /\ active = NoJob /\ failed = <<>> /\ asked = <<>>
  /\ job = [j \in Jobs |-> [status |-> "new", current |-> 1, resident |-> {}, callback |-> FALSE]]
  /\ task = [j \in Jobs |-> [i \in Tasks(j) |-> "idle"]]
  /\ stack = <<>> /\ raised = FALSE /\ retries = 0
  /\ good = [j \in Jobs |-> {}] /\ astray = FALSE

\* Frames of the stack
Kick == [op |-> "Kick", j |-> NoJob]
ErrorCB(answer) == [op |-> IF answer THEN "Yes" ELSE "No", j |-> NoJob]
Clear(j) == [op |-> "Clear", j |-> j]
RunNext(j) == [op |-> "RunNext", j |-> j]
Run(j) == [op |-> "Run", j |-> j]
AbortResident(j) == [op |-> "AbortResident", j |-> j]
Callback(j, i, res, stay) == [op |-> "Callback", j |-> j, i |-> i, res |-> res, stay |-> stay]
After(c) == [c EXCEPT !.op = "After"]
Done(j, res) == [op |-> "Done", j |-> j, res |-> res]

\* The top call is op; it makes the calls `next' before it returns.
Top(op) == stack # <<>> /\ ~raised /\ Head(stack).op = op
Calls(next) == stack' = next \o Tail(stack)
Raise == raised' = TRUE /\ Calls(<<>>) /\ UNCHANGED <<manager, job, task, good, astray>>
Outside == stack = <<>> /\ ~raised
Is(j, i, state) == i \in Tasks(j) /\ task[j][i] = state
Live(j) == {i \in Tasks(j) : task[j][i] # "idle"}

(* ------------------------------ JobManager ------------------------------ *)

\* AddJob(): behind the others, then kick().
AddJob(j) ==
  /\ Outside /\ job[j].status = "new"
  /\ queue' = Append(queue, j)
  /\ job' = [job EXCEPT ![j].status = "waiting"]
  /\ stack' = <<Kick>>
  /\ UNCHANGED <<active, failed, asked, task, raised, retries, good, astray>>

\* kick(): start the next job, if none is active (Job.start, Job.restart).
KickIf(free) ==
  /\ Top("Kick")
  /\ IF free /\ queue # <<>>
     THEN LET j == Head(queue) IN
          /\ active' = j
          /\ queue' = Tail(queue)
          /\ job' = [job EXCEPT ![j].callback = TRUE, ![j].status = "progress"]
          /\ Calls(<<RunNext(j)>>)
     ELSE Calls(<<>>) /\ UNCHANGED <<active, queue, job>>
  /\ UNCHANGED <<failed, asked, task, raised, retries, good, astray>>
KickAnyhow == KickIf(TRUE)   \* seeded fault
DoKick == KickIf(active = NoJob)

\* jobDone() with notifyFailed(): a recoverable problem asks the user.
Report(onSuccess, onRefusal) ==
  /\ Top("Done")
  /\ LET c == Head(stack) IN
     \/ /\ c.res = "ok" /\ active' = NoJob
        /\ Calls(onSuccess) /\ UNCHANGED asked
     \/ /\ c.res = "recoverable" /\ asked' = Append(asked, c.j)
        /\ Calls(onRefusal) /\ UNCHANGED active
     \/ /\ c.res = "failed" /\ Calls(<<ErrorCB(FALSE)>>)
        /\ UNCHANGED <<active, asked>>
  /\ UNCHANGED <<queue, failed, job, task, raised, retries, good, astray>>
DoneNoKick == Report(<<>>, <<>>)                 \* seeded fault
DoneAskedFails == Report(<<Kick>>, <<ErrorCB(FALSE)>>) \* seeded fault
DoDone == Report(<<Kick>>, <<>>)

\* errorCB(False): whichever job is active now has failed.
GiveUp ==
  /\ Top("No")
  /\ failed' = Append(failed, active)
  /\ active' = NoJob
  /\ astray' = (astray \/ (active # NoJob /\ Live(active) # {}))
  /\ Calls(<<Kick>>)
  /\ UNCHANGED <<queue, asked, job, task, raised, retries, good>>

\* errorCB(True): retry() asserts that the active job has failed.
Retry ==
  /\ Top("Yes")
  /\ IF active # NoJob /\ job[active].status = "failed"
     THEN /\ job' = [job EXCEPT ![active].status = "progress"]
          /\ Calls(<<RunNext(active)>>)
          /\ UNCHANGED <<manager, task, raised, good, astray>>
     ELSE Raise

\* The user answers the oldest question.
Answer(yes) ==
  /\ Outside /\ asked # <<>>
  /\ yes => retries < MaxRetries
  /\ retries' = retries + (IF yes THEN 1 ELSE 0)
  /\ asked' = Tail(asked)
  /\ stack' = <<ErrorCB(yes)>>
  /\ UNCHANGED <<queue, active, failed, job, task, raised, good, astray>>

(* ---------------------------------- Job --------------------------------- *)

\* Job.runNext(): the end of the job waits for its resident tasks.
DoRunNext ==
  /\ Top("RunNext")
  /\ LET j == Head(stack).j
         left == Len(Kinds[j]) + 1 - job[j].current
         finished == left = 0 /\ job[j].resident = {} IN
     /\ job' = [job EXCEPT ![j].status = IF finished THEN "finished" ELSE @]
     /\ raised' = (left < 0 \/ (finished /\ ~job[j].callback))
     /\ Calls(CASE left > 0 -> <<Run(j)>>
                [] finished -> <<Done(j, "ok"), Clear(j)>>
                [] OTHER -> <<>>)
  /\ UNCHANGED <<manager, task, good, astray>>

\* self.callback = None, after the manager was told of the end.
DoClear ==
  /\ Top("Clear")
  /\ job' = [job EXCEPT ![Head(stack).j].callback = FALSE]
  /\ Calls(<<>>)
  /\ UNCHANGED <<manager, task, raised, good, astray>>

\* Job.taskCallback() up to the report of a failure.
DoCallback ==
  /\ Top("Callback")
  /\ LET c == Head(stack)
         j == c.j
         report == c.res # "ok" IN
     /\ job' = [job EXCEPT
          ![j].resident = IF c.stay THEN @ \cup {job[j].current} ELSE @,
          ![j].status = IF report THEN "failed" ELSE @]
     /\ raised' = (report /\ ~job[j].callback)
     /\ Calls((IF report THEN <<Done(j, c.res)>> ELSE <<>>) \o <<After(c)>>)
  /\ UNCHANGED <<manager, task, good, astray>>

\* The rest of taskCallback(): a resident task ended, and on to the next one.
AfterCallback(failedBy) ==
  /\ Top("After")
  /\ LET c == Head(stack)
         j == c.j
         wasResident == c.i # job[j].current /\ c.i \in job[j].resident IN
     /\ job' = [job EXCEPT
          ![j].resident = IF wasResident THEN @ \ {c.i} ELSE @,
          ![j].current = IF c.res = "ok" THEN @ + 1 ELSE @ + failedBy]
     /\ astray' = (astray \/ (wasResident /\ c.res = "ok" /\ ~Is(j, job[j].current, "wait")))
     /\ task' = [task EXCEPT ![j] = [i \in Tasks(j) |->
          IF wasResident /\ i = job[j].current /\ task[j][i] = "wait" /\ c.res = "ok"
          THEN "idle" ELSE task[j][i]]]
     /\ good' = [good EXCEPT ![j] =
          IF c.res # "ok" THEN @
          ELSE @ \cup (IF c.stay THEN {} ELSE {c.i})
                 \cup (IF Is(j, job[j].current, "wait") THEN {job[j].current} ELSE {})]
     /\ Calls(IF c.res = "ok" THEN <<RunNext(j)>> ELSE <<>>)
  /\ UNCHANGED <<manager, raised>>
AfterSkips == AfterCallback(1)   \* seeded fault
DoAfter == AfterCallback(0)

(* --------------------------------- Tasks -------------------------------- *)

Outcomes(kind) == {"ok", "failed"} \cup (IF kind = "Burn" THEN {"recoverable"} ELSE {})

\* Task.run(): a failed precondition or an exception in prepare() reports at
\* once and so does a task without a command; a process that cannot be
\* started (execute() returns -3, nobody looks) never ends.
DoRun ==
  /\ Top("Run")
  /\ LET j == Head(stack).j
         i == job[j].current
         kind == Kinds[j][i]
         Becomes(s) == task' = [task EXCEPT ![j][i] = s] /\ Calls(<<>>) IN
     \/ kind = "Wait" /\ Becomes("wait")
     \/ kind # "Wait" /\ Calls(<<Callback(j, i, "failed", FALSE)>>) /\ UNCHANGED task
     \/ kind = "Instant" /\ Calls(<<Callback(j, i, "ok", FALSE)>>) /\ UNCHANGED task
     \/ kind \notin {"Wait", "Instant"} /\ Becomes("running")
     \/ kind \notin {"Wait", "Instant", "Python"} /\ Becomes("stuck")
  /\ UNCHANGED <<manager, job, raised, good, astray>>

\* readyRead() sees the process hang up and emits appClosed, or the thread is
\* done: processFinished() or onComplete(), then finish().
TaskEnds(j, i) ==
  /\ Outside /\ Is(j, i, "running")
  /\ task' = [task EXCEPT ![j][i] = "idle"]
  /\ \E res \in Outcomes(Kinds[j][i]) : stack' = <<Callback(j, i, res, FALSE)>>
  /\ UNCHANGED <<manager, job, raised, good, astray>>

\* The tool prints the line after which it only has to be waited for; for a
\* task that is resident already taskCallback() returns at once.
GoesResident(j, i) ==
  /\ Outside /\ Is(j, i, "running") /\ Kinds[j][i] = "Author"
  /\ i \notin job[j].resident
  /\ stack' = <<Callback(j, i, "ok", TRUE)>>
  /\ UNCHANGED <<manager, job, task, raised, good, astray>>

(* ------------------------- JobView: abort a job ------------------------- *)

\* Task.abort(): kill() closes the pipes, so that no appClosed follows, and
\* finish(); a Python task is only told to stop.
AbortCalls(j, i) == IF Kinds[j][i] = "Python" THEN <<>> ELSE <<Callback(j, i, "failed", FALSE)>>
AbortedTask(j, i) == IF Kinds[j][i] = "Python" THEN task ELSE [task EXCEPT ![j][i] = "idle"]

\* Job.cancel(): the current task first, then the resident ones.
AbortRunning(j) ==
  /\ Outside /\ job[j].status = "progress"
  /\ LET i == job[j].current IN
     IF i \in Tasks(j)
     THEN task' = AbortedTask(j, i) /\ stack' = Append(AbortCalls(j, i), AbortResident(j))
     ELSE stack' = <<AbortResident(j)>> /\ UNCHANGED task
  /\ UNCHANGED <<manager, job, raised, good, astray>>
DoAbortResident ==
  /\ Top("AbortResident")
  /\ LET j == Head(stack).j IN
     \/ /\ job[j].resident = {} /\ Calls(<<>>) /\ UNCHANGED task
     \/ \E i \in job[j].resident :
          /\ task' = AbortedTask(j, i)
          /\ Calls(AbortCalls(j, i))
  /\ UNCHANGED <<manager, job, raised, good, astray>>

\* A job that waits is taken from the queue: list.remove().
Without(s, n) == [i \in 1 .. Len(s) - 1 |-> s[IF i < n THEN i ELSE i + 1]]
Dequeue(j, rest) ==
  /\ Outside /\ job[j].status = "waiting"
  /\ queue' = rest
  /\ job' = [job EXCEPT ![j].status = "removed"]
  /\ UNCHANGED <<active, failed, asked, task, stack, raised, retries, good, astray>>
AbortStaysQueued(j) == Dequeue(j, queue)   \* seeded fault
AbortWaiting(j) == \E n \in DOMAIN queue : queue[n] = j /\ Dequeue(j, Without(queue, n))

Step == \/ DoKick \/ DoDone \/ GiveUp \/ Retry \/ DoRunNext \/ DoClear
        \/ DoCallback \/ DoAfter \/ DoRun \/ DoAbortResident
User == \/ \E j \in Jobs : AddJob(j) \/ AbortRunning(j) \/ AbortWaiting(j)
        \/ \E yes \in BOOLEAN : Answer(yes)
World == \E j \in Jobs : \E i \in Tasks(j) : TaskEnds(j, i) \/ GoesResident(j, i)
Next == Step \/ User \/ World
Spec == Init /\ [][Next]_vars

\* The calls are made; as long as processes and threads run, one of them ends
\* some day and the main loop serves it between any two inputs.  Nothing is
\* asked of the user, who may leave a question open.
FairSpec == Spec /\ WF_vars(Step) /\ SF_vars(World)

(* ------------------------------ Properties ------------------------------ *)

\* "The jobmanager will execute multiple jobs, each after another" (Task.py
\* 352): whatever runs belongs to the active job.
OneJobRuns == \A j \in Jobs : Live(j) # {} => j = active

\* As long as no job has left a resident task behind, one job runs at a time
\* and inside it one task, besides the resident one and the one that waits.
OneTaskRuns ==
  astray \/ /\ OneJobRuns
            /\ \A j \in Jobs : Live(j) \subseteq job[j].resident \cup {job[j].current}

\* An open question is about the active job, which has failed: the answer,
\* which does not say whom it is about (errorCB), reaches the right job and
\* the assertion of retry() holds.
QuestionIsAboutActive ==
  astray \/ (/\ Len(asked) <= 1
             /\ \A n \in DOMAIN asked : asked[n] = active /\ job[active].status = "failed")

\* No callback is called that was already cleared, no task beyond the last
\* one is run and retry() finds a failed job.
NothingRaised == raised => astray

\* A job that was reported as a success has run every one of its tasks to a
\* good end.
SuccessIsEarned ==
  astray \/ \A j \in Jobs : job[j].status = "finished" => good[j] = Tasks(j)

\* Every job is accounted for once: it waits, is active, failed, succeeded or
\* was removed, and the manager never counts None as a failed job.
Occurrences(j) ==
  Cardinality({n \in DOMAIN queue : queue[n] = j}) + Cardinality({n \in DOMAIN failed : failed[n] = j})
  + (IF active = j THEN 1 ELSE 0)
Accounted ==
  stack = <<>> /\ ~astray =>
    /\ \A n \in DOMAIN failed : failed[n] # NoJob
    /\ \A j \in Jobs : Occurrences(j) = (IF job[j].status \in {"new", "finished", "removed"} THEN 0 ELSE 1)

\* Nothing will end this task: its process was never started, or it waits
\* for a resident task that is gone (Process.py 295 compares a list with 0).
Hangs(j, i) == Is(j, i, "stuck") \/ (Is(j, i, "wait") /\ job[j].resident = {})

\* A job waits for ever only behind an open question or a task that hangs.
QueueMoves ==
  \A j \in Jobs : job[j].status = "waiting"
    ~> (\/ job[j].status # "waiting" \/ asked # <<>> \/ astray
        \/ \E k \in Jobs : \E i \in Tasks(k) : Hangs(k, i))
=============================================================================
