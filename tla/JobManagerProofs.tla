-------------------------- MODULE JobManagerProofs --------------------------
(***************************************************************************)
(* Proofs about JobManager, for any jobs with any tasks.                   *)
(***************************************************************************)
EXTENDS JobManager, FiniteSetTheorems, SequenceTheorems, TLAPS

Rng(s) == {s[n] : n \in DOMAIN s}

Cur(j) == job[j].current
Res(j) == job[j].resident

(* The types. *)
Typed ==
  /\ queue \in Seq(Jobs) /\ asked \in Seq(Jobs)
  /\ active \in Jobs \cup {NoJob} /\ failed \in Seq(Jobs \cup {NoJob})
  /\ job \in [Jobs -> [status : Status, current : Nat \ {0}, resident : SUBSET Nat, callback : BOOLEAN]]
  /\ DOMAIN task = Jobs /\ DOMAIN good = Jobs
  /\ \A j \in Jobs : task[j] \in [Tasks(j) -> {"idle", "running", "stuck", "wait"}]
  /\ \A j \in Jobs : good[j] \subseteq Tasks(j)
  /\ raised \in BOOLEAN /\ astray \in BOOLEAN /\ retries \in 0 .. MaxRetries

(* The calls that are still to be made: only a task that the job has ends  *)
(* well, and only such a task is run, at once.                             *)
FrameOK(f) == f \in Frames /\ (f.op \in {"Callback", "After"} /\ f.res = "ok" => f.i \in Tasks(f.j))
Tame(t) == t \in Seq(Frames) /\ \A f \in Rng(t) : FrameOK(f) /\ f.op # "Run"
Stacked ==
  /\ stack \in Seq(Frames)
  /\ stack # <<>> => /\ FrameOK(Head(stack)) /\ Tame(Tail(stack))
                     /\ Head(stack).op = "Run" => Cur(Head(stack).j) \in Tasks(Head(stack).j)

(* Each job has its place: it waits in the queue, is active or among those *)
(* that failed, once.  Only the active one has tasks that live, and one    *)
(* that was not started yet is at its beginning.                           *)
Inj(s) == \A m, n \in DOMAIN s : s[m] = s[n] => m = n
Place(j) ==
  /\ job[j].status = "progress" \/ Live(j) # {} => j = active
  /\ job[j].status = "finished" => good[j] = Tasks(j)
  /\ job[j].status \in {"new", "waiting"} => Cur(j) = 1 /\ Res(j) = {}
  /\ \A i \in Tasks(j) : task[j][i] = "running" => Kinds[j][i] # "Wait"
Books ==
  /\ Inj(queue) /\ Rng(queue) = {j \in Jobs : job[j].status = "waiting"}
  /\ Inj(failed) /\ Rng(failed) = {j \in Jobs : job[j].status = "failed" /\ j # active}
  /\ \A j \in Jobs : Place(j)

(* How far the active job is: what came before its current task has ended  *)
(* well or is the resident one, behind which it has not waited yet.        *)
Course(j) ==
  /\ job[j].status \in {"progress", "failed"} /\ job[j].callback
  /\ Cur(j) <= Len(Kinds[j]) + 1
  /\ Live(j) \subseteq Res(j) \cup {Cur(j)}
  /\ \A i \in Res(j) : /\ i \in Tasks(j) /\ Kinds[j][i] = "Author" /\ i <= Cur(j)
                       /\ \A w \in Tasks(j) : i < w /\ w < Cur(j) => Kinds[j][w] # "Wait"
  /\ \A i \in Tasks(j) : i < Cur(j) => i \in good[j] \cup Res(j)

(* Its task goes on: the resident one lives. *)
Going(j) ==
  /\ job[j].status = "progress" /\ asked = <<>>
  /\ Res(j) \subseteq Live(j) /\ Cur(j) \notin Res(j)

(* It has failed and nothing of it is left. *)
Still(j) == job[j].status = "failed" /\ Live(j) = {} /\ Res(j) = {}

(* No call of the active job is being made. *)
Rest ==
  IF active = NoJob THEN asked = <<>>
  ELSE Course(active) /\ (Going(active) \/ (Still(active) /\ asked = <<active>>))

(* A task has reported to its job. *)
Reported(c) ==
  /\ c.j = active /\ Course(c.j) /\ job[c.j].status = "progress" /\ asked = <<>>
  /\ Res(c.j) \ {c.i} \subseteq Live(c.j)
  /\ c.i = Cur(c.j) \/ c.i \in Res(c.j)
  /\ c.stay => /\ c.i = Cur(c.j) /\ c.res = "ok" /\ Kinds[c.j][c.i] = "Author"
               /\ c.i \in Live(c.j)
  /\ ~c.stay => c.i \notin Live(c.j)
  /\ c.res = "recoverable" => c.i \in Tasks(c.j) /\ Kinds[c.j][c.i] = "Burn" /\ c.i = Cur(c.j)
  /\ c.res = "ok" => Kinds[c.j][c.i] # "Wait"

(* The call that is next. *)
Now(f) ==
  /\ f.op \in {"Yes", "No"} => /\ active # NoJob /\ asked = <<>> /\ Course(active)
                               /\ job[active].status = "failed"
                               /\ f.op = "Yes" => Still(active)
  /\ f.op \in {"RunNext", "Run"} => f.j = active /\ Course(f.j) /\ Going(f.j) /\ Cur(f.j) \notin Live(f.j)
  /\ f.op = "Callback" => Reported(f) /\ Cur(f.j) \notin Res(f.j)
  /\ f.op = "After" /\ f.res = "ok" => Reported(f) /\ (Cur(f.j) \in Res(f.j) <=> f.stay)
  /\ f.op = "Done" => /\ f.j = active /\ asked = <<>>
                      /\ f.res = "ok" => job[f.j].status = "finished" /\ Live(f.j) = {}
                      /\ f.res # "ok" => job[f.j].status = "failed" /\ Course(f.j)
                      /\ f.res = "recoverable" => Still(f.j)
  /\ f.op = "AbortResident" => /\ Res(f.j) \subseteq Live(f.j)
                               /\ (f.j = active \/ job[f.j].status = "failed")
  /\ f.op = "After" /\ f.res # "ok" => job[f.j].status = "failed"
  /\ f.op = "Clear" => f.j \in Jobs /\ job[f.j].status = "finished"
  /\ f.op \in {"Kick", "Clear", "AbortResident"} \/ (f.op = "After" /\ f.res # "ok") => Rest

(* A call that is to be made later: it can do nothing to the active job.   *)
Firm(f) ==
  /\ f.op \in {"After", "Clear", "AbortResident"} /\ f.j \in Jobs
  /\ f.op = "After" => f.res # "ok" /\ job[f.j].status = "failed"
  /\ f.op = "Clear" => job[f.j].status = "finished"
  /\ f.op = "AbortResident" => Res(f.j) \subseteq Live(f.j) /\ job[f.j].status = "failed"

(* The job that is about to fail is aborted. *)
Aborting(f) ==
  /\ f.op = "AbortResident" /\ f.j = active /\ Res(f.j) \subseteq Live(f.j)
  /\ Head(stack).op = "Callback" /\ Head(stack).res = "failed"

Calling ==
  /\ stack = <<>> => Rest
  /\ stack # <<>> => /\ Now(Head(stack)) /\ \A f \in Rng(Tail(stack)) : Firm(f) \/ Aborting(f)
                     /\ Head(stack).op = "Yes" => Tail(stack) = <<>>
Sane == Books /\ Calling /\ raised = FALSE

JobInv == Typed /\ Stacked /\ (~astray => Sane)

-----------------------------------------------------------------------------
(* Sequences.                                                              *)

LEMMA Push ==
  ASSUME NEW S, NEW s \in Seq(S), NEW x \in S
  PROVE  /\ <<x>> \o s \in Seq(S) /\ <<x>> \o s # <<>>
         /\ Head(<<x>> \o s) = x /\ Tail(<<x>> \o s) = s
         /\ Rng(<<x>> \o s) = {x} \cup Rng(s)
<1>. DEFINE p == <<x>> \o s
<1>1. p \in Seq(S) /\ Len(p) = Len(s) + 1 /\ p[1] = x /\ \A n \in 1 .. Len(s) : p[n + 1] = s[n]
  OBVIOUS
<1>. HIDE DEF p
<1>2. p # <<>> /\ Head(p) = x
  BY <1>1
<1>3. Tail(p) = s
  <2>1. Tail(p) \in Seq(S) /\ Len(Tail(p)) = Len(s)
    BY <1>1, <1>2
  <2>2. \A n \in 1 .. Len(s) : Tail(p)[n] = s[n]
    BY <1>1, <1>2
  <2>. QED BY <2>1, <2>2, SeqEqual
<1>4. Rng(p) = {x} \cup Rng(s)
  <2>1. DOMAIN p = 1 .. Len(s) + 1 /\ DOMAIN s = 1 .. Len(s) /\ Len(s) \in Nat
    BY <1>1
  <2>2. \A n \in DOMAIN p : p[n] \in {x} \cup Rng(s)
    <3>. TAKE n \in DOMAIN p
    <3>1. CASE n = 1
      BY <3>1, <1>1
    <3>2. CASE n # 1
      <4>1. n - 1 \in 1 .. Len(s) /\ n = (n - 1) + 1
        BY <2>1, <3>2
      <4>2. p[n] = s[n - 1]
        BY <1>1, <4>1
      <4>. QED BY <2>1, <4>1, <4>2 DEF Rng
    <3>. QED BY <3>1, <3>2
  <2>3. x \in Rng(p) /\ \A n \in DOMAIN s : s[n] \in Rng(p)
    <3>1. 1 \in DOMAIN p /\ \A n \in DOMAIN s : n + 1 \in DOMAIN p
      BY <2>1
    <3>. QED BY <1>1, <2>1, <3>1 DEF Rng
  <2>. QED BY <2>2, <2>3 DEF Rng
<1>. QED BY <1>1, <1>2, <1>3, <1>4 DEF p

LEMMA Pop ==
  ASSUME NEW S, NEW s \in Seq(S), s # <<>>
  PROVE  /\ Head(s) \in S /\ Tail(s) \in Seq(S) /\ Len(Tail(s)) = Len(s) - 1
         /\ DOMAIN s = 1 .. Len(s) /\ DOMAIN Tail(s) = 1 .. Len(s) - 1 /\ Len(s) \in Nat \ {0}
         /\ Head(s) = s[1] /\ \A n \in 1 .. Len(s) - 1 : Tail(s)[n] = s[n + 1]
         /\ Rng(s) = {Head(s)} \cup Rng(Tail(s))
<1>1. /\ Head(s) \in S /\ Tail(s) \in Seq(S) /\ Len(Tail(s)) = Len(s) - 1
      /\ DOMAIN s = 1 .. Len(s) /\ DOMAIN Tail(s) = 1 .. Len(s) - 1 /\ Len(s) \in Nat \ {0}
      /\ Head(s) = s[1] /\ \A n \in 1 .. Len(s) - 1 : Tail(s)[n] = s[n + 1]
  OBVIOUS
<1>. DEFINE h == Head(s)
            t == Tail(s)
<1>. HIDE DEF h, t
<1>2. \A n \in DOMAIN s : s[n] \in {h} \cup Rng(t)
  <2>. TAKE n \in DOMAIN s
  <2>1. CASE n = 1
    BY <1>1, <2>1 DEF h
  <2>2. CASE n # 1
    <3>1. n - 1 \in 1 .. Len(s) - 1 /\ n = (n - 1) + 1
      BY <1>1, <2>2
    <3>2. s[n] = t[n - 1]
      BY <1>1, <3>1 DEF t
    <3>. QED BY <1>1, <3>1, <3>2 DEF Rng, t
  <2>. QED BY <2>1, <2>2
<1>3. h \in Rng(s) /\ \A n \in DOMAIN t : t[n] \in Rng(s)
  <2>1. 1 \in DOMAIN s /\ \A n \in DOMAIN t : n + 1 \in DOMAIN s
    BY <1>1 DEF t
  <2>. QED BY <1>1, <2>1 DEF Rng, h, t
<1>4. Rng(s) = {h} \cup Rng(t)
  BY <1>2, <1>3 DEF Rng
<1>. QED BY <1>1, <1>4 DEF h, t

LEMMA Nothing ==
  /\ \A S : <<>> \in Seq(S)
  /\ Rng(<<>>) = {}
  /\ \A S : \A s \in Seq(S) : <<>> \o s = s /\ s \o <<>> = s
BY DEF Rng

(* One element is appended, or the one at n is taken out. *)
LEMMA Appended ==
  ASSUME NEW S, NEW s \in Seq(S), NEW x
  PROVE  /\ Rng(Append(s, x)) = Rng(s) \cup {x}
         /\ Inj(s) /\ x \notin Rng(s) => Inj(Append(s, x))
<1>. DEFINE p == Append(s, x)
<1>1. /\ DOMAIN p = 1 .. Len(s) + 1 /\ DOMAIN s = 1 .. Len(s) /\ Len(s) \in Nat
      /\ p[Len(s) + 1] = x /\ \A n \in 1 .. Len(s) : p[n] = s[n]
  OBVIOUS
<1>. HIDE DEF p
<1>2. \A n \in DOMAIN p : n \in DOMAIN s \/ n = Len(s) + 1
  BY <1>1
<1>3. Rng(p) = Rng(s) \cup {x}
  BY <1>1, <1>2 DEF Rng
<1>4. ASSUME \A m, n \in DOMAIN s : s[m] = s[n] => m = n, x \notin Rng(s),
             NEW m \in DOMAIN p, NEW n \in DOMAIN p, p[m] = p[n]
      PROVE  m = n
  <2>1. \A k \in DOMAIN s : s[k] # x
    BY <1>4 DEF Rng
  <2>. QED BY <1>1, <1>2, <1>4, <2>1
<1>. QED BY <1>3, <1>4 DEF p, Inj

LEMMA OneOut ==
  ASSUME NEW S, NEW s \in Seq(S), NEW k \in DOMAIN s
  PROVE  Without(s, k) \in Seq(S)
<1>. DEFINE p == Without(s, k)
<1>1. DOMAIN s = 1 .. Len(s) /\ Len(s) \in Nat /\ Len(s) - 1 \in Nat /\ k \in Int
  <2>1. Len(s) \in Nat /\ DOMAIN s = 1 .. Len(s)
    OBVIOUS
  <2>. QED BY <2>1
<1>2. p = [i \in 1 .. Len(s) - 1 |-> s[IF i < k THEN i ELSE i + 1]]
  BY DEF Without
<1>3. \A i \in 1 .. Len(s) - 1 : (IF i < k THEN i ELSE i + 1) \in DOMAIN s
  BY <1>1
<1>4. \A i \in 1 .. Len(s) - 1 : s[IF i < k THEN i ELSE i + 1] \in S
  BY <1>3, ElementOfSeq, <1>1
<1>5. p \in [1 .. Len(s) - 1 -> S]
  BY <1>2, <1>4
<1>. QED BY <1>1, <1>5, IsASeq DEF p

LEMMA TakenOut ==
  ASSUME NEW S, NEW s \in Seq(S), NEW k \in DOMAIN s, Inj(s)
  PROVE  Rng(Without(s, k)) = Rng(s) \ {s[k]} /\ Inj(Without(s, k))
<1>. DEFINE p == Without(s, k)
<1>1. DOMAIN s = 1 .. Len(s) /\ Len(s) \in Nat /\ Len(s) - 1 \in Nat /\ k \in Int
  <2>1. Len(s) \in Nat /\ DOMAIN s = 1 .. Len(s)
    OBVIOUS
  <2>. QED BY <2>1
<1>2. /\ p = [i \in 1 .. Len(s) - 1 |-> s[IF i < k THEN i ELSE i + 1]]
      /\ DOMAIN p = 1 .. Len(s) - 1
      /\ \A i \in 1 .. Len(s) - 1 : p[i] = s[IF i < k THEN i ELSE i + 1]
  BY DEF Without
<1>3. \A i \in 1 .. Len(s) - 1 : (IF i < k THEN i ELSE i + 1) \in DOMAIN s
  BY <1>1
<1>. HIDE DEF p
<1>5. \A m, n \in DOMAIN p : p[m] = p[n] => m = n
  <2>. SUFFICES ASSUME NEW m \in 1 .. Len(s) - 1, NEW n \in 1 .. Len(s) - 1, p[m] = p[n]
                PROVE  m = n
    BY <1>2
  <2>1. (IF m < k THEN m ELSE m + 1) = (IF n < k THEN n ELSE n + 1)
    BY <1>2, <1>3 DEF Inj
  <2>. QED BY <1>1, <2>1
<1>6. \A i \in DOMAIN p : p[i] \in Rng(s) \ {s[k]}
  <2>. SUFFICES ASSUME NEW i \in 1 .. Len(s) - 1 PROVE p[i] \in Rng(s) \ {s[k]}
    BY <1>2
  <2>. DEFINE e == IF i < k THEN i ELSE i + 1
  <2>1. e # k /\ e \in DOMAIN s /\ p[i] = s[e]
    BY <1>1, <1>2, <1>3
  <2>. HIDE DEF e
  <2>. QED BY <2>1 DEF Rng, Inj
<1>7. \A n \in DOMAIN s : s[n] # s[k] => s[n] \in Rng(p)
  <2>. SUFFICES ASSUME NEW n \in DOMAIN s, n # k PROVE s[n] \in Rng(p)
    OBVIOUS
  <2>. DEFINE i == IF n < k THEN n ELSE n - 1
  <2>1. i \in 1 .. Len(s) - 1 /\ (IF i < k THEN i ELSE i + 1) = n
    BY <1>1
  <2>. HIDE DEF i
  <2>2. i \in DOMAIN p /\ p[i] = s[n]
    BY <1>2, <2>1
  <2>. QED BY <2>2 DEF Rng
<1>8. Rng(p) = Rng(s) \ {s[k]}
  BY <1>6, <1>7 DEF Rng
<1>. QED BY <1>5, <1>8 DEF p, Inj

-----------------------------------------------------------------------------
(* The calls.                                                              *)

Reports == [op : {"Callback", "After"}, j : Jobs, i : Nat, res : Results, stay : BOOLEAN]

LEMMA FrameKinds ==
  ASSUME NEW f \in Frames
  PROVE  /\ f.op \in {"Kick", "Clear", "Yes", "No", "RunNext", "Run", "AbortResident",
                      "Callback", "After", "Done"}
         /\ f.op \in {"Callback", "After"} => f \in Reports
         /\ f.op \in {"RunNext", "Run", "AbortResident", "Done"} => f.j \in Jobs
         /\ f.op = "Done" => f.res \in Results
<1>1. CASE f \in [op : {"Kick", "Clear", "Yes", "No"}, j : Jobs \cup {NoJob}]
  BY <1>1
<1>2. CASE f \in [op : {"RunNext", "Run", "AbortResident"}, j : Jobs]
  BY <1>2
<1>3. CASE f \in Reports
  BY <1>3 DEF Reports
<1>4. CASE f \in [op : {"Done"}, j : Jobs, res : Results]
  BY <1>4
<1>. QED BY <1>1, <1>2, <1>3, <1>4 DEF Frames, Reports

LEMMA Made ==
  /\ Kick \in Frames /\ Kick.op = "Kick"
  /\ \A b \in BOOLEAN : ErrorCB(b) \in Frames /\ ErrorCB(b).op = IF b THEN "Yes" ELSE "No"
  /\ \A j \in Jobs : /\ Clear(j) \in Frames /\ Clear(j).op = "Clear" /\ Clear(j).j = j
                     /\ RunNext(j) \in Frames /\ RunNext(j).op = "RunNext" /\ RunNext(j).j = j
                     /\ Run(j) \in Frames /\ Run(j).op = "Run" /\ Run(j).j = j
                     /\ AbortResident(j) \in Frames /\ AbortResident(j).op = "AbortResident"
                     /\ AbortResident(j).j = j
                     /\ \A r \in Results : /\ Done(j, r) \in Frames /\ Done(j, r).op = "Done"
                                           /\ Done(j, r).j = j /\ Done(j, r).res = r
BY DEF Frames, Kick, ErrorCB, Clear, RunNext, Run, AbortResident, Done

LEMMA MadeReport ==
  /\ \A j \in Jobs : \A i \in Nat : \A r \in Results : \A y \in BOOLEAN :
       LET c == Callback(j, i, r, y)
       IN  c \in Frames /\ c.op = "Callback" /\ c.j = j /\ c.i = i /\ c.res = r /\ c.stay = y
  /\ \A c \in Reports :
       LET a == After(c)
       IN  a \in Frames /\ a.op = "After" /\ a.j = c.j /\ a.i = c.i /\ a.res = c.res /\ a.stay = c.stay
<1>1. ASSUME NEW j \in Jobs, NEW i \in Nat, NEW r \in Results, NEW y \in BOOLEAN
      PROVE  LET c == Callback(j, i, r, y)
             IN  c \in Frames /\ c.op = "Callback" /\ c.j = j /\ c.i = i /\ c.res = r /\ c.stay = y
  <2>. DEFINE c == Callback(j, i, r, y)
  <2>1. c = [op |-> "Callback", j |-> j, i |-> i, res |-> r, stay |-> y]
    BY DEF Callback
  <2>. HIDE DEF c
  <2>2. c \in Reports
    BY <2>1 DEF Reports
  <2>. QED BY <2>1, <2>2 DEF Frames, Reports, c
<1>2. ASSUME NEW c \in Reports
      PROVE  LET a == After(c)
             IN  /\ a \in Frames /\ a.op = "After" /\ a.j = c.j /\ a.i = c.i
                 /\ a.res = c.res /\ a.stay = c.stay
  <2>. DEFINE a == After(c)
  <2>1. a \in Reports /\ a.op = "After" /\ a.j = c.j /\ a.i = c.i /\ a.res = c.res /\ a.stay = c.stay
    BY DEF After, Reports
  <2>. HIDE DEF a
  <2>. QED BY <2>1 DEF Frames, Reports, a
<1>. QED BY <1>1, <1>2

LEMMA Reporting ==
  ASSUME NEW j \in Jobs, NEW i \in Nat, NEW r \in Results, NEW y \in BOOLEAN, r = "ok" => i \in Tasks(j)
  PROVE  /\ FrameOK(Callback(j, i, r, y)) /\ Callback(j, i, r, y).op = "Callback"
         /\ Callback(j, i, r, y).j = j /\ Callback(j, i, r, y).i = i
         /\ Callback(j, i, r, y).res = r /\ Callback(j, i, r, y).stay = y
<1>1. LET c == Callback(j, i, r, y)
      IN  c \in Frames /\ c.op = "Callback" /\ c.j = j /\ c.i = i /\ c.res = r /\ c.stay = y
  BY MadeReport
<1>. DEFINE c == Callback(j, i, r, y)
<1>2. c \in Frames /\ c.op = "Callback" /\ c.j = j /\ c.i = i /\ c.res = r /\ c.stay = y
  BY <1>1
<1>. HIDE DEF c
<1>3. FrameOK(c)
  BY <1>2 DEF FrameOK
<1>. QED BY <1>2, <1>3 DEF c

(* x is the report of a task that has ended, or of one that goes resident. *)
ReportOf(x, j, i, r) == x \in Frames /\ x.op = "Callback" /\ x.j = j /\ x.i = i /\ x.res = r
Final(x, j, i, r) == ReportOf(x, j, i, r) /\ ~x.stay
Resident(x, j, i) == ReportOf(x, j, i, "ok") /\ x.stay

LEMMA MadeCallback ==
  ASSUME NEW j \in Jobs, NEW i \in Tasks(j), NEW r \in Results, NEW y \in BOOLEAN,
         NEW x, x = Callback(j, i, r, y)
  PROVE  ReportOf(x, j, i, r) /\ x.stay = y
<1>1. \A k \in Tasks(j) : k \in Nat
  BY JobAssumption DEF Tasks
<1>2. x = [op |-> "Callback", j |-> j, i |-> i, res |-> r, stay |-> y]
  BY DEF Callback
<1>3. x \in [op : {"Callback", "After"}, j : Jobs, i : Nat, res : Results, stay : BOOLEAN]
  BY <1>1, <1>2
<1>. QED BY <1>2, <1>3 DEF Frames, ReportOf

LEMMA MadeFinal ==
  ASSUME NEW j \in Jobs, NEW i \in Tasks(j), NEW r \in Results, NEW x, x = Callback(j, i, r, FALSE)
  PROVE  Final(x, j, i, r)
<1>. PICK y \in BOOLEAN : ~y /\ x = Callback(j, i, r, y)
  OBVIOUS
<1>1. ReportOf(x, j, i, r) /\ x.stay = y
  BY MadeCallback
<1>. QED BY <1>1 DEF Final

LEMMA MadeResident ==
  ASSUME NEW j \in Jobs, NEW i \in Tasks(j), NEW x, x = Callback(j, i, "ok", TRUE)
  PROVE  Resident(x, j, i)
<1>. PICK y \in BOOLEAN : y /\ x = Callback(j, i, "ok", y)
  OBVIOUS
<1>1. ReportOf(x, j, i, "ok") /\ x.stay = y
  <2>. PICK r : r = "ok"
    OBVIOUS
  <2>1. r \in Results
    BY DEF Results
  <2>. QED BY <2>1, MadeCallback
<1>. QED BY <1>1 DEF Resident

LEMMA ReportsAtOnce ==
  \A j \in Jobs : \A i \in Tasks(j) :
    /\ FrameOK(Callback(j, i, "failed", FALSE)) /\ Callback(j, i, "failed", FALSE).op = "Callback"
    /\ FrameOK(Callback(j, i, "ok", FALSE)) /\ Callback(j, i, "ok", FALSE).op = "Callback"
<1>1. ASSUME NEW j \in Jobs, NEW i \in Tasks(j), NEW r \in Results, NEW y \in BOOLEAN
      PROVE  FrameOK(Callback(j, i, r, y)) /\ Callback(j, i, r, y).op = "Callback"
  <2>1. \A k \in Tasks(j) : k \in Nat
    BY JobAssumption DEF Tasks
  <2>. QED BY <2>1, Reporting
<1>2. "ok" \in Results /\ "failed" \in Results /\ FALSE \in BOOLEAN
  BY DEF Results
<1>. QED BY <1>1, <1>2

LEMMA Tameness ==
  /\ Tame(<<>>)
  /\ Stacked /\ stack # <<>> => Tame(Tail(stack)) /\ Head(stack) \in Frames /\ FrameOK(Head(stack))
  /\ \A t, x : Tame(t) /\ FrameOK(x) /\ x.op # "Run" => Tame(<<x>> \o t)
<1>1. Tame(<<>>)
  BY Nothing DEF Tame
<1>2. Stacked /\ stack # <<>> => Tame(Tail(stack)) /\ Head(stack) \in Frames /\ FrameOK(Head(stack))
  BY DEF Stacked, FrameOK
<1>3. ASSUME NEW t, NEW x, Tame(t), FrameOK(x), x.op # "Run" PROVE Tame(<<x>> \o t)
  <2>1. t \in Seq(Frames) /\ x \in Frames /\ \A f \in Rng(t) : FrameOK(f) /\ f.op # "Run"
    BY <1>3 DEF Tame, FrameOK
  <2>2. <<x>> \o t \in Seq(Frames) /\ Rng(<<x>> \o t) = {x} \cup Rng(t)
    BY <2>1, Push
  <2>3. \A f \in {x} \cup Rng(t) : FrameOK(f) /\ f.op # "Run"
    BY <1>3, <2>1
  <2>. HIDE <2>1
  <2>. QED BY <2>2, <2>3 DEF Tame
<1>. QED BY <1>1, <1>2, <1>3

LEMMA StackedBy ==
  ASSUME NEW t, Tame(t)
  PROVE  /\ stack' = t => Stacked'
         /\ \A x : /\ stack' = <<x>> \o t /\ FrameOK(x)
                   /\ x.op = "Run" => job'[x.j].current \in Tasks(x.j)
                   => Stacked'
<1>1. ASSUME stack' = t PROVE Stacked'
  <2>1. t \in Seq(Frames)
    BY DEF Tame
  <2>2. ASSUME t # <<>> PROVE Tame(Tail(t)) /\ FrameOK(Head(t)) /\ Head(t).op # "Run"
    <3>1. Rng(t) = {Head(t)} \cup Rng(Tail(t)) /\ Tail(t) \in Seq(Frames)
      BY <2>1, <2>2, Pop
    <3>. QED BY <3>1 DEF Tame
  <2>. QED BY <1>1, <2>1, <2>2 DEF Stacked
<1>2. ASSUME NEW x, stack' = <<x>> \o t, FrameOK(x), x.op = "Run" => job'[x.j].current \in Tasks(x.j)
      PROVE  Stacked'
  <2>. DEFINE p == <<x>> \o t
  <2>1. x \in Frames /\ t \in Seq(Frames)
    BY <1>2 DEF Tame, FrameOK
  <2>2. p \in Seq(Frames) /\ p # <<>> /\ Head(p) = x /\ Tail(p) = t
    BY <2>1, Push
  <2>. HIDE DEF p
  <2>3. stack' = p
    BY <1>2 DEF p
  <2>. QED BY <1>2, <2>2, <2>3 DEF Stacked, Cur
<1>. QED BY <1>1, <1>2

-----------------------------------------------------------------------------
(* The types.                                                              *)

JobType == [status : Status, current : Nat \ {0}, resident : SUBSET Nat, callback : BOOLEAN]

LEMMA Given ==
  /\ NoJob \notin Jobs /\ MaxRetries \in Nat
  /\ \A j \in Jobs : Tasks(j) = 1 .. Len(Kinds[j]) /\ Len(Kinds[j]) \in Nat
  /\ \A j \in Jobs : \A i \in Tasks(j) : Kinds[j][i] \in TaskKinds
BY JobAssumption DEF Tasks

LEMMA TaskSet ==
  ASSUME Typed, NEW j \in Jobs, NEW i \in Nat, NEW s \in {"idle", "running", "stuck", "wait"}
  PROVE  LET n == [task EXCEPT ![j][i] = s]
         IN  /\ DOMAIN n = Jobs
             /\ \A k \in Jobs : n[k] \in [Tasks(k) -> {"idle", "running", "stuck", "wait"}]
BY DEF Typed

LEMMA ManagerTypes ==
  ASSUME Typed, Stacked
  PROVE  /\ \A j \in Jobs : AddJob(j) => Typed' /\ Stacked'
         /\ DoKick => Typed' /\ Stacked'
         /\ DoDone => Typed' /\ Stacked'
         /\ GiveUp => Typed' /\ Stacked'
         /\ Retry => Typed' /\ Stacked'
         /\ \A yes \in BOOLEAN : Answer(yes) => Typed' /\ Stacked'
<1>. DEFINE t == Tail(stack)
<1>t. job \in [Jobs -> JobType]
  BY DEF Typed, JobType
<1>1. ASSUME NEW j \in Jobs, AddJob(j) PROVE Typed' /\ Stacked'
  <2>1. queue' \in Seq(Jobs)
    BY <1>1 DEF AddJob, Typed
  <2>2. job' \in [Jobs -> JobType]
    BY <1>1, <1>t DEF AddJob, JobType, Status
  <2>4. Typed'
    BY <1>1, <2>1, <2>2 DEF AddJob, Typed, JobType
  <2>3. stack' = <<Kick>> \o <<>> /\ FrameOK(Kick) /\ Kick.op # "Run"
    BY <1>1, Made DEF AddJob, FrameOK
  <2>. QED BY <2>3, <2>4, Tameness, StackedBy
<1>2. ASSUME DoKick PROVE Typed' /\ Stacked'
  <2>1. stack # <<>> /\ Tame(t)
    BY <1>2, Tameness DEF DoKick, KickIf, Top
  <2>2. CASE active = NoJob /\ queue # <<>>
    <3>. DEFINE j == Head(queue)
    <3>1. j \in Jobs /\ Tail(queue) \in Seq(Jobs)
      BY <2>2 DEF Typed
    <3>2. /\ active' = j /\ queue' = Tail(queue)
          /\ job' = [job EXCEPT ![j].callback = TRUE, ![j].status = "progress"]
          /\ stack' = <<RunNext(j)>> \o t
          /\ UNCHANGED <<failed, asked, task, raised, retries, good, astray>>
      BY <1>2, <2>2 DEF DoKick, KickIf, Calls
    <3>. HIDE DEF j
    <3>3. job' \in [Jobs -> JobType]
      BY <1>t, <3>1, <3>2 DEF JobType, Status
    <3>4. Typed'
      BY <3>1, <3>2, <3>3 DEF Typed, JobType
    <3>5. FrameOK(RunNext(j)) /\ RunNext(j).op # "Run"
      BY <3>1, Made DEF FrameOK
    <3>. QED BY <2>1, <3>2, <3>4, <3>5, StackedBy
  <2>3. CASE ~(active = NoJob /\ queue # <<>>)
    <3>1. /\ stack' = <<>> \o t
          /\ UNCHANGED <<active, queue, job, failed, asked, task, raised, retries, good, astray>>
      BY <1>2, <2>3 DEF DoKick, KickIf, Calls
    <3>2. stack' = t
      BY <2>1, <3>1, Nothing DEF Tame
    <3>3. Typed'
      BY <3>1 DEF Typed, Tasks
    <3>. QED BY <2>1, <3>2, <3>3, StackedBy
  <2>. QED BY <2>2, <2>3
<1>3. ASSUME DoDone PROVE Typed' /\ Stacked'
  <2>. DEFINE c == Head(stack)
  <2>1. stack # <<>> /\ Tame(t) /\ c \in Frames /\ c.op = "Done"
    BY <1>3, Tameness DEF DoDone, Report, Top
  <2>2. c.j \in Jobs
    BY <2>1, FrameKinds
  <2>3. /\ \/ active' = NoJob /\ asked' = asked /\ stack' = <<Kick>> \o t
           \/ active' = active /\ asked' = Append(asked, c.j) /\ stack' = <<>> \o t
           \/ active' = active /\ asked' = asked /\ stack' = <<ErrorCB(FALSE)>> \o t
        /\ UNCHANGED <<queue, failed, job, task, raised, retries, good, astray>>
    BY <1>3 DEF DoDone, Report, Calls
  <2>. HIDE DEF c
  <2>4. active' \in Jobs \cup {NoJob} /\ asked' \in Seq(Jobs)
    <3>1. active' \in Jobs \cup {NoJob}
      BY <2>3 DEF Typed
    <3>2. asked' = asked \/ asked' = Append(asked, c.j)
      BY <2>3
    <3>3. asked \in Seq(Jobs)
      BY DEF Typed
    <3>4. Append(asked, c.j) \in Seq(Jobs)
      BY <2>2, <3>3
    <3>. QED BY <3>1, <3>2, <3>3, <3>4
  <2>5. Typed'
    BY <2>3, <2>4 DEF Typed, Tasks
  <2>6. FrameOK(Kick) /\ Kick.op # "Run" /\ FrameOK(ErrorCB(FALSE)) /\ ErrorCB(FALSE).op # "Run"
        /\ <<>> \o t = t
    BY <2>1, Made, Nothing DEF FrameOK, Tame
  <2>. QED BY <2>1, <2>3, <2>5, <2>6, StackedBy
<1>4. ASSUME GiveUp PROVE Typed' /\ Stacked'
  <2>1. stack # <<>> /\ Tame(t)
    BY <1>4, Tameness DEF GiveUp, Top
  <2>2. /\ failed' = Append(failed, active) /\ active' = NoJob /\ astray' \in BOOLEAN
        /\ stack' = <<Kick>> \o t
        /\ UNCHANGED <<queue, asked, job, task, raised, retries, good>>
    BY <1>4 DEF GiveUp, Calls
  <2>3. failed' \in Seq(Jobs \cup {NoJob})
    BY <2>2 DEF Typed
  <2>4. Typed'
    BY <2>2, <2>3 DEF Typed, Tasks
  <2>5. FrameOK(Kick) /\ Kick.op # "Run"
    BY Made DEF FrameOK
  <2>. QED BY <2>1, <2>2, <2>4, <2>5, StackedBy
<1>5. ASSUME Retry PROVE Typed' /\ Stacked'
  <2>1. stack # <<>> /\ Tame(t)
    BY <1>5, Tameness DEF Retry, Top
  <2>2. CASE active # NoJob /\ job[active].status = "failed"
    <3>1. active \in Jobs
      BY <2>2 DEF Typed
    <3>2. /\ job' = [job EXCEPT ![active].status = "progress"]
          /\ stack' = <<RunNext(active)>> \o t
          /\ UNCHANGED <<manager, task, raised, good, astray>>
      BY <1>5, <2>2 DEF Retry, Calls
    <3>3. job' \in [Jobs -> JobType]
      BY <1>t, <3>1, <3>2 DEF JobType, Status
    <3>4. Typed'
      BY <3>2, <3>3 DEF Typed, JobType, manager
    <3>5. FrameOK(RunNext(active)) /\ RunNext(active).op # "Run"
      BY <3>1, Made DEF FrameOK
    <3>. QED BY <2>1, <3>2, <3>4, <3>5, StackedBy
  <2>3. CASE ~(active # NoJob /\ job[active].status = "failed")
    <3>1. raised' = TRUE /\ stack' = <<>> \o t /\ UNCHANGED <<manager, job, task, good, astray>>
      BY <1>5, <2>3 DEF Retry, Raise, Calls
    <3>2. stack' = t
      BY <2>1, <3>1, Nothing DEF Tame
    <3>3. Typed'
      BY <3>1 DEF Typed, Tasks, manager
    <3>. QED BY <2>1, <3>2, <3>3, StackedBy
  <2>. QED BY <2>2, <2>3
<1>6. ASSUME NEW yes \in BOOLEAN, Answer(yes) PROVE Typed' /\ Stacked'
  <2>1. asked' \in Seq(Jobs)
    BY <1>6 DEF Answer, Typed
  <2>2. retries' \in 0 .. MaxRetries
    BY <1>6, Given DEF Answer, Typed
  <2>3. Typed'
    BY <1>6, <2>1, <2>2 DEF Answer, Typed, Tasks
  <2>4. stack' = <<ErrorCB(yes)>> \o <<>> /\ FrameOK(ErrorCB(yes)) /\ ErrorCB(yes).op # "Run"
    BY <1>6, Made DEF Answer, FrameOK
  <2>. QED BY <2>3, <2>4, Tameness, StackedBy
<1>. QED BY <1>1, <1>2, <1>3, <1>4, <1>5, <1>6

LEMMA JobStepTypes ==
  ASSUME Typed, Stacked
  PROVE  /\ DoRunNext => Typed' /\ Stacked'
         /\ DoClear => Typed' /\ Stacked'
         /\ DoCallback => Typed' /\ Stacked'
<1>. DEFINE t == Tail(stack)
            c == Head(stack)
            j == c.j
<1>t. job \in [Jobs -> JobType]
  BY DEF Typed, JobType
<1>1. ASSUME DoRunNext PROVE Typed' /\ Stacked'
  <2>. DEFINE left == Len(Kinds[j]) + 1 - Cur(j)
              finished == left = 0 /\ Res(j) = {}
  <2>1. stack # <<>> /\ Tame(t) /\ c \in Frames /\ c.op = "RunNext"
    BY <1>1, Tameness DEF DoRunNext, Top
  <2>2. j \in Jobs
    BY <2>1, FrameKinds
  <2>3a. raised' \in BOOLEAN
    BY <1>1 DEF DoRunNext
  <2>3b. job' = [job EXCEPT ![j].status = IF finished THEN "finished" ELSE @]
    BY <1>1 DEF DoRunNext, Cur, Res
  <2>3. /\ \/ left > 0 /\ stack' = <<Run(j)>> \o t
           \/ ~(left > 0) /\ finished /\ stack' = <<Done(j, "ok"), Clear(j)>> \o t
           \/ stack' = <<>> \o t
        /\ UNCHANGED <<manager, task, good, astray>>
    <3>1. Calls(CASE left > 0 -> <<Run(j)>> [] finished -> <<Done(j, "ok"), Clear(j)>> [] OTHER -> <<>>)
      BY <1>1 DEF DoRunNext, Cur, Res
    <3>2. UNCHANGED <<manager, task, good, astray>>
      BY <1>1 DEF DoRunNext
    <3>0. left > 0 => ~finished
      OBVIOUS
    <3>. HIDE DEF left, finished, c
    <3>3. CASE left > 0
      BY <3>0, <3>1, <3>2, <3>3 DEF Calls
    <3>4. CASE ~(left > 0) /\ finished
      BY <3>1, <3>2, <3>4 DEF Calls
    <3>5. CASE ~(left > 0) /\ ~finished
      BY <3>1, <3>2, <3>5 DEF Calls
    <3>. QED BY <3>3, <3>4, <3>5
  <2>4. left > 0 => Cur(j) \in Tasks(j)
    BY <1>t, <2>2, Given DEF Cur, JobType
  <2>. HIDE DEF finished, left, c
  <2>5. job' \in [Jobs -> JobType] /\ job'[j].current = Cur(j)
    BY <1>t, <2>2, <2>3b DEF JobType, Status, Cur
  <2>6. Typed'
    BY <2>3, <2>3a, <2>5 DEF Typed, JobType, manager
  <2>7. /\ FrameOK(Run(j)) /\ Run(j).j = j
        /\ FrameOK(Done(j, "ok")) /\ Done(j, "ok").op # "Run"
        /\ FrameOK(Clear(j)) /\ Clear(j).op # "Run"
    <3>1. "ok" \in Results
      BY DEF Results
    <3>. QED BY <2>2, <3>1, Made DEF FrameOK
  <2>8. <<>> \o t = t /\ <<Done(j, "ok"), Clear(j)>> \o t = <<Done(j, "ok")>> \o (<<Clear(j)>> \o t)
    <3>1. t \in Seq(Frames) /\ Done(j, "ok") \in Frames /\ Clear(j) \in Frames
      BY <2>1, <2>7 DEF Tame, FrameOK
    <3>. HIDE DEF t
    <3>. QED BY <3>1
  <2>9. Tame(<<Clear(j)>> \o t)
    BY <2>1, <2>7, Tameness
  <2>10. CASE left > 0 /\ stack' = <<Run(j)>> \o t
    BY <2>1, <2>4, <2>5, <2>6, <2>7, <2>10, StackedBy
  <2>11. CASE stack' = <<Done(j, "ok"), Clear(j)>> \o t
    BY <2>6, <2>7, <2>8, <2>9, <2>11, StackedBy
  <2>12. CASE stack' = <<>> \o t
    BY <2>1, <2>6, <2>8, <2>12, StackedBy
  <2>. QED BY <2>3, <2>10, <2>11, <2>12
<1>2. ASSUME DoClear PROVE Typed' /\ Stacked'
  <2>1. stack # <<>> /\ Tame(t) /\ c \in Frames /\ c.op = "Clear"
    BY <1>2, Tameness DEF DoClear, Top
  <2>2. /\ job' = [job EXCEPT ![j].callback = FALSE] /\ stack' = <<>> \o t
        /\ UNCHANGED <<manager, task, raised, good, astray>>
    BY <1>2 DEF DoClear, Calls
  <2>. HIDE DEF c
  <2>3. job' \in [Jobs -> JobType]
    BY <1>t, <2>2 DEF JobType
  <2>4. Typed'
    BY <2>2, <2>3 DEF Typed, JobType, manager
  <2>5. stack' = t
    BY <2>1, <2>2, Nothing DEF Tame
  <2>. QED BY <2>1, <2>4, <2>5, StackedBy
<1>3. ASSUME DoCallback PROVE Typed' /\ Stacked'
  <2>1. stack # <<>> /\ Tame(t) /\ c \in Frames /\ c.op = "Callback" /\ FrameOK(c)
    BY <1>3, Tameness DEF DoCallback, Top
  <2>2. c \in Reports /\ j \in Jobs /\ c.res \in Results
    BY <2>1, FrameKinds DEF Reports
  <2>3. /\ job' = [job EXCEPT ![j].resident = IF c.stay THEN @ \cup {job[j].current} ELSE @,
                              ![j].status = IF c.res # "ok" THEN "failed" ELSE @]
        /\ raised' \in BOOLEAN
        /\ stack' = ((IF c.res # "ok" THEN <<Done(j, c.res)>> ELSE <<>>) \o <<After(c)>>) \o t
        /\ UNCHANGED <<manager, task, good, astray>>
    BY <1>3 DEF DoCallback, Calls
  <2>. HIDE DEF c
  <2>4. job' \in [Jobs -> JobType]
    BY <1>t, <2>2, <2>3 DEF JobType, Status
  <2>5. Typed'
    BY <2>3, <2>4 DEF Typed, JobType, manager
  <2>6. FrameOK(After(c)) /\ After(c).op # "Run" /\ FrameOK(Done(j, c.res)) /\ Done(j, c.res).op # "Run"
    BY <2>1, <2>2, Made, MadeReport DEF FrameOK
  <2>7. Tame(<<After(c)>> \o t)
    BY <2>1, <2>6, Tameness
  <2>8. stack' = IF c.res # "ok" THEN <<Done(j, c.res)>> \o (<<After(c)>> \o t) ELSE <<After(c)>> \o t
    <3>1. t \in Seq(Frames) /\ Done(j, c.res) \in Frames /\ After(c) \in Frames
      BY <2>1, <2>6 DEF Tame, FrameOK
    <3>. HIDE DEF t
    <3>. QED BY <2>3, <3>1
  <2>. QED BY <2>5, <2>6, <2>7, <2>8, StackedBy
<1>. QED BY <1>1, <1>2, <1>3

LEMMA TaskStepTypes ==
  ASSUME Typed, Stacked
  PROVE  /\ DoAfter => Typed' /\ Stacked'
         /\ DoRun => Typed' /\ Stacked'
         /\ DoAbortResident => Typed' /\ Stacked'
<1>. DEFINE t == Tail(stack)
            c == Head(stack)
            j == c.j
<1>t. job \in [Jobs -> JobType]
  BY DEF Typed, JobType
<1>1. ASSUME DoAfter PROVE Typed' /\ Stacked'
  <2>. DEFINE was == c.i # Cur(j) /\ c.i \in Res(j)
              T(i) == IF was /\ i = Cur(j) /\ task[j][i] = "wait" /\ c.res = "ok" THEN "idle" ELSE task[j][i]
              g == IF c.res # "ok" THEN good[j]
                   ELSE good[j] \cup (IF c.stay THEN {} ELSE {c.i})
                                \cup (IF Is(j, Cur(j), "wait") THEN {Cur(j)} ELSE {})
  <2>1. stack # <<>> /\ Tame(t) /\ c \in Frames /\ c.op = "After" /\ FrameOK(c)
    BY <1>1, Tameness DEF DoAfter, AfterCallback, Top
  <2>2. c \in Reports /\ j \in Jobs
    BY <2>1, FrameKinds DEF Reports
  <2>3. /\ job' = [job EXCEPT ![j].resident = IF was THEN @ \ {c.i} ELSE @,
                              ![j].current = IF c.res = "ok" THEN @ + 1 ELSE @ + 0]
        /\ astray' = (astray \/ (was /\ c.res = "ok" /\ ~Is(j, Cur(j), "wait")))
        /\ task' = [task EXCEPT ![j] = [i \in Tasks(j) |-> T(i)]]
        /\ stack' = (IF c.res = "ok" THEN <<RunNext(j)>> ELSE <<>>) \o t
        /\ UNCHANGED <<manager, raised>>
    BY <1>1 DEF DoAfter, AfterCallback, Calls, Cur, Res
  <2>3a. good' = [good EXCEPT ![j] = g]
    BY <1>1 DEF DoAfter, AfterCallback, Cur
  <2>4. c.res = "ok" => c.i \in Tasks(j)
    BY <2>1 DEF FrameOK
  <2>5. g \subseteq Tasks(j)
    BY <2>2, <2>4 DEF Typed, Is
  <2>. HIDE DEF c, was, g
  <2>6. job' \in [Jobs -> JobType]
    <3>. DEFINE r == IF was THEN Res(j) \ {c.i} ELSE Res(j)
                n == IF c.res = "ok" THEN Cur(j) + 1 ELSE Cur(j) + 0
    <3>1. job' = [job EXCEPT ![j].resident = r, ![j].current = n]
      BY <2>3 DEF Res, Cur
    <3>2. r \in SUBSET Nat /\ n \in Nat \ {0}
      BY <1>t, <2>2 DEF Res, Cur, JobType
    <3>. HIDE DEF r, n
    <3>. QED BY <1>t, <2>2, <3>1, <3>2 DEF JobType
  <2>7. \A k \in Jobs : task'[k] \in [Tasks(k) -> {"idle", "running", "stuck", "wait"}] /\ DOMAIN task' = Jobs
    <3>1. \A i \in Tasks(j) : T(i) \in {"idle", "running", "stuck", "wait"}
      BY <2>2 DEF Typed
    <3>. HIDE DEF T
    <3>. QED BY <2>2, <2>3, <3>1 DEF Typed
  <2>7a. astray' \in BOOLEAN
    BY <2>3 DEF Typed
  <2>7b. DOMAIN good' = Jobs /\ \A k \in Jobs : good'[k] \subseteq Tasks(k)
    BY <2>2, <2>3a, <2>5 DEF Typed
  <2>7c. DOMAIN task' = Jobs
    BY <2>3 DEF Typed
  <2>8. Typed'
    BY <2>3, <2>6, <2>7, <2>7a, <2>7b, <2>7c DEF Typed, JobType, manager, Tasks
  <2>9. FrameOK(RunNext(j)) /\ RunNext(j).op # "Run" /\ <<>> \o t = t
    BY <2>1, <2>2, Made, Nothing DEF FrameOK, Tame
  <2>. QED BY <2>1, <2>3, <2>8, <2>9, StackedBy
<1>2. ASSUME DoRun PROVE Typed' /\ Stacked'
  <2>. DEFINE n == Cur(j)
  <2>1. stack # <<>> /\ Tame(t) /\ c \in Frames /\ c.op = "Run" /\ Cur(j) \in Tasks(j)
    BY <1>2, Tameness DEF DoRun, Top, Stacked
  <2>2. j \in Jobs /\ n \in Nat /\ n \in Tasks(j)
    BY <1>t, <2>1, FrameKinds DEF JobType, Cur
  <2>2a. /\ FrameOK(Callback(j, n, "failed", FALSE)) /\ Callback(j, n, "failed", FALSE).op = "Callback"
         /\ FrameOK(Callback(j, n, "ok", FALSE)) /\ Callback(j, n, "ok", FALSE).op = "Callback"
    BY <2>2, ReportsAtOnce
  <2>3. /\ \/ task' = [task EXCEPT ![j][n] = "wait"] /\ stack' = <<>> \o t
           \/ task' = [task EXCEPT ![j][n] = "running"] /\ stack' = <<>> \o t
           \/ task' = [task EXCEPT ![j][n] = "stuck"] /\ stack' = <<>> \o t
           \/ task' = task /\ stack' = <<Callback(j, n, "failed", FALSE)>> \o t
           \/ task' = task /\ stack' = <<Callback(j, n, "ok", FALSE)>> \o t
        /\ UNCHANGED <<manager, job, raised, good, astray>>
    BY <1>2 DEF DoRun, Calls, Cur
  <2>. HIDE DEF c, n
  <2>4. DOMAIN task' = Jobs /\ \A k \in Jobs : task'[k] \in [Tasks(k) -> {"idle", "running", "stuck", "wait"}]
    <3>1. CASE task' = task
      BY <3>1 DEF Typed
    <3>2. CASE \E s \in {"idle", "running", "stuck", "wait"} : task' = [task EXCEPT ![j][n] = s]
      BY <2>2, <3>2, TaskSet
    <3>. QED BY <2>3, <3>1, <3>2
  <2>5. Typed'
    BY <2>3, <2>4 DEF Typed, manager, Tasks
  <2>6. /\ FrameOK(Callback(j, n, "failed", FALSE)) /\ Callback(j, n, "failed", FALSE).op # "Run"
        /\ FrameOK(Callback(j, n, "ok", FALSE)) /\ Callback(j, n, "ok", FALSE).op # "Run"
        /\ <<>> \o t = t
    <3>2. <<>> \o t = t
      BY <2>1, Nothing DEF Tame
    <3>. QED BY <2>2a, <3>2
  <2>. QED BY <2>1, <2>3, <2>5, <2>6, StackedBy
<1>3. ASSUME DoAbortResident PROVE Typed' /\ Stacked'
  <2>1. stack # <<>> /\ Tame(t) /\ c \in Frames /\ c.op = "AbortResident"
    BY <1>3, Tameness DEF DoAbortResident, Top
  <2>2. j \in Jobs
    BY <2>1, FrameKinds
  <2>3. /\ \/ task' = task /\ stack' = <<>> \o t
           \/ \E i \in Res(j) : task' = AbortedTask(j, i) /\ stack' = AbortCalls(j, i) \o t
        /\ UNCHANGED <<manager, job, raised, good, astray>>
    BY <1>3 DEF DoAbortResident, Calls, Res
  <2>. HIDE DEF c
  <2>4. <<>> \o t = t
    BY <2>1, Nothing DEF Tame
  <2>5. CASE task' = task /\ stack' = <<>> \o t
    <3>1. Typed'
      BY <2>3, <2>5 DEF Typed, manager, Tasks
    <3>. QED BY <2>1, <2>4, <2>5, <3>1, StackedBy
  <2>6. ASSUME NEW i \in Res(j), task' = AbortedTask(j, i), stack' = AbortCalls(j, i) \o t
        PROVE  Typed' /\ Stacked'
    <3>1. i \in Nat
      BY <1>t, <2>2 DEF JobType, Res
    <3>2. DOMAIN task' = Jobs /\ \A k \in Jobs : task'[k] \in [Tasks(k) -> {"idle", "running", "stuck", "wait"}]
      <4>1. task' = task \/ task' = [task EXCEPT ![j][i] = "idle"]
        BY <2>6 DEF AbortedTask
      <4>2. CASE task' = task
        BY <4>2 DEF Typed
      <4>3. CASE task' = [task EXCEPT ![j][i] = "idle"]
        BY <2>2, <3>1, <4>3, TaskSet
      <4>. QED BY <4>1, <4>2, <4>3
    <3>3. Typed'
      BY <2>3, <3>2 DEF Typed, manager, Tasks
    <3>4. stack' = t \/ stack' = <<Callback(j, i, "failed", FALSE)>> \o t
      BY <2>4, <2>6 DEF AbortCalls
    <3>5. FrameOK(Callback(j, i, "failed", FALSE)) /\ Callback(j, i, "failed", FALSE).op # "Run"
      <4>1. "failed" \in Results /\ FALSE \in BOOLEAN
        BY DEF Results
      <4>. QED BY <2>2, <3>1, <4>1, Reporting
    <3>. QED BY <2>1, <3>3, <3>4, <3>5, StackedBy
  <2>. QED BY <2>3, <2>5, <2>6
<1>. QED BY <1>1, <1>2, <1>3

LEMMA WorldTypes ==
  ASSUME Typed, Stacked, NEW j \in Jobs
  PROVE  /\ \A i \in Tasks(j) : TaskEnds(j, i) => Typed' /\ Stacked'
         /\ \A i \in Tasks(j) : GoesResident(j, i) => Typed' /\ Stacked'
         /\ AbortRunning(j) => Typed' /\ Stacked'
         /\ AbortWaiting(j) => Typed' /\ Stacked'
<1>t. job \in [Jobs -> JobType]
  BY DEF Typed, JobType
<1>n. \A i \in Tasks(j) : i \in Nat
  BY Given
<1>r. "ok" \in Results /\ "failed" \in Results /\ FALSE \in BOOLEAN /\ TRUE \in BOOLEAN
  BY DEF Results
<1>1. ASSUME NEW i \in Tasks(j), TaskEnds(j, i) PROVE Typed' /\ Stacked'
  <2>1. PICK res \in Results : stack' = <<Callback(j, i, res, FALSE)>>
    BY <1>1 DEF TaskEnds, Outcomes, Results
  <2>2. task' = [task EXCEPT ![j][i] = "idle"] /\ UNCHANGED <<manager, job, raised, good, astray>>
    BY <1>1 DEF TaskEnds
  <2>3. DOMAIN task' = Jobs /\ \A k \in Jobs : task'[k] \in [Tasks(k) -> {"idle", "running", "stuck", "wait"}]
    BY <1>n, <2>2, TaskSet
  <2>4. Typed'
    BY <2>2, <2>3 DEF Typed, manager, Tasks
  <2>5. FrameOK(Callback(j, i, res, FALSE)) /\ Callback(j, i, res, FALSE).op # "Run"
    BY <1>n, <1>r, Reporting
  <2>6. stack' = <<Callback(j, i, res, FALSE)>> \o <<>>
    BY <2>1
  <2>. QED BY <2>4, <2>5, <2>6, Tameness, StackedBy
<1>2. ASSUME NEW i \in Tasks(j), GoesResident(j, i) PROVE Typed' /\ Stacked'
  <2>1. stack' = <<Callback(j, i, "ok", TRUE)>> \o <<>> /\ UNCHANGED <<manager, job, task, raised, good, astray>>
    BY <1>2 DEF GoesResident
  <2>2. Typed'
    BY <2>1 DEF Typed, manager, Tasks
  <2>3. FrameOK(Callback(j, i, "ok", TRUE)) /\ Callback(j, i, "ok", TRUE).op # "Run"
    BY <1>n, <1>r, Reporting
  <2>. QED BY <2>1, <2>2, <2>3, Tameness, StackedBy
<1>3. ASSUME AbortRunning(j) PROVE Typed' /\ Stacked'
  <2>. DEFINE i == Cur(j)
              a == AbortResident(j)
  <2>1. /\ \/ task' = task /\ stack' = <<a>>
           \/ i \in Tasks(j) /\ task' = AbortedTask(j, i) /\ stack' = Append(AbortCalls(j, i), a)
        /\ UNCHANGED <<manager, job, raised, good, astray>>
    BY <1>3 DEF AbortRunning, Cur
  <2>2. i \in Nat
    BY <1>t DEF JobType, Cur
  <2>3. DOMAIN task' = Jobs /\ \A k \in Jobs : task'[k] \in [Tasks(k) -> {"idle", "running", "stuck", "wait"}]
    <3>1. task' = task \/ task' = [task EXCEPT ![j][i] = "idle"]
      BY <2>1 DEF AbortedTask
    <3>2. CASE task' = task
      BY <3>2 DEF Typed
    <3>3. CASE task' = [task EXCEPT ![j][i] = "idle"]
      BY <2>2, <3>3, TaskSet
    <3>. QED BY <3>1, <3>2, <3>3
  <2>4. Typed'
    BY <2>1, <2>3 DEF Typed, manager, Tasks
  <2>5. FrameOK(a) /\ a.op # "Run"
    BY Made DEF FrameOK
  <2>6. FrameOK(Callback(j, i, "failed", FALSE)) /\ Callback(j, i, "failed", FALSE).op # "Run"
    BY <1>r, <2>2, Reporting
  <2>7. Tame(<<a>> \o <<>>)
    BY <2>5, Tameness
  <2>. HIDE DEF a, i
  <2>8. stack' = <<a>> \o <<>> \/ stack' = <<Callback(j, i, "failed", FALSE)>> \o (<<a>> \o <<>>)
    <3>1. AbortCalls(j, i) = <<>> \/ AbortCalls(j, i) = <<Callback(j, i, "failed", FALSE)>>
      BY DEF AbortCalls
    <3>2. Append(<<>>, a) = <<a>> /\ <<a>> = <<a>> \o <<>>
      OBVIOUS
    <3>3. \A x : Append(<<x>>, a) = <<x>> \o (<<a>> \o <<>>)
      OBVIOUS
    <3>. QED BY <2>1, <3>1, <3>2, <3>3
  <2>. QED BY <2>4, <2>5, <2>6, <2>7, <2>8, Tameness, StackedBy
<1>4. ASSUME AbortWaiting(j) PROVE Typed' /\ Stacked'
  <2>1. PICK n \in DOMAIN queue : Dequeue(j, Without(queue, n))
    BY <1>4 DEF AbortWaiting
  <2>2. queue' = Without(queue, n) /\ stack' = stack /\ stack = <<>>
        /\ job' = [job EXCEPT ![j].status = "removed"]
        /\ UNCHANGED <<active, failed, asked, task, raised, retries, good, astray>>
    BY <2>1 DEF Dequeue, Outside
  <2>3. queue' \in Seq(Jobs)
    BY <2>2, OneOut DEF Typed
  <2>4. job' \in [Jobs -> JobType]
    BY <1>t, <2>2 DEF JobType, Status
  <2>5. Typed'
    BY <2>2, <2>3, <2>4 DEF Typed, JobType
  <2>6. stack' = <<>>
    BY <2>2
  <2>. QED BY <2>5, <2>6, Tameness, StackedBy
<1>. QED BY <1>1, <1>2, <1>3, <1>4

-----------------------------------------------------------------------------
(* What stays as it was.                                                   *)

LEMMA View ==
  ASSUME Typed, NEW j \in Jobs
  PROVE  /\ Cur(j) \in Nat \ {0} /\ Res(j) \subseteq Nat /\ Live(j) \subseteq Tasks(j)
         /\ job[j].status \in Status /\ job[j].callback \in BOOLEAN /\ good[j] \subseteq Tasks(j)
         /\ Tasks(j) = 1 .. Len(Kinds[j]) /\ Len(Kinds[j]) \in Nat
         /\ \A i \in Tasks(j) : Kinds[j][i] \in TaskKinds
BY Given DEF Typed, Cur, Res, Live

LEMMA SameJob ==
  ASSUME NEW j, job'[j] = job[j], task'[j] = task[j], good'[j] = good[j]
  PROVE  /\ Cur(j)' = Cur(j) /\ Res(j)' = Res(j) /\ Live(j)' = Live(j)
         /\ Course(j) => Course(j)'
         /\ Still(j) => Still(j)'
         /\ asked' = asked => (Going(j) => Going(j)')
         /\ (j = active => j = active') => (Place(j) => Place(j)')
<1>1. Cur(j)' = Cur(j) /\ Res(j)' = Res(j) /\ Live(j)' = Live(j)
  BY DEF Cur, Res, Live, Tasks
<1>. QED BY <1>1 DEF Course, Still, Going, Place, Tasks

LEMMA SameRest ==
  ASSUME Typed, Rest, UNCHANGED <<active, asked>>,
         active # NoJob => job'[active] = job[active] /\ task'[active] = task[active]
                           /\ good'[active] = good[active]
  PROVE  Rest'
<1>1. CASE active = NoJob
  BY <1>1 DEF Rest
<1>2. CASE active # NoJob
  <2>. PICK j : j = active
    OBVIOUS
  <2>1. Course(j) /\ (Going(j) \/ (Still(j) /\ asked = <<j>>))
    BY <1>2 DEF Rest
  <2>2. Course(j)' /\ (Going(j)' \/ (Still(j)' /\ asked' = <<j>>))
    BY <1>2, <2>1, SameJob
  <2>. QED BY <1>2, <2>2 DEF Rest
<1>. QED BY <1>1, <1>2

LEMMA SameFirm ==
  ASSUME NEW f, Firm(f), job'[f.j].status = job[f.j].status,
         Res(f.j)' \subseteq Res(f.j), Res(f.j) \cap Live(f.j) \subseteq Live(f.j)'
  PROVE  Firm(f)'
BY DEF Firm

LEMMA FirmAside ==
  ASSUME NEW f, Firm(f), job'[f.j] = job[f.j], task'[f.j] = task[f.j]
  PROVE  Firm(f)'
<1>1. Res(f.j)' = Res(f.j) /\ Live(f.j)' = Live(f.j)
  BY DEF Res, Live, Tasks
<1>. QED BY <1>1 DEF Firm

(* A call that is to be made later is not about a job that goes on. *)
LEMMA NotFirm ==
  ASSUME NEW f, Firm(f)
  PROVE  job[f.j].status \in {"failed", "finished"}
BY DEF Firm

-----------------------------------------------------------------------------
(* The calls return to the one below, or one is made first.                *)

LEMMA Returns ==
  ASSUME NEW t \in Seq(Frames), stack' = t, Rest', \A f \in Rng(t) : Firm(f)'
  PROVE  Calling'
<1>1. CASE t = <<>>
  BY <1>1 DEF Calling
<1>2. CASE t # <<>>
  <2>. PICK x, r : x = Head(t) /\ r = Tail(t)
    OBVIOUS
  <2>1. x \in Rng(t) /\ \A f \in Rng(r) : f \in Rng(t)
    BY <1>2, Pop
  <2>2. Now(x)'
    <3>1. Firm(x)'
      BY <2>1
    <3>. QED BY <3>1 DEF Firm, Now
  <2>3. x.op # "Yes"
    BY <2>1 DEF Firm
  <2>4. Now(Head(stack))' /\ (\A f \in Rng(Tail(stack)) : Firm(f))' /\ (Head(stack).op # "Yes")'
    BY <2>1, <2>2, <2>3
  <2>. QED BY <1>2, <2>4 DEF Calling
<1>. QED BY <1>1, <1>2

LEMMA Makes ==
  ASSUME NEW t \in Seq(Frames), NEW x \in Frames, stack' = <<x>> \o t, Now(x)',
         \A f \in Rng(t) : Firm(f)', x.op = "Yes" => t = <<>>
  PROVE  Calling'
<1>. DEFINE p == <<x>> \o t
<1>1. p # <<>> /\ Head(p) = x /\ Tail(p) = t
  BY Push
<1>. HIDE DEF p
<1>2. stack' = p
  BY DEF p
<1>3. Now(Head(stack))' /\ (\A f \in Rng(Tail(stack)) : Firm(f))'
      /\ (Head(stack).op = "Yes" => Tail(stack) = <<>>)'
  BY <1>1, <1>2
<1>. QED BY <1>1, <1>2, <1>3 DEF Calling

LEMMA PushCall ==
  \A t \in Seq(Frames) : \A x \in Frames :
    /\ <<x>> \o t \in Seq(Frames) /\ Rng(<<x>> \o t) = {x} \cup Rng(t)
    /\ <<x>> \o t # <<>> /\ Head(<<x>> \o t) = x /\ Tail(<<x>> \o t) = t
BY Push

LEMMA Called ==
  ASSUME Stacked, Calling, stack # <<>>, NEW c, c = Head(stack), NEW t, t = Tail(stack)
  PROVE  /\ c \in Frames /\ FrameOK(c) /\ t \in Seq(Frames) /\ Now(c)
         /\ \A f \in Rng(t) : f \in Frames /\ f.op # "Run"
         /\ \A f \in Rng(t) : Firm(f) \/ (Aborting(f) /\ c.op = "Callback" /\ c.res = "failed")
         /\ c.op = "Yes" => t = <<>>
         /\ Tame(t) /\ <<>> \o t = t
BY Nothing DEF Stacked, Calling, Tame, FrameOK, Aborting

(* A step inside the active job: it alone changes, and goes on, fails or   *)
(* ends well.                                                              *)
LEMMA BooksInside ==
  ASSUME Typed, Books, NEW j \in Jobs, j = active, UNCHANGED <<queue, failed, active>>,
         job[j].status \in {"progress", "failed"}, job'[j].status \in {"progress", "failed", "finished"},
         job'[j].status = "finished" => good'[j] = Tasks(j),
         \A i \in Tasks(j) : task'[j][i] = "running" => Kinds[j][i] # "Wait",
         \A k \in Jobs \ {j} : job'[k] = job[k] /\ task'[k] = task[k] /\ good'[k] = good[k]
  PROVE  Books'
<1>1. \A k \in Jobs : Place(k)'
  <2>. TAKE k \in Jobs
  <2>1. CASE k = j
    BY <2>1 DEF Place, Tasks
  <2>2. CASE k # j
    BY <2>2, SameJob DEF Books
  <2>. QED BY <2>1, <2>2
<1>2. {k \in Jobs : job'[k].status = "waiting"} = {k \in Jobs : job[k].status = "waiting"}
  OBVIOUS
<1>3. {k \in Jobs : job'[k].status = "failed" /\ k # active'}
      = {k \in Jobs : job[k].status = "failed" /\ k # active}
  OBVIOUS
<1>4. Inj(queue)' /\ Inj(failed)' /\ Rng(queue)' = Rng(queue) /\ Rng(failed)' = Rng(failed)
  BY DEF Books, Inj, Rng
<1>. QED BY <1>1, <1>2, <1>3, <1>4 DEF Books

LEMMA BooksSame ==
  ASSUME Books, UNCHANGED <<queue, failed, active, job, task, good>>
  PROVE  Books'
BY DEF Books, Inj, Rng, Place, Live, Cur, Res, Tasks

-----------------------------------------------------------------------------
(* The manager's steps keep the books.                                     *)

LEMMA AddJobSane ==
  ASSUME Typed, Stacked, Sane, NEW j \in Jobs, AddJob(j)
  PROVE  Sane'
<1>1. /\ stack = <<>> /\ job[j].status = "new" /\ queue' = Append(queue, j)
      /\ job' = [job EXCEPT ![j].status = "waiting"] /\ stack' = <<Kick>>
      /\ UNCHANGED <<active, failed, asked, task, raised, retries, good, astray>>
  BY DEF AddJob, Outside
<1>2. /\ job'[j].status = "waiting" /\ Cur(j)' = Cur(j) /\ Res(j)' = Res(j) /\ Live(j)' = Live(j)
      /\ \A k \in Jobs \ {j} : job'[k] = job[k]
  BY <1>1 DEF Typed, Cur, Res, Live, Tasks
<1>3. Rest /\ Books /\ raised = FALSE
  BY <1>1 DEF Sane, Calling
<1>4. active # NoJob => active \in Jobs /\ job[active].status \in {"progress", "failed"}
  BY <1>3 DEF Rest, Course, Typed
<1>5. Rest'
  BY <1>1, <1>2, <1>3, <1>4, SameRest
<1>6. Calling'
  <2>1. Now(Kick)'
    BY <1>5, Made DEF Now
  <2>2. stack' = <<Kick>> \o <<>> /\ <<>> \in Seq(Frames) /\ Rng(<<>>) = {} /\ Kick \in Frames /\ Kick.op # "Yes"
    BY <1>1, Made, Nothing
  <2>3. \A f \in Rng(<<>>) : Firm(f)'
    BY <2>2
  <2>. PICK x : x = Kick
    OBVIOUS
  <2>4. stack' = <<x>> \o <<>> /\ x \in Frames /\ x.op # "Yes" /\ Now(x)'
    BY <2>1, <2>2
  <2>. QED BY <2>2, <2>3, <2>4, Makes
<1>7. Books'
  <2>1. Inj(queue') /\ Rng(queue') = Rng(queue) \cup {j}
    <3>1. queue \in Seq(Jobs) /\ Inj(queue) /\ j \notin Rng(queue)
      BY <1>1, <1>3 DEF Typed, Books
    <3>. QED BY <1>1, <3>1, Appended
  <2>2. Rng(queue') = {k \in Jobs : job'[k].status = "waiting"}
    BY <1>2, <1>3, <2>1 DEF Books
  <2>3. {k \in Jobs : job'[k].status = "failed" /\ k # active} = {k \in Jobs : job[k].status = "failed" /\ k # active}
    BY <1>1, <1>2
  <2>4. \A k \in Jobs : Place(k)'
    <3>. TAKE k \in Jobs
    <3>1. CASE k = j
      BY <1>1, <1>2, <1>3, <3>1 DEF Books, Place, Tasks
    <3>2. CASE k # j
      BY <1>1, <1>2, <1>3, <3>2, SameJob DEF Books
    <3>. QED BY <3>1, <3>2
  <2>. QED BY <1>1, <1>3, <2>1, <2>2, <2>3, <2>4 DEF Books
<1>. QED BY <1>1, <1>3, <1>6, <1>7 DEF Sane

LEMMA KickSane ==
  ASSUME Typed, Stacked, Sane, DoKick
  PROVE  Sane'
<1>. PICK c, t : c = Head(stack) /\ t = Tail(stack)
  OBVIOUS
<1>1. /\ stack # <<>> /\ c.op = "Kick" /\ UNCHANGED <<failed, asked, task, raised, retries, good, astray>>
      /\ Books /\ Calling /\ raised = FALSE
  BY DEF DoKick, KickIf, Top, Sane
<1>2. /\ t \in Seq(Frames) /\ Now(c) /\ \A f \in Rng(t) : f \in Frames /\ Firm(f)
      /\ <<>> \o t = t
  BY <1>1, Called
<1>3. Rest
  BY <1>1, <1>2 DEF Now
<1>4. CASE active = NoJob /\ queue # <<>>
  <2>. PICK j : j = Head(queue)
    OBVIOUS
  <2>1. /\ j \in Jobs /\ Rng(queue) = {j} \cup Rng(Tail(queue)) /\ Inj(Tail(queue)) /\ j \notin Rng(Tail(queue))
    <3>1. queue \in Seq(Jobs) /\ Inj(queue)
      BY <1>1 DEF Typed, Books
    <3>2. /\ j \in Jobs /\ Rng(queue) = {j} \cup Rng(Tail(queue))
          /\ DOMAIN queue = 1 .. Len(queue) /\ Len(queue) \in Nat \ {0} /\ j = queue[1]
          /\ DOMAIN Tail(queue) = 1 .. Len(queue) - 1
          /\ \A n \in 1 .. Len(queue) - 1 : Tail(queue)[n] = queue[n + 1]
      BY <1>4, <3>1, Pop
    <3>3. \A n \in DOMAIN Tail(queue) : n + 1 \in DOMAIN queue /\ n + 1 # 1 /\ Tail(queue)[n] = queue[n + 1]
      BY <3>2
    <3>4. j \notin Rng(Tail(queue))
      BY <3>1, <3>2, <3>3 DEF Rng, Inj
    <3>5. Inj(Tail(queue))
      <4>. SUFFICES ASSUME NEW m \in DOMAIN Tail(queue), NEW n \in DOMAIN Tail(queue),
                           Tail(queue)[m] = Tail(queue)[n]
                    PROVE  m = n
        BY DEF Inj
      <4>1. m + 1 = n + 1
        BY <3>1, <3>3 DEF Inj
      <4>. QED BY <3>2, <4>1
    <3>. QED BY <3>2, <3>4, <3>5
  <2>2. /\ active' = j /\ queue' = Tail(queue) /\ stack' = <<RunNext(j)>> \o t
        /\ job' = [job EXCEPT ![j].callback = TRUE, ![j].status = "progress"]
    BY <1>4 DEF DoKick, KickIf, Calls
  <2>3. /\ job'[j].status = "progress" /\ job'[j].callback = TRUE
        /\ Cur(j)' = Cur(j) /\ Res(j)' = Res(j) /\ Live(j)' = Live(j)
        /\ \A k \in Jobs \ {j} : job'[k] = job[k]
    BY <1>1, <2>1, <2>2 DEF Typed, Cur, Res, Live, Tasks
  <2>4. /\ job[j].status = "waiting" /\ Cur(j) = 1 /\ Res(j) = {} /\ Live(j) = {}
    <3>1. job[j].status = "waiting"
      BY <1>1, <2>1 DEF Books
    <3>. QED BY <1>1, <1>4, <2>1, <3>1, Given DEF Books, Place
  <2>5. asked = <<>>
    BY <1>3, <1>4 DEF Rest
  <2>6. Course(j)'
    <3>1. Cur(j)' = 1 /\ Res(j)' = {} /\ Live(j)' = {} /\ Len(Kinds[j]) \in Nat
          /\ \A i \in Tasks(j) : ~(i < 1)
      BY <2>1, <2>3, <2>4, Given
    <3>. QED BY <2>3, <3>1 DEF Course, Tasks
  <2>7. Going(j)' /\ (Cur(j) \notin Live(j))'
    BY <1>1, <2>3, <2>4, <2>5 DEF Going
  <2>. PICK x : x = RunNext(j)
    OBVIOUS
  <2>8. x \in Frames /\ x.op = "RunNext" /\ x.j = j
    BY <2>1, Made
  <2>9. Now(x)'
    BY <2>2, <2>6, <2>7, <2>8 DEF Now
  <2>10. \A f \in Rng(t) : Firm(f)'
    <3>. TAKE f \in Rng(t)
    <3>1. Firm(f) /\ f.j # j /\ f.j \in Jobs
      BY <1>2, <2>4 DEF Firm
    <3>. QED BY <1>1, <2>3, <3>1, FirmAside
  <2>11. Calling'
    BY <1>2, <2>2, <2>8, <2>9, <2>10, Makes
  <2>12. Books'
    <3>1. Rng(queue') = {k \in Jobs : job'[k].status = "waiting"}
      <4>1. Rng(queue') = Rng(queue) \ {j}
        BY <2>1, <2>2
      <4>2. Rng(queue) = {k \in Jobs : job[k].status = "waiting"}
        BY <1>1 DEF Books
      <4>. QED BY <2>3, <4>1, <4>2
    <3>2. {k \in Jobs : job'[k].status = "failed" /\ k # active'} = {k \in Jobs : job[k].status = "failed" /\ k # active}
      BY <1>4, <2>1, <2>2, <2>3, <2>4, Given
    <3>3. \A k \in Jobs : Place(k)'
      <4>. TAKE k \in Jobs
      <4>1. CASE k = j
        BY <1>1, <2>2, <2>3, <2>4, <4>1 DEF Books, Place, Tasks
      <4>2. CASE k # j
        BY <1>1, <1>4, <2>3, <4>2, SameJob, Given DEF Books
      <4>. QED BY <4>1, <4>2
    <3>. QED BY <1>1, <2>1, <2>2, <3>1, <3>2, <3>3 DEF Books
  <2>. QED BY <1>1, <2>11, <2>12 DEF Sane
<1>5. CASE ~(active = NoJob /\ queue # <<>>)
  <2>1. stack' = t /\ UNCHANGED <<active, queue, job>>
    BY <1>2, <1>5 DEF DoKick, KickIf, Calls
  <2>2. Rest'
    BY <1>1, <1>3, <2>1, SameRest
  <2>3. \A f \in Rng(t) : Firm(f)'
    BY <1>1, <1>2, <2>1, FirmAside
  <2>4. Books'
    BY <1>1, <2>1, BooksSame
  <2>. QED BY <1>1, <1>2, <2>1, <2>2, <2>3, <2>4, Returns DEF Sane
<1>. QED BY <1>4, <1>5

LEMMA DoneSane ==
  ASSUME Typed, Stacked, Sane, DoDone
  PROVE  Sane'
<1>. PICK c, t : c = Head(stack) /\ t = Tail(stack)
  OBVIOUS
<1>1. /\ stack # <<>> /\ c.op = "Done" /\ UNCHANGED <<queue, failed, job, task, raised, retries, good, astray>>
      /\ Books /\ Calling /\ raised = FALSE
  BY DEF DoDone, Report, Top, Sane
<1>2. /\ c \in Frames /\ t \in Seq(Frames) /\ Now(c) /\ \A f \in Rng(t) : f \in Frames /\ Firm(f)
      /\ <<>> \o t = t
  BY <1>1, Called
<1>. PICK j : j = c.j
  OBVIOUS
<1>3. /\ j \in Jobs /\ j = active /\ asked = <<>>
      /\ c.res = "ok" => job[j].status = "finished" /\ Live(j) = {}
      /\ c.res # "ok" => job[j].status = "failed" /\ Course(j)
      /\ c.res = "recoverable" => Still(j)
  BY <1>1, <1>2, FrameKinds DEF Now
<1>4. \A f \in Rng(t) : Firm(f)'
  BY <1>1, <1>2, FirmAside
<1>5. CASE c.res = "ok" /\ active' = NoJob /\ asked' = asked /\ stack' = <<Kick>> \o t
  <2>1. Rest'
    BY <1>3, <1>5 DEF Rest
  <2>. PICK x : x = Kick
    OBVIOUS
  <2>2. x \in Frames /\ x.op = "Kick"
    BY Made
  <2>3. Now(x)'
    BY <2>1, <2>2 DEF Now
  <2>4. Calling'
    BY <1>2, <1>4, <1>5, <2>2, <2>3, Makes
  <2>5. {k \in Jobs : job'[k].status = "failed" /\ k # active'} = {k \in Jobs : job[k].status = "failed" /\ k # active}
    BY <1>1, <1>3, <1>5, Given
  <2>6. \A k \in Jobs : Place(k)'
    BY <1>1, <1>3, <1>5 DEF Books, Place, Live, Cur, Res, Tasks
  <2>7. Books'
    BY <1>1, <2>5, <2>6 DEF Books
  <2>. QED BY <1>1, <2>4, <2>7 DEF Sane
<1>6. CASE c.res = "recoverable" /\ asked' = Append(asked, j) /\ stack' = t /\ active' = active
  <2>1. Rest'
    <3>1. Course(j)' /\ Still(j)'
      BY <1>1, <1>3, <1>6, SameJob
    <3>2. asked' = <<j>>
      BY <1>3, <1>6
    <3>. QED BY <1>3, <1>6, <3>1, <3>2, Given DEF Rest
  <2>2. Books'
    BY <1>1, <1>6, BooksSame
  <2>. QED BY <1>1, <1>2, <1>4, <1>6, <2>1, <2>2, Returns DEF Sane
<1>7. CASE c.res = "failed" /\ stack' = <<ErrorCB(FALSE)>> \o t /\ UNCHANGED <<active, asked>>
  <2>. PICK x : x = ErrorCB(FALSE)
    OBVIOUS
  <2>1. x \in Frames /\ x.op = "No"
    BY Made
  <2>2. Course(j)' /\ job'[j].status = "failed"
    BY <1>1, <1>3, <1>7, SameJob
  <2>3. Now(x)'
    BY <1>3, <1>7, <2>1, <2>2, Given DEF Now
  <2>4. Books'
    BY <1>1, <1>7, BooksSame
  <2>5. Calling'
    BY <1>2, <1>4, <1>7, <2>1, <2>3, Makes
  <2>. QED BY <1>1, <2>4, <2>5 DEF Sane
<1>8. \/ c.res = "ok" /\ active' = NoJob /\ asked' = asked /\ stack' = <<Kick>> \o t
      \/ c.res = "recoverable" /\ asked' = Append(asked, j) /\ stack' = t /\ active' = active
      \/ c.res = "failed" /\ stack' = <<ErrorCB(FALSE)>> \o t /\ UNCHANGED <<active, asked>>
  BY <1>2 DEF DoDone, Report, Calls
<1>. QED BY <1>5, <1>6, <1>7, <1>8

LEMMA GiveUpSane ==
  ASSUME Typed, Stacked, Sane, GiveUp, ~astray'
  PROVE  Sane'
<1>. PICK c, t : c = Head(stack) /\ t = Tail(stack)
  OBVIOUS
<1>1. /\ stack # <<>> /\ c.op = "No" /\ UNCHANGED <<queue, asked, job, task, raised, retries, good>>
      /\ failed' = Append(failed, active) /\ active' = NoJob /\ stack' = <<Kick>> \o t
      /\ ~(active # NoJob /\ Live(active) # {})
      /\ Books /\ Calling /\ raised = FALSE
  BY DEF GiveUp, Top, Calls, Sane
<1>2. /\ c \in Frames /\ t \in Seq(Frames) /\ Now(c) /\ \A f \in Rng(t) : f \in Frames /\ Firm(f)
  BY <1>1, Called
<1>3. active \in Jobs /\ asked = <<>> /\ job[active].status = "failed" /\ Live(active) = {}
  BY <1>1, <1>2 DEF Now, Typed
<1>4. Calling'
  <2>. PICK x : x = Kick
    OBVIOUS
  <2>1. x \in Frames /\ x.op = "Kick"
    BY Made
  <2>2. Now(x)'
    BY <1>1, <1>3, <2>1 DEF Now, Rest
  <2>3. \A f \in Rng(t) : Firm(f)'
    BY <1>1, <1>2, FirmAside
  <2>. QED BY <1>1, <1>2, <2>1, <2>2, <2>3, Makes
<1>5. Books'
  <2>1. Inj(failed') /\ Rng(failed') = Rng(failed) \cup {active}
    <3>1. failed \in Seq(Jobs \cup {NoJob}) /\ Inj(failed) /\ active \notin Rng(failed)
      BY <1>1, <1>3 DEF Typed, Books
    <3>. QED BY <1>1, <3>1, Appended
  <2>2. Rng(failed') = {k \in Jobs : job'[k].status = "failed" /\ k # active'}
    <3>1. Rng(failed) = {k \in Jobs : job[k].status = "failed" /\ k # active}
      BY <1>1 DEF Books
    <3>2. {k \in Jobs : job'[k].status = "failed" /\ k # active'} = {k \in Jobs : job[k].status = "failed"}
      BY <1>1, Given
    <3>. QED BY <1>3, <2>1, <3>1, <3>2
  <2>3. \A k \in Jobs : Place(k)'
    BY <1>1, <1>3 DEF Books, Place, Live, Cur, Res, Tasks
  <2>. QED BY <1>1, <2>1, <2>2, <2>3 DEF Books
<1>. QED BY <1>1, <1>4, <1>5 DEF Sane

LEMMA RetrySane ==
  ASSUME Typed, Stacked, Sane, Retry
  PROVE  Sane'
<1>. PICK c, t, j : c = Head(stack) /\ t = Tail(stack) /\ j = active
  OBVIOUS
<1>1. stack # <<>> /\ c.op = "Yes" /\ Books /\ Calling /\ raised = FALSE
  BY DEF Retry, Top, Sane
<1>2. Now(c) /\ t = <<>> /\ t \in Seq(Frames)
  BY <1>1, Called
<1>3. j \in Jobs /\ asked = <<>> /\ Course(j) /\ Still(j) /\ job[j].status = "failed"
  BY <1>1, <1>2 DEF Now, Typed
<1>4. /\ job' = [job EXCEPT ![j].status = "progress"] /\ stack' = <<RunNext(j)>> \o t
      /\ UNCHANGED <<queue, active, failed, asked, retries, task, raised, good, astray>>
  BY <1>3, Given DEF Retry, Calls, manager
<1>5. /\ job'[j].status = "progress" /\ job'[j].callback = job[j].callback
      /\ Cur(j)' = Cur(j) /\ Res(j)' = Res(j) /\ Live(j)' = Live(j) /\ \A k \in Jobs \ {j} : job'[k] = job[k]
  BY <1>3, <1>4 DEF Typed, Cur, Res, Live, Tasks
<1>6. Course(j)' /\ Going(j)' /\ (Cur(j) \notin Live(j))'
  BY <1>3, <1>4, <1>5 DEF Course, Going, Still, Tasks
<1>7. Calling'
  <2>. PICK x : x = RunNext(j)
    OBVIOUS
  <2>1. x \in Frames /\ x.op = "RunNext" /\ x.j = j
    BY <1>3, Made
  <2>2. Now(x)'
    BY <1>4, <1>6, <2>1 DEF Now
  <2>3. \A f \in Rng(t) : Firm(f)'
    BY <1>2, Nothing
  <2>. QED BY <1>2, <1>4, <2>1, <2>2, <2>3, Makes
<1>8. Books'
  BY <1>1, <1>3, <1>4, <1>5, BooksInside DEF Books, Place
<1>. QED BY <1>1, <1>4, <1>7, <1>8 DEF Sane

LEMMA AnswerSane ==
  ASSUME Typed, Stacked, Sane, NEW yes \in BOOLEAN, Answer(yes)
  PROVE  Sane'
<1>. PICK j : j = active
  OBVIOUS
<1>1. /\ stack = <<>> /\ asked # <<>> /\ asked' = Tail(asked) /\ stack' = <<ErrorCB(yes)>> \o <<>>
      /\ UNCHANGED <<queue, active, failed, job, task, raised, good, astray>>
      /\ Books /\ Rest /\ raised = FALSE
  BY DEF Answer, Outside, Sane, Calling
<1>2. j # NoJob /\ Course(j) /\ Still(j) /\ asked = <<j>>
  BY <1>1 DEF Rest, Going
<1>3. asked' = <<>> /\ Course(j)' /\ Still(j)'
  BY <1>1, <1>2, SameJob
<1>4. Calling'
  <2>. PICK x : x = ErrorCB(yes)
    OBVIOUS
  <2>1. x \in Frames /\ x.op \in {"Yes", "No"}
    BY Made
  <2>2. Now(x)'
    BY <1>1, <1>2, <1>3, <2>1 DEF Now, Still
  <2>3. <<>> \in Seq(Frames) /\ Rng(<<>>) = {}
    BY Nothing
  <2>4. \A f \in Rng(<<>>) : Firm(f)'
    BY <2>3
  <2>. QED BY <1>1, <2>1, <2>2, <2>3, <2>4, Makes
<1>5. Books'
  BY <1>1, BooksSame
<1>. QED BY <1>1, <1>4, <1>5 DEF Sane

LEMMA AbortWaitingSane ==
  ASSUME Typed, Stacked, Sane, NEW j \in Jobs, AbortWaiting(j)
  PROVE  Sane'
<1>. PICK n \in DOMAIN queue : queue[n] = j /\ Dequeue(j, Without(queue, n))
  BY DEF AbortWaiting
<1>1. /\ stack = <<>> /\ job[j].status = "waiting" /\ queue' = Without(queue, n)
      /\ job' = [job EXCEPT ![j].status = "removed"]
      /\ UNCHANGED <<active, failed, asked, task, stack, raised, retries, good, astray>>
      /\ Rest /\ Books /\ raised = FALSE
  BY DEF Dequeue, Outside, Sane, Calling
<1>2. /\ job'[j].status = "removed" /\ Cur(j)' = Cur(j) /\ Res(j)' = Res(j) /\ Live(j)' = Live(j)
      /\ \A k \in Jobs \ {j} : job'[k] = job[k]
  BY <1>1 DEF Typed, Cur, Res, Live, Tasks
<1>3. Calling'
  <2>1. active # NoJob => active \in Jobs /\ job[active].status \in {"progress", "failed"}
    BY <1>1 DEF Rest, Course, Typed
  <2>2. Rest'
    BY <1>1, <1>2, <2>1, SameRest
  <2>. QED BY <1>1, <2>2 DEF Calling
<1>4. Books'
  <2>1. Inj(queue') /\ Rng(queue') = Rng(queue) \ {j}
    BY <1>1, TakenOut DEF Typed, Books
  <2>2. Rng(queue') = {k \in Jobs : job'[k].status = "waiting"}
    <3>1. Rng(queue) = {k \in Jobs : job[k].status = "waiting"}
      BY <1>1 DEF Books
    <3>. QED BY <1>2, <2>1, <3>1
  <2>3. {k \in Jobs : job'[k].status = "failed" /\ k # active} = {k \in Jobs : job[k].status = "failed" /\ k # active}
    BY <1>1, <1>2
  <2>4. \A k \in Jobs : Place(k)'
    <3>. TAKE k \in Jobs
    <3>1. CASE k = j
      BY <1>1, <1>2, <3>1 DEF Books, Place, Tasks
    <3>2. CASE k # j
      BY <1>1, <1>2, <3>2, SameJob DEF Books
    <3>. QED BY <3>1, <3>2
  <2>. QED BY <1>1, <2>1, <2>2, <2>3, <2>4 DEF Books
<1>. QED BY <1>1, <1>3, <1>4 DEF Sane

-----------------------------------------------------------------------------
(* The steps of the active job and of its tasks.                           *)

(* Only the active job can be meant. *)
LEMMA FirmAway ==
  ASSUME NEW t, \A f \in Rng(t) : Firm(f), NEW j \in Jobs, job[j].status = "progress",
         \A k \in Jobs \ {j} : job'[k] = job[k] /\ task'[k] = task[k]
  PROVE  \A f \in Rng(t) : Firm(f)'
<1>. TAKE f \in Rng(t)
<1>1. Firm(f) /\ f.j \in Jobs /\ f.j # j
  BY DEF Firm
<1>. QED BY <1>1, FirmAside

LEMMA RunNextSane ==
  ASSUME Typed, Stacked, Sane, DoRunNext
  PROVE  Sane'
<1>. PICK c, t : c = Head(stack) /\ t = Tail(stack)
  OBVIOUS
<1>. PICK j : j = c.j
  OBVIOUS
<1>. DEFINE left == Len(Kinds[j]) + 1 - Cur(j)
            finished == left = 0 /\ Res(j) = {}
<1>1. /\ stack # <<>> /\ c.op = "RunNext" /\ UNCHANGED <<queue, active, failed, asked, task, retries, good, astray>>
      /\ Books /\ Calling /\ raised = FALSE
  BY DEF DoRunNext, Top, Sane, manager
<1>2. /\ c \in Frames /\ t \in Seq(Frames) /\ Now(c) /\ \A f \in Rng(t) : f \in Frames /\ Firm(f)
      /\ <<>> \o t = t
  BY <1>1, Called
<1>3. /\ j \in Jobs /\ j = active /\ Course(j) /\ Going(j) /\ Cur(j) \notin Live(j)
      /\ job[j].status = "progress" /\ asked = <<>> /\ job[j].callback
  BY <1>1, <1>2, FrameKinds DEF Now, Going, Course
<1>4. job' = [job EXCEPT ![j].status = IF finished THEN "finished" ELSE @]
  BY DEF DoRunNext, Cur, Res
<1>5. raised' = (left < 0 \/ (finished /\ ~job[j].callback))
  BY DEF DoRunNext, Cur, Res
<1>6. Calls(CASE left > 0 -> <<Run(j)>> [] finished -> <<Done(j, "ok"), Clear(j)>> [] OTHER -> <<>>)
  BY DEF DoRunNext, Cur, Res
<1>7. left >= 0 /\ (left > 0 => ~finished) /\ (left = 0 => Cur(j) = Len(Kinds[j]) + 1)
  <2>1. Cur(j) \in Nat /\ Len(Kinds[j]) \in Nat /\ Cur(j) <= Len(Kinds[j]) + 1
    BY <1>3, View DEF Course
  <2>. QED BY <2>1
<1>. HIDE DEF left, finished
<1>8. raised' = FALSE
  <2>1. ~(left < 0) /\ job[j].callback
    <3>1. left \in Int
      BY <1>3, View DEF left
    <3>. QED BY <1>3, <1>7, <3>1
  <2>. QED BY <1>5, <2>1, Zenon
<1>9. CASE ~finished
  <2>1. job' = job
    BY <1>3, <1>4, <1>9 DEF Typed
  <2>2. \A f \in Rng(t) : Firm(f)'
    BY <1>1, <1>2, <2>1, FirmAside
  <2>3. Books'
    BY <1>1, <2>1, BooksSame
  <2>4. Course(j)' /\ Going(j)' /\ (Cur(j) \notin Live(j))'
    BY <1>1, <1>3, <2>1, SameJob
  <2>5. CASE left > 0
    <3>1. stack' = <<Run(j)>> \o t
      BY <1>6, <1>9, <2>5 DEF Calls
    <3>. PICK x : x = Run(j)
      OBVIOUS
    <3>2. x \in Frames /\ x.op = "Run" /\ x.j = j
      BY <1>3, Made
    <3>3. Now(x)'
      BY <1>1, <1>3, <2>4, <3>2 DEF Now
    <3>4. Calling'
      BY <1>2, <2>2, <3>1, <3>2, <3>3, Makes
    <3>. QED BY <1>8, <2>3, <3>4 DEF Sane
  <2>6. CASE ~(left > 0)
    <3>1. stack' = t
      BY <1>2, <1>6, <1>9, <2>6 DEF Calls
    <3>2. Rest'
      BY <1>1, <1>3, <2>4, Given DEF Rest
    <3>. QED BY <1>2, <1>8, <2>2, <2>3, <3>1, <3>2, Returns DEF Sane
  <2>. QED BY <2>5, <2>6
<1>10. CASE finished
  <2>0. left = 0 /\ Res(j) = {} /\ ~(left > 0)
    BY <1>10 DEF finished
  <2>1. stack' = <<Done(j, "ok"), Clear(j)>> \o t
    BY <1>6, <1>10, <2>0 DEF Calls
  <2>2. /\ job'[j].status = "finished" /\ Res(j)' = Res(j) /\ Live(j)' = Live(j)
        /\ \A k \in Jobs \ {j} : job'[k] = job[k]
    BY <1>1, <1>3, <1>4, <1>10 DEF Typed, Res, Live, Tasks
  <2>3. Live(j) = {}
    BY <1>3, <2>0 DEF Course
  <2>4. good[j] = Tasks(j)
    <3>1. \A i \in Tasks(j) : i < Cur(j)
      BY <1>3, <1>7, <2>0, View
    <3>. QED BY <1>3, <2>0, <3>1, View DEF Course
  <2>. PICK x, y : x = Done(j, "ok") /\ y = Clear(j)
    OBVIOUS
  <2>5. x \in Frames /\ x.op = "Done" /\ x.j = j /\ x.res = "ok" /\ y \in Frames /\ y.op = "Clear" /\ y.j = j
    <3>1. "ok" \in Results
      BY DEF Results
    <3>. QED BY <1>3, <3>1, Made
  <2>6. stack' = <<x>> \o (<<y>> \o t) /\ <<y>> \o t \in Seq(Frames) /\ Rng(<<y>> \o t) = {y} \cup Rng(t)
    <3>1. stack' = <<x, y>> \o t
      BY <2>1
    <3>2. <<x, y>> \o t = <<x>> \o (<<y>> \o t)
      BY <1>2, <2>5
    <3>3. <<y>> \o t \in Seq(Frames) /\ Rng(<<y>> \o t) = {y} \cup Rng(t)
      BY <1>2, <2>5, PushCall
    <3>. QED BY <3>1, <3>2, <3>3
  <2>7. Now(x)'
    BY <1>1, <1>3, <2>2, <2>3, <2>5 DEF Now
  <2>8. \A f \in Rng(<<y>> \o t) : Firm(f)'
    <3>1. \A f \in Rng(t) : Firm(f)'
      BY <1>1, <1>2, <1>3, <2>2, FirmAway
    <3>2. Firm(y)'
      BY <1>3, <2>2, <2>5 DEF Firm
    <3>. QED BY <2>6, <3>1, <3>2
  <2>9. Calling'
    <3>. PICK r : r = <<y>> \o t
      OBVIOUS
    <3>. QED BY <2>5, <2>6, <2>7, <2>8, Makes
  <2>10. \A i \in Tasks(j) : task'[j][i] = "running" => Kinds[j][i] # "Wait"
    BY <1>1, <1>3 DEF Books, Place
  <2>11. Books'
    BY <1>1, <1>3, <2>2, <2>4, <2>10, BooksInside
  <2>. QED BY <1>8, <2>9, <2>11 DEF Sane
<1>. QED BY <1>9, <1>10

LEMMA ClearSane ==
  ASSUME Typed, Stacked, Sane, DoClear
  PROVE  Sane'
<1>. PICK c, t : c = Head(stack) /\ t = Tail(stack)
  OBVIOUS
<1>. PICK j : j = c.j
  OBVIOUS
<1>1. /\ stack # <<>> /\ c.op = "Clear" /\ job' = [job EXCEPT ![j].callback = FALSE] /\ stack' = <<>> \o t
      /\ UNCHANGED <<queue, active, failed, asked, retries, task, raised, good, astray>>
      /\ Books /\ Calling /\ raised = FALSE
  BY DEF DoClear, Top, Calls, Sane, manager
<1>2. /\ c \in Frames /\ t \in Seq(Frames) /\ Now(c) /\ \A f \in Rng(t) : f \in Frames /\ Firm(f)
      /\ <<>> \o t = t
  BY <1>1, Called
<1>3. j \in Jobs /\ job[j].status = "finished" /\ Rest
  BY <1>1, <1>2 DEF Now
<1>4. /\ \A k \in Jobs : /\ job'[k].status = job[k].status /\ Cur(k)' = Cur(k) /\ Res(k)' = Res(k)
                         /\ Live(k)' = Live(k)
      /\ \A k \in Jobs \ {j} : job'[k] = job[k]
  BY <1>1, <1>3 DEF Typed, Cur, Res, Live, Tasks
<1>5. Rest'
  <2>1. active # NoJob => active \in Jobs /\ active # j
    BY <1>3 DEF Rest, Course, Typed
  <2>. QED BY <1>1, <1>3, <1>4, <2>1, SameRest
<1>6. \A f \in Rng(t) : Firm(f)'
  BY <1>2, <1>4 DEF Firm
<1>7. Books'
  <2>1. \A k \in Jobs : Place(k)'
    BY <1>1, <1>4 DEF Books, Place, Tasks
  <2>2. {k \in Jobs : job'[k].status = "waiting"} = {k \in Jobs : job[k].status = "waiting"}
    BY <1>4
  <2>3. {k \in Jobs : job'[k].status = "failed" /\ k # active} = {k \in Jobs : job[k].status = "failed" /\ k # active}
    BY <1>4
  <2>. QED BY <1>1, <2>1, <2>2, <2>3 DEF Books
<1>. QED BY <1>1, <1>2, <1>5, <1>6, <1>7, Returns DEF Sane

(* A failure that the user is asked about leaves nothing of the job: the   *)
(* job has waited for its resident task before it burns.                   *)
LEMMA WaitedBeforeBurn ==
  ASSUME Typed, NEW j \in Jobs, Course(j), Cur(j) \in Tasks(j), Kinds[j][Cur(j)] = "Burn", Cur(j) \notin Live(j)
  PROVE  Res(j) = {} /\ Live(j) = {}
<1>1. ASSUME NEW i \in Res(j) PROVE FALSE
  <2>1. i \in Tasks(j) /\ Kinds[j][i] = "Author" /\ i <= Cur(j)
        /\ \A w \in Tasks(j) : i < w /\ w < Cur(j) => Kinds[j][w] # "Wait"
    BY <1>1 DEF Course
  <2>2. i < Cur(j)
    BY <2>1, View
  <2>3. \E w \in DOMAIN Kinds[j] : i < w /\ w < Cur(j) /\ Kinds[j][w] = "Wait"
    BY <2>1, <2>2, JobAssumption DEF Tasks
  <2>. QED BY <2>1, <2>3 DEF Tasks
<1>. QED BY <1>1 DEF Course

LEMMA CallbackSane ==
  ASSUME Typed, Stacked, Sane, DoCallback
  PROVE  Sane'
<1>. PICK c, t : c = Head(stack) /\ t = Tail(stack)
  OBVIOUS
<1>. PICK j : j = c.j
  OBVIOUS
<1>. PICK a : a = After(c)
  OBVIOUS
<1>1. /\ stack # <<>> /\ c.op = "Callback" /\ UNCHANGED <<queue, active, failed, asked, retries, task, good, astray>>
      /\ Books /\ Calling /\ raised = FALSE
      /\ job' = [job EXCEPT ![j].resident = IF c.stay THEN @ \cup {Cur(j)} ELSE @,
                            ![j].status = IF c.res # "ok" THEN "failed" ELSE @]
      /\ stack' = ((IF c.res # "ok" THEN <<Done(j, c.res)>> ELSE <<>>) \o <<a>>) \o t
  BY DEF DoCallback, Top, Calls, Sane, manager, Cur
<1>2. /\ c \in Frames /\ FrameOK(c) /\ t \in Seq(Frames) /\ Now(c) /\ \A f \in Rng(t) : f \in Frames
      /\ \A f \in Rng(t) : Firm(f) \/ (Aborting(f) /\ c.res = "failed")
  BY <1>1, Called
<1>3. /\ c \in Reports /\ j \in Jobs /\ c.res \in Results /\ c.stay \in BOOLEAN
  BY <1>1, <1>2, FrameKinds DEF Reports
<1>4. a \in Frames /\ a.op = "After" /\ a.j = j /\ a.i = c.i /\ a.res = c.res /\ a.stay = c.stay
  BY <1>3, MadeReport
<1>5. /\ Reported(c) /\ Cur(j) \notin Res(j) /\ j = active /\ Course(j) /\ job[j].status = "progress" /\ asked = <<>>
      /\ job[j].callback = TRUE
  <2>1. Reported(c) /\ Cur(j) \notin Res(j)
    BY <1>1, <1>2 DEF Now
  <2>2. j = active /\ Course(j) /\ job[j].status = "progress" /\ asked = <<>>
    BY <2>1 DEF Reported
  <2>3. job[j].callback = TRUE
    BY <1>3, <2>2, View DEF Course
  <2>. QED BY <2>1, <2>2, <2>3
<1>6. raised' = FALSE
  <2>1. raised' = (c.res # "ok" /\ ~job[j].callback)
    BY DEF DoCallback
  <2>. QED BY <1>5, <2>1, Zenon
<1>7. /\ job'[j].status = IF c.res # "ok" THEN "failed" ELSE "progress"
      /\ Res(j)' = IF c.stay THEN Res(j) \cup {Cur(j)} ELSE Res(j)
      /\ Cur(j)' = Cur(j) /\ Live(j)' = Live(j) /\ job'[j].callback = job[j].callback
      /\ \A k \in Jobs \ {j} : job'[k] = job[k]
  <2>. DEFINE r == IF c.stay THEN Res(j) \cup {Cur(j)} ELSE Res(j)
              s == IF c.res # "ok" THEN "failed" ELSE "progress"
  <2>1. job' = [job EXCEPT ![j].resident = r, ![j].status = s]
    BY <1>1, <1>3, <1>5 DEF Res
  <2>. HIDE DEF r, s
  <2>2. job'[j].status = s /\ job'[j].resident = r /\ job'[j].current = job[j].current
        /\ job'[j].callback = job[j].callback /\ \A k \in Jobs \ {j} : job'[k] = job[k]
    BY <1>3, <2>1 DEF Typed
  <2>3. Live(j)' = Live(j)
    BY <1>1 DEF Live, Tasks
  <2>. QED BY <2>2, <2>3 DEF r, s, Res, Cur
<1>8. Books'
  <2>1. \A i \in Tasks(j) : task'[j][i] = "running" => Kinds[j][i] # "Wait"
    BY <1>1, <1>3 DEF Books, Place
  <2>2. /\ job'[j].status \in {"progress", "failed"} /\ job[j].status \in {"progress", "failed"}
        /\ job'[j].status # "finished"
    BY <1>5, <1>7
  <2>. QED BY <1>1, <1>3, <1>5, <1>7, <2>1, <2>2, BooksInside
<1>9. CASE c.res = "ok"
  <2>1. \A f \in Rng(t) : Firm(f)
    BY <1>2, <1>9
  <2>2. \A f \in Rng(t) : Firm(f)'
    BY <1>1, <1>3, <1>5, <1>7, <2>1, FirmAway
  <2>3. stack' = <<a>> \o t
    BY <1>1, <1>2, <1>4, <1>9, Nothing
  <2>4. Course(j)'
    <3>1. Live(j)' \subseteq Res(j)' \cup {Cur(j)'} /\ \A i \in Tasks(j) : i < Cur(j) => i \in good'[j] \cup Res(j)'
      BY <1>1, <1>5, <1>7 DEF Course
    <3>2. ASSUME NEW i \in Res(j)'
          PROVE  /\ i \in Tasks(j) /\ Kinds[j][i] = "Author" /\ i <= Cur(j)
                 /\ \A w \in Tasks(j) : i < w /\ w < Cur(j) => Kinds[j][w] # "Wait"
      <4>1. CASE i \in Res(j)
        BY <1>5, <4>1 DEF Course
      <4>2. CASE i \notin Res(j)
        <5>1. c.stay /\ i = Cur(j) /\ c.i = Cur(j)
          BY <1>5, <1>7, <3>2, <4>2 DEF Reported
        <5>2. i \in Tasks(j) /\ Kinds[j][i] = "Author"
          BY <1>1, <1>2, <1>5, <1>9, <5>1 DEF FrameOK, Reported
        <5>3. \A w \in Tasks(j) : ~(Cur(j) < w /\ w < Cur(j)) /\ Cur(j) <= Cur(j)
          BY <1>3, View
        <5>. QED BY <5>1, <5>2, <5>3
      <4>. QED BY <4>1, <4>2
    <3>3. job'[j].status = "progress" /\ job'[j].callback /\ Cur(j)' <= Len(Kinds[j]) + 1
      BY <1>5, <1>7, <1>9 DEF Course
    <3>4. \A i \in Res(j)' : /\ i \in Tasks(j)' /\ Kinds[j][i] = "Author" /\ i <= Cur(j)'
                             /\ \A w \in Tasks(j)' : i < w /\ w < Cur(j)' => Kinds[j][w] # "Wait"
      BY <1>7, <3>2 DEF Tasks
    <3>. QED BY <1>7, <3>1, <3>3, <3>4 DEF Course, Tasks
  <2>5. Reported(a)'
    <3>1. asked' = <<>> /\ active' = j /\ job'[j].status = "progress"
      BY <1>1, <1>5, <1>7, <1>9
    <3>2. /\ Res(j) \ {c.i} \subseteq Live(j) /\ (c.i = Cur(j) \/ c.i \in Res(j))
          /\ c.stay => c.i = Cur(j) /\ Kinds[j][c.i] = "Author" /\ c.i \in Live(j)
          /\ ~c.stay => c.i \notin Live(j)
          /\ Kinds[j][c.i] # "Wait"
      BY <1>5, <1>9 DEF Reported
    <3>3. Res(j)' \ {c.i} \subseteq Live(j)' /\ (c.i = Cur(j)' \/ c.i \in Res(j)')
      BY <1>7, <3>2
    <3>4. /\ a.stay => a.i = Cur(j)' /\ Kinds[j][a.i] = "Author" /\ a.i \in Live(j)'
          /\ ~a.stay => a.i \notin Live(j)'
          /\ Kinds[j][a.i] # "Wait" /\ a.res = "ok"
      BY <1>4, <1>7, <1>9, <3>2
    <3>. QED BY <1>4, <2>4, <3>1, <3>3, <3>4 DEF Reported, Tasks
  <2>6. Now(a)'
    <3>1. (Cur(j) \in Res(j) <=> a.stay)'
      BY <1>4, <1>5, <1>7
    <3>. QED BY <1>4, <1>9, <2>5, <3>1 DEF Now
  <2>7. Calling'
    BY <1>2, <1>4, <2>2, <2>3, <2>6, Makes
  <2>. QED BY <1>6, <1>8, <2>7 DEF Sane
<1>10. CASE c.res # "ok"
  <2>0. ~c.stay /\ Res(j)' = Res(j) /\ job'[j].status = "failed" /\ c.i \notin Live(j)
    BY <1>5, <1>7, <1>10 DEF Reported
  <2>. PICK x : x = Done(j, c.res)
    OBVIOUS
  <2>1. x \in Frames /\ x.op = "Done" /\ x.j = j /\ x.res = c.res
    BY <1>3, Made
  <2>2. stack' = <<x>> \o (<<a>> \o t) /\ <<a>> \o t \in Seq(Frames) /\ Rng(<<a>> \o t) = {a} \cup Rng(t)
    <3>1. stack' = (<<x>> \o <<a>>) \o t
      BY <1>1, <1>10
    <3>2. (<<x>> \o <<a>>) \o t = <<x>> \o (<<a>> \o t)
      BY <1>2, <1>4, <2>1
    <3>3. <<a>> \o t \in Seq(Frames) /\ Rng(<<a>> \o t) = {a} \cup Rng(t)
      BY <1>2, <1>4, PushCall
    <3>. QED BY <3>1, <3>2, <3>3
  <2>3. Course(j)'
    <3>1. /\ job'[j].status = "failed" /\ job'[j].callback = TRUE /\ good'[j] = good[j]
          /\ Cur(j)' = Cur(j) /\ Res(j)' = Res(j) /\ Live(j)' = Live(j)
      BY <1>1, <1>5, <1>7, <2>0
    <3>. QED BY <1>5, <3>1 DEF Course, Tasks
  <2>4. c.res = "recoverable" => Still(j)'
    <3>1. c.res = "recoverable" => /\ Cur(j) \in Tasks(j) /\ Kinds[j][Cur(j)] = "Burn" /\ Cur(j) \notin Live(j)
      BY <1>5, <2>0 DEF Reported
    <3>2. c.res = "recoverable" => Res(j) = {} /\ Live(j) = {}
      BY <1>3, <1>5, <3>1, WaitedBeforeBurn
    <3>. QED BY <1>7, <2>0, <3>2 DEF Still
  <2>5. Now(x)'
    BY <1>1, <1>5, <1>10, <2>0, <2>1, <2>3, <2>4 DEF Now
  <2>6. Firm(a)'
    BY <1>3, <1>4, <1>10, <2>0 DEF Firm
  <2>7. ASSUME NEW f \in Rng(t) PROVE Firm(f)'
    <3>1. CASE Firm(f)
      <4>1. f.j \in Jobs \ {j}
        BY <1>5, <3>1 DEF Firm
      <4>. QED BY <1>1, <1>7, <3>1, <4>1, FirmAside
    <3>2. CASE Aborting(f)
      BY <1>3, <1>5, <1>7, <2>0, <3>2 DEF Aborting, Firm
    <3>. QED BY <1>2, <3>1, <3>2
  <2>8. Calling'
    <3>. PICK r : r = <<a>> \o t
      OBVIOUS
    <3>1. \A f \in Rng(r) : Firm(f)'
      BY <2>2, <2>6, <2>7
    <3>. QED BY <2>1, <2>2, <2>5, <3>1, Makes
  <2>. QED BY <1>6, <1>8, <2>8 DEF Sane
<1>. QED BY <1>9, <1>10

(* A job has one task that goes resident at most. *)
LEMMA OneAuthor ==
  ASSUME NEW j \in Jobs, NEW a \in Tasks(j), NEW b \in Tasks(j),
         Kinds[j][a] = "Author", Kinds[j][b] = "Author"
  PROVE  a = b
<1>. DEFINE S == {i \in Tasks(j) : Kinds[j][i] = "Author"}
<1>1. IsFiniteSet(S) /\ Cardinality(S) \in Nat /\ Cardinality(S) <= 1
  <2>1. Tasks(j) = 1 .. Len(Kinds[j]) /\ Len(Kinds[j]) \in Nat
    BY Given
  <2>2. IsFiniteSet(Tasks(j))
    BY <2>1, FS_Interval
  <2>3. IsFiniteSet(S)
    BY <2>2, FS_Subset
  <2>4. Cardinality(S) <= 1
    BY JobAssumption DEF Tasks
  <2>. QED BY <2>3, <2>4, FS_CardinalityType
<1>2. SUFFICES ASSUME a # b PROVE FALSE
  OBVIOUS
<1>3. a \in S /\ b \in S
  OBVIOUS
<1>. HIDE DEF S
<1>4. IsFiniteSet(S \ {a}) /\ Cardinality(S \ {a}) = Cardinality(S) - 1
  BY <1>1, <1>3, FS_RemoveElement
<1>5. b \in S \ {a}
  BY <1>2, <1>3
<1>6. Cardinality(S \ {a}) \in Nat /\ Cardinality(S \ {a}) # 0
  BY <1>4, <1>5, FS_CardinalityType, FS_EmptySet
<1>. QED BY <1>1, <1>4, <1>6

LEMMA AfterFailureSane ==
  ASSUME Typed, Stacked, Sane, DoAfter, Head(stack).res # "ok"
  PROVE  Sane'
<1>. PICK c, t : c = Head(stack) /\ t = Tail(stack)
  OBVIOUS
<1>. PICK j : j = c.j
  OBVIOUS
<1>. DEFINE r == IF c.i # Cur(j) /\ c.i \in Res(j) THEN Res(j) \ {c.i} ELSE Res(j)
<1>1. /\ stack # <<>> /\ c.op = "After" /\ UNCHANGED <<queue, active, failed, asked, retries, raised>>
      /\ Books /\ Calling /\ raised = FALSE
  BY DEF DoAfter, AfterCallback, Top, Sane, manager
<1>2. /\ c \in Frames /\ t \in Seq(Frames) /\ Now(c) /\ \A f \in Rng(t) : f \in Frames /\ Firm(f)
      /\ <<>> \o t = t
  BY <1>1, Called
<1>3. j \in Jobs /\ job[j].status = "failed" /\ Rest
  BY <1>1, <1>2, FrameKinds DEF Now, Reports
<1>4. stack' = t
  BY <1>2 DEF DoAfter, AfterCallback, Calls
<1>5. \A k \in Jobs : task'[k] = task[k]
  <2>1. task' = [task EXCEPT ![j] = [i \in Tasks(j) |-> task[j][i]]]
    BY DEF DoAfter, AfterCallback
  <2>2. task[j] = [i \in Tasks(j) |-> task[j][i]]
    BY <1>3 DEF Typed
  <2>. QED BY <1>3, <2>1, <2>2 DEF Typed
<1>6. \A k \in Jobs : good'[k] = good[k]
  <2>1. good' = [good EXCEPT ![j] = good[j]]
    BY DEF DoAfter, AfterCallback
  <2>. QED BY <1>3, <2>1 DEF Typed
<1>7. /\ job'[j].status = "failed" /\ Cur(j)' = Cur(j) /\ Res(j)' = r /\ Live(j)' = Live(j)
      /\ job'[j].callback = job[j].callback
      /\ \A k \in Jobs \ {j} : job'[k] = job[k]
  <2>1. job' = [job EXCEPT ![j].resident = r, ![j].current = Cur(j) + 0]
    BY DEF DoAfter, AfterCallback, Cur, Res
  <2>2. Cur(j) + 0 = Cur(j)
    BY <1>3, View
  <2>. HIDE DEF r
  <2>3. /\ job'[j].status = job[j].status /\ job'[j].current = Cur(j) /\ job'[j].resident = r
        /\ job'[j].callback = job[j].callback
        /\ \A k \in Jobs \ {j} : job'[k] = job[k]
    BY <1>3, <2>1, <2>2 DEF Typed
  <2>. QED BY <1>3, <1>5, <2>3 DEF Cur, Res, Live, Tasks
<1>8. Rest'
  <2>1. CASE j = active
    <3>1. Still(j) /\ Course(j) /\ asked = <<j>>
      BY <1>3, <2>1, Given DEF Rest, Going
    <3>2. Res(j)' = {} /\ Res(j) = {} /\ Live(j) = {}
      BY <1>7, <3>1 DEF Still
    <3>3. Still(j)'
      BY <1>7, <3>2 DEF Still
    <3>4. Course(j)'
      BY <1>3, <1>6, <1>7, <3>1, <3>2 DEF Course, Tasks
    <3>. QED BY <1>1, <1>3, <2>1, <3>1, <3>3, <3>4, Given DEF Rest
  <2>2. CASE j # active
    <3>1. active # NoJob => active \in Jobs
      BY DEF Typed
    <3>. QED BY <1>1, <1>3, <1>5, <1>6, <1>7, <2>2, <3>1, SameRest
  <2>. QED BY <2>1, <2>2
<1>9. ASSUME NEW f \in Rng(t) PROVE Firm(f)'
  <2>1. CASE f.j = j
    <3>1. Firm(f) /\ Res(j)' \subseteq Res(j) /\ Live(j)' = Live(j) /\ job'[j].status = job[j].status
      BY <1>2, <1>3, <1>7
    <3>. QED BY <2>1, <3>1 DEF Firm
  <2>2. CASE f.j # j
    <3>1. Firm(f) /\ f.j \in Jobs \ {j}
      BY <1>2, <2>2 DEF Firm
    <3>. QED BY <1>5, <1>7, <3>1, FirmAside
  <2>. QED BY <2>1, <2>2
<1>10. Books'
  <2>1. \A k \in Jobs : Place(k)'
    <3>. TAKE k \in Jobs
    <3>1. CASE k = j
      BY <1>1, <1>3, <1>5, <1>7, <3>1 DEF Books, Place, Tasks
    <3>2. CASE k # j
      BY <1>1, <1>5, <1>6, <1>7, <3>2, SameJob DEF Books
    <3>. QED BY <3>1, <3>2
  <2>2. {k \in Jobs : job'[k].status = "waiting"} = {k \in Jobs : job[k].status = "waiting"}
    BY <1>3, <1>7
  <2>3. {k \in Jobs : job'[k].status = "failed" /\ k # active} = {k \in Jobs : job[k].status = "failed" /\ k # active}
    BY <1>3, <1>7
  <2>. QED BY <1>1, <2>1, <2>2, <2>3 DEF Books
<1>. QED BY <1>1, <1>2, <1>4, <1>8, <1>9, <1>10, Returns DEF Sane

LEMMA AfterSuccessSane ==
  ASSUME Typed, Stacked, Sane, DoAfter, Head(stack).res = "ok", ~astray'
  PROVE  Sane'
<1>. PICK c, t : c = Head(stack) /\ t = Tail(stack)
  OBVIOUS
<1>. PICK j, n : j = c.j /\ n = Cur(j)
  OBVIOUS
<1>. DEFINE was == c.i # n /\ c.i \in Res(j)
            r == IF was THEN Res(j) \ {c.i} ELSE Res(j)
            g == good[j] \cup (IF c.stay THEN {} ELSE {c.i}) \cup (IF Is(j, n, "wait") THEN {n} ELSE {})
            T(i) == IF was /\ i = n /\ task[j][i] = "wait" THEN "idle" ELSE task[j][i]
<1>1. /\ stack # <<>> /\ c.op = "After" /\ UNCHANGED <<queue, active, failed, asked, retries, raised>>
      /\ Books /\ Calling /\ raised = FALSE
  BY DEF DoAfter, AfterCallback, Top, Sane, manager
<1>2. /\ c \in Frames /\ FrameOK(c) /\ t \in Seq(Frames) /\ Now(c) /\ \A f \in Rng(t) : f \in Frames /\ Firm(f)
  BY <1>1, Called
<1>3. /\ j \in Jobs /\ c.i \in Tasks(j) /\ c.stay \in BOOLEAN /\ c.res = "ok"
  BY <1>1, <1>2, FrameKinds DEF FrameOK, Reports
<1>4. /\ j = active /\ Course(j) /\ job[j].status = "progress" /\ job[j].callback /\ asked = <<>>
      /\ Res(j) \ {c.i} \subseteq Live(j) /\ (c.i = n \/ c.i \in Res(j))
      /\ c.stay => c.i = n /\ Kinds[j][c.i] = "Author" /\ c.i \in Live(j)
      /\ ~c.stay => c.i \notin Live(j)
      /\ Kinds[j][c.i] # "Wait"
      /\ n \in Res(j) <=> c.stay
  BY <1>1, <1>2, <1>3 DEF Now, Reported, Course
<1>5. stack' = <<RunNext(j)>> \o t
  BY <1>3 DEF DoAfter, AfterCallback, Calls
<1>6. ~(was /\ ~Is(j, n, "wait"))
  BY DEF DoAfter, AfterCallback, Cur, Res
<1>7. good'[j] = g /\ \A k \in Jobs \ {j} : good'[k] = good[k]
  <2>1. good' = [good EXCEPT ![j] = g]
    BY <1>3 DEF DoAfter, AfterCallback, Cur
  <2>. HIDE DEF g
  <2>. QED BY <1>3, <2>1 DEF Typed
<1>8. task'[j] = [i \in Tasks(j) |-> T(i)] /\ \A k \in Jobs \ {j} : task'[k] = task[k]
  <2>1. task' = [task EXCEPT ![j] = [i \in Tasks(j) |-> T(i)]]
    BY <1>3 DEF DoAfter, AfterCallback, Cur, Res
  <2>. HIDE DEF T
  <2>. QED BY <1>3, <2>1 DEF Typed
<1>9. /\ job'[j].status = "progress" /\ Cur(j)' = n + 1 /\ Res(j)' = r /\ job'[j].callback = job[j].callback
      /\ \A k \in Jobs \ {j} : job'[k] = job[k]
  <2>1. job' = [job EXCEPT ![j].resident = r, ![j].current = n + 1]
    BY <1>3 DEF DoAfter, AfterCallback, Cur, Res
  <2>. HIDE DEF r
  <2>. QED BY <1>3, <1>4, <2>1 DEF Typed, Cur, Res
<1>10. /\ n \in Nat \ {0} /\ Tasks(j) = 1 .. Len(Kinds[j]) /\ Len(Kinds[j]) \in Nat /\ Live(j) \subseteq Tasks(j)
       /\ Live(j) \subseteq Res(j) \cup {n} /\ good[j] \subseteq Tasks(j)
       /\ \A i \in Res(j) : /\ i \in Tasks(j) /\ Kinds[j][i] = "Author" /\ i <= n
                            /\ \A w \in Tasks(j) : i < w /\ w < n => Kinds[j][w] # "Wait"
       /\ \A i \in Tasks(j) : i < n => i \in good[j] \cup Res(j)
  BY <1>3, <1>4, View DEF Course
<1>11. Live(j)' = {i \in Tasks(j) : T(i) # "idle"}
  BY <1>8 DEF Live, Tasks
<1>12. Course(j)' /\ Going(j)' /\ (Cur(j) \notin Live(j))'
  <2>1. CASE c.i = n
    <3>1. Res(j)' = Res(j) /\ Live(j)' = Live(j) /\ Res(j) \subseteq Live(j)
      <4>1. ~was
        BY <2>1
      <4>2. Live(j)' = Live(j) /\ Res(j)' = Res(j)
        BY <1>9, <1>11, <4>1 DEF Live
      <4>3. Res(j) \subseteq Live(j)
        BY <1>4, <2>1
      <4>. QED BY <4>2, <4>3
    <3>2. Live(j) \subseteq Res(j)
      BY <1>4, <1>10, <2>1
    <3>3. \A i \in Res(j) : i <= n + 1 /\ i # n + 1
      BY <1>3, <1>10
    <3>4. ASSUME NEW i \in Res(j), NEW w \in Tasks(j), i < w, w < n + 1 PROVE Kinds[j][w] # "Wait"
      <4>1. w < n \/ w = n
        BY <1>10, <3>4
      <4>2. CASE w < n
        BY <1>10, <3>4, <4>2
      <4>3. CASE w = n
        BY <1>4, <2>1, <4>3
      <4>. QED BY <4>1, <4>2, <4>3
    <3>5. ASSUME NEW i \in Tasks(j), i < n + 1 PROVE i \in good'[j] \cup Res(j)
      <4>1. i < n \/ i = n
        BY <1>10, <3>5
      <4>2. CASE i < n
        BY <1>7, <1>10, <4>2
      <4>3. CASE i = n
        BY <1>4, <1>7, <2>1, <4>3
      <4>. QED BY <4>1, <4>2, <4>3
    <3>6. n + 1 <= Len(Kinds[j]) + 1
      BY <1>3, <1>10, <2>1
    <3>7. Course(j)'
      <4>1. \A i \in Res(j) : /\ i \in Tasks(j) /\ Kinds[j][i] = "Author" /\ i <= n + 1
                              /\ \A w \in Tasks(j) : i < w /\ w < n + 1 => Kinds[j][w] # "Wait"
        BY <1>10, <3>3, <3>4
      <4>2. \A i \in Tasks(j) : i < n + 1 => i \in good'[j] \cup Res(j)
        BY <3>5
      <4>3. job'[j].status = "progress" /\ job'[j].callback = job[j].callback /\ Cur(j)' <= Len(Kinds[j]) + 1
        BY <1>9, <3>6
      <4>4. Live(j)' \subseteq Res(j)' \cup {Cur(j)'}
        BY <3>1, <3>2
      <4>5. \A i \in Res(j)' : /\ i \in Tasks(j) /\ Kinds[j][i] = "Author" /\ i <= Cur(j)'
                               /\ \A w \in Tasks(j) : i < w /\ w < Cur(j)' => Kinds[j][w] # "Wait"
        BY <1>9, <3>1, <4>1
      <4>6. \A i \in Tasks(j) : i < Cur(j)' => i \in good'[j] \cup Res(j)'
        BY <1>9, <3>1, <4>2
      <4>. QED BY <1>4, <4>3, <4>4, <4>5, <4>6 DEF Course, Tasks
    <3>8. n + 1 \notin Res(j) /\ n + 1 \notin Live(j)
      BY <3>2, <3>3
    <3>. QED BY <1>1, <1>4, <1>9, <3>1, <3>7, <3>8 DEF Going
  <2>2. CASE c.i # n
    <3>1. was /\ ~c.stay /\ c.i \notin Live(j) /\ n \notin Res(j) /\ Is(j, n, "wait")
      BY <1>4, <1>6, <2>2
    <3>2. Res(j) \ {c.i} = {}
      BY <1>3, <1>10, <3>1, OneAuthor
    <3>3. n \in Tasks(j) /\ task[j][n] = "wait"
      BY <3>1 DEF Is
    <3>4. Live(j)' = {} /\ Res(j)' = {}
      <4>1. \A i \in Live(j) : i = n
        BY <1>10, <3>1, <3>2
      <4>2. \A i \in Tasks(j) : T(i) = "idle"
        BY <3>1, <3>3, <4>1 DEF Live
      <4>. QED BY <1>9, <1>11, <3>1, <3>2, <4>2
    <3>5. ASSUME NEW i \in Tasks(j), i < n + 1 PROVE i \in good'[j]
      <4>0. c.i \in good'[j] /\ n \in good'[j] /\ good[j] \subseteq good'[j]
        BY <1>7, <3>1
      <4>1. i < n \/ i = n
        BY <1>10, <3>5
      <4>2. CASE i < n
        BY <1>10, <3>2, <4>0, <4>2
      <4>. QED BY <4>0, <4>1, <4>2
    <3>6. n + 1 <= Len(Kinds[j]) + 1
      BY <1>10, <3>3
    <3>7. Course(j)'
      <4>1. \A i \in Tasks(j) : i < n + 1 => i \in good'[j]
        BY <3>5
      <4>2. job'[j].status = "progress" /\ job'[j].callback = job[j].callback /\ Cur(j)' <= Len(Kinds[j]) + 1
        BY <1>9, <3>6
      <4>3. \A i \in Tasks(j) : i < Cur(j)' => i \in good'[j] \cup Res(j)'
        BY <1>9, <4>1
      <4>. QED BY <1>4, <3>4, <4>2, <4>3 DEF Course, Tasks
    <3>. QED BY <1>1, <1>4, <1>9, <3>4, <3>7 DEF Going
  <2>. QED BY <2>1, <2>2
<1>13. Calling'
  <2>. PICK x : x = RunNext(j)
    OBVIOUS
  <2>1. x \in Frames /\ x.op = "RunNext" /\ x.j = j
    BY <1>3, Made
  <2>2. Now(x)'
    BY <1>1, <1>4, <1>12, <2>1 DEF Now
  <2>3. \A f \in Rng(t) : Firm(f)'
    BY <1>2, <1>3, <1>4, <1>8, <1>9, FirmAway
  <2>. QED BY <1>2, <1>5, <2>1, <2>2, <2>3, Makes
<1>14. Books'
  <2>1. \A i \in Tasks(j) : task'[j][i] = "running" => Kinds[j][i] # "Wait"
    <3>1. \A i \in Tasks(j) : task'[j][i] = "running" => task[j][i] = "running"
      BY <1>8
    <3>. QED BY <1>1, <1>3, <3>1 DEF Books, Place
  <2>. QED BY <1>1, <1>3, <1>4, <1>7, <1>8, <1>9, <2>1, BooksInside
<1>. QED BY <1>1, <1>13, <1>14 DEF Sane

LEMMA RunSane ==
  ASSUME Typed, Stacked, Sane, DoRun
  PROVE  Sane'
<1>. PICK c, t : c = Head(stack) /\ t = Tail(stack)
  OBVIOUS
<1>. PICK j, n : j = c.j /\ n = Cur(j)
  OBVIOUS
<1>1. /\ stack # <<>> /\ c.op = "Run" /\ UNCHANGED <<queue, active, failed, asked, retries, job, raised, good, astray>>
      /\ Books /\ Calling /\ raised = FALSE /\ Stacked
  BY DEF DoRun, Top, Sane, manager
<1>2. /\ c \in Frames /\ t \in Seq(Frames) /\ Now(c) /\ \A f \in Rng(t) : f \in Frames /\ Firm(f)
      /\ <<>> \o t = t
  BY <1>1, Called
<1>3. /\ j \in Jobs /\ j = active /\ Course(j) /\ Going(j) /\ n \notin Live(j) /\ n \notin Res(j)
      /\ job[j].status = "progress" /\ asked = <<>> /\ Res(j) \subseteq Live(j)
  BY <1>1, <1>2, FrameKinds DEF Now, Going
<1>4. n \in Tasks(j) /\ n \in Nat
  BY <1>1, <1>3, View DEF Stacked
<1>5. CASE \E s \in {"running", "stuck", "wait"} : /\ s = "running" => Kinds[j][n] # "Wait"
                                                   /\ task' = [task EXCEPT ![j][n] = s] /\ stack' = t
  <2>. PICK s \in {"running", "stuck", "wait"} : /\ s = "running" => Kinds[j][n] # "Wait"
                                                 /\ task' = [task EXCEPT ![j][n] = s] /\ stack' = t
    BY <1>5
  <2>1. /\ task'[j][n] = s /\ \A i \in Tasks(j) \ {n} : task'[j][i] = task[j][i]
        /\ \A k \in Jobs \ {j} : task'[k] = task[k]
    BY <1>3, <1>4 DEF Typed
  <2>2. Live(j)' = Live(j) \cup {n} /\ Res(j)' = Res(j) /\ Cur(j)' = n
    <3>1. Live(j)' = {i \in Tasks(j) : task'[j][i] # "idle"}
      BY DEF Live, Tasks
    <3>2. Live(j) = {i \in Tasks(j) : task[j][i] # "idle"}
      BY DEF Live
    <3>3. Live(j)' = Live(j) \cup {n}
      BY <1>4, <2>1, <3>1, <3>2
    <3>. QED BY <1>1, <3>3 DEF Res, Cur
  <2>3. Course(j)' /\ Going(j)'
    <3>1. Live(j)' \subseteq Res(j)' \cup {Cur(j)'} /\ Res(j)' \subseteq Live(j)' /\ Cur(j)' \notin Res(j)'
      BY <1>3, <2>2 DEF Course
    <3>2. Course(j)'
      BY <1>1, <1>3, <2>2, <3>1 DEF Course, Tasks
    <3>. QED BY <1>1, <1>3, <3>1, <3>2 DEF Going
  <2>4. Rest'
    BY <1>1, <1>3, <2>3, Given DEF Rest
  <2>5. \A f \in Rng(t) : Firm(f)'
    BY <1>1, <1>2, <1>3, <2>1, FirmAway
  <2>6. \A i \in Tasks(j) : task'[j][i] = "running" => Kinds[j][i] # "Wait"
    BY <1>1, <1>3, <2>1 DEF Books, Place
  <2>7. Books'
    BY <1>1, <1>3, <2>1, <2>6, BooksInside
  <2>. QED BY <1>1, <1>2, <2>4, <2>5, <2>7, Returns DEF Sane
<1>6. CASE \E r \in {"ok", "failed"} : /\ r = "ok" => Kinds[j][n] # "Wait"
                                       /\ task' = task /\ stack' = <<Callback(j, n, r, FALSE)>> \o t
  <2>. PICK r \in {"ok", "failed"} : /\ r = "ok" => Kinds[j][n] # "Wait"
                                     /\ task' = task /\ stack' = <<Callback(j, n, r, FALSE)>> \o t
    BY <1>6
  <2>. PICK x : x = Callback(j, n, r, FALSE)
    OBVIOUS
  <2>1. x \in Frames /\ x.op = "Callback" /\ x.j = j /\ x.i = n /\ x.res = r /\ ~x.stay
    <3>1. r \in Results
      BY DEF Results
    <3>2. Final(x, j, n, r)
      BY <1>3, <1>4, <3>1, MadeFinal
    <3>. QED BY <3>2 DEF Final, ReportOf
  <2>2. Course(j)' /\ Res(j)' = Res(j) /\ Live(j)' = Live(j) /\ Cur(j)' = n
    BY <1>1, <1>3, SameJob
  <2>3. Reported(x)'
    BY <1>1, <1>3, <2>1, <2>2 DEF Reported
  <2>4. Now(x)'
    BY <1>3, <2>1, <2>2, <2>3 DEF Now
  <2>5. \A f \in Rng(t) : Firm(f)'
    BY <1>1, <1>2, FirmAside
  <2>6. Books'
    BY <1>1, BooksSame
  <2>7. Calling'
    BY <1>2, <2>1, <2>4, <2>5, Makes
  <2>. QED BY <1>1, <2>6, <2>7 DEF Sane
<1>7. \/ \E s \in {"running", "stuck", "wait"} : /\ s = "running" => Kinds[j][n] # "Wait"
                                                 /\ task' = [task EXCEPT ![j][n] = s] /\ stack' = t
      \/ \E r \in {"ok", "failed"} : /\ r = "ok" => Kinds[j][n] # "Wait"
                                     /\ task' = task /\ stack' = <<Callback(j, n, r, FALSE)>> \o t
  <2>1. \/ task' = [task EXCEPT ![j][n] = "wait"] /\ stack' = <<>> \o t
        \/ task' = task /\ stack' = <<Callback(j, n, "failed", FALSE)>> \o t
        \/ Kinds[j][n] = "Instant" /\ task' = task /\ stack' = <<Callback(j, n, "ok", FALSE)>> \o t
        \/ Kinds[j][n] # "Wait" /\ task' = [task EXCEPT ![j][n] = "running"] /\ stack' = <<>> \o t
        \/ task' = [task EXCEPT ![j][n] = "stuck"] /\ stack' = <<>> \o t
    BY DEF DoRun, Calls, Cur
  <2>. QED BY <1>2, <2>1
<1>. QED BY <1>5, <1>6, <1>7

(* A task of the active job ends, by itself or aborted. *)
LEMMA Idle ==
  ASSUME Typed, NEW j \in Jobs, NEW i \in Tasks(j), task' = [task EXCEPT ![j][i] = "idle"]
  PROVE  /\ Live(j)' = Live(j) \ {i} /\ \A k \in Jobs \ {j} : task'[k] = task[k]
         /\ \A n \in Tasks(j) : task'[j][n] = "running" => task[j][n] = "running"
<1>1. /\ task'[j][i] = "idle" /\ \A n \in Tasks(j) \ {i} : task'[j][n] = task[j][n]
      /\ \A k \in Jobs \ {j} : task'[k] = task[k]
  BY DEF Typed
<1>2. Live(j)' = {n \in Tasks(j) : task'[j][n] # "idle"} /\ Live(j) = {n \in Tasks(j) : task[j][n] # "idle"}
  BY DEF Live, Tasks
<1>3. Live(j)' = Live(j) \ {i}
  BY <1>1, <1>2
<1>. QED BY <1>1, <1>3

Ends(j, i, r) ==
  /\ j = active /\ Course(j) /\ Going(j) /\ (i = Cur(j) \/ i \in Res(j))
  /\ (r = "ok" => Kinds[j][i] # "Wait") /\ (r = "recoverable" => Kinds[j][i] = "Burn" /\ i = Cur(j))
  /\ UNCHANGED <<queue, active, failed, asked, job, good>> /\ task' = [task EXCEPT ![j][i] = "idle"]

LEMMA Ended ==
  ASSUME Typed, Books, NEW j \in Jobs, NEW i \in Tasks(j), NEW res \in Results, Ends(j, i, res),
         NEW x, Final(x, j, i, res)
  PROVE  /\ x \in Frames /\ x.op = "Callback" /\ x.j = j /\ x.res = res
         /\ Now(x)' /\ Books' /\ Live(j)' = Live(j) \ {i}
<1>. USE DEF Ends
<1>1. x \in Frames /\ x.op = "Callback" /\ x.j = j /\ x.i = i /\ x.res = res /\ ~x.stay
  BY DEF Final, ReportOf
<1>2. /\ Live(j)' = Live(j) \ {i} /\ Res(j)' = Res(j) /\ Cur(j)' = Cur(j)
      /\ \A k \in Jobs \ {j} : task'[k] = task[k]
      /\ \A n \in Tasks(j) : task'[j][n] = "running" => task[j][n] = "running"
  BY Idle DEF Res, Cur
<1>3. Course(j)'
  <2>1. Live(j)' \subseteq Res(j)' \cup {Cur(j)'}
    BY <1>2 DEF Course
  <2>. QED BY <1>2, <2>1 DEF Course, Tasks
<1>4. Reported(x)'
  <2>1. Res(j)' \ {i} \subseteq Live(j)' /\ i \notin Live(j)' /\ (i = Cur(j)' \/ i \in Res(j)')
    BY <1>2 DEF Going
  <2>2. job'[j].status = "progress" /\ asked' = <<>> /\ active' = j
    BY DEF Going
  <2>. QED BY <1>1, <1>2, <1>3, <2>1, <2>2 DEF Reported, Tasks
<1>5. Now(x)'
  BY <1>1, <1>2, <1>4 DEF Now, Going
<1>6. Books'
  <2>1. \A n \in Tasks(j) : task'[j][n] = "running" => Kinds[j][n] # "Wait"
    BY <1>2 DEF Books, Place
  <2>2. job[j].status = "progress" /\ job'[j].status = "progress"
    BY DEF Going
  <2>. QED BY <1>2, <2>1, <2>2, BooksInside
<1>. QED BY <1>1, <1>2, <1>5, <1>6

(* The same for a task that is aborted. *)
LEMMA Aborted ==
  ASSUME Typed, Books, NEW j \in Jobs, NEW i \in Tasks(j), Ends(j, i, "failed"),
         NEW x, x = Callback(j, i, "failed", FALSE)
  PROVE  /\ x \in Frames /\ x.op = "Callback" /\ x.res = "failed"
         /\ Now(x)' /\ Books' /\ Live(j)' = Live(j) \ {i}
<1>1. "failed" \in Results
  BY DEF Results
<1>2. Final(x, j, i, "failed")
  BY <1>1, MadeFinal
<1>3. ASSUME NEW r \in Results, Final(x, j, i, r), Ends(j, i, r)
      PROVE  Now(x)' /\ Books' /\ Live(j)' = Live(j) \ {i}
  BY <1>3, Ended
<1>4. Now(x)' /\ Books' /\ Live(j)' = Live(j) \ {i}
  BY <1>1, <1>2, <1>3
<1>. QED BY <1>2, <1>4 DEF Final, ReportOf

LEMMA AbortResidentSane ==
  ASSUME Typed, Stacked, Sane, DoAbortResident
  PROVE  Sane'
<1>. PICK c, t : c = Head(stack) /\ t = Tail(stack)
  OBVIOUS
<1>. PICK j : j = c.j
  OBVIOUS
<1>1. /\ stack # <<>> /\ c.op = "AbortResident"
      /\ UNCHANGED <<queue, active, failed, asked, retries, job, raised, good, astray>>
      /\ Books /\ Calling /\ raised = FALSE
  BY DEF DoAbortResident, Top, Sane, manager
<1>2. /\ c \in Frames /\ t \in Seq(Frames) /\ Now(c) /\ \A f \in Rng(t) : f \in Frames /\ Firm(f)
      /\ <<>> \o t = t
  BY <1>1, Called
<1>3. j \in Jobs /\ Res(j) \subseteq Live(j) /\ Rest
  BY <1>1, <1>2, FrameKinds DEF Now
<1>4. CASE task' = task /\ stack' = t
  <2>1. Rest'
    BY <1>1, <1>3, <1>4, SameRest
  <2>2. \A f \in Rng(t) : Firm(f)'
    BY <1>1, <1>2, <1>4, FirmAside
  <2>3. Books'
    BY <1>1, <1>4, BooksSame
  <2>. QED BY <1>1, <1>2, <1>4, <2>1, <2>2, <2>3, Returns DEF Sane
<1>5. ASSUME NEW i \in Res(j), task' = AbortedTask(j, i), stack' = AbortCalls(j, i) \o t
      PROVE  Sane'
  <2>1. j = active
    BY <1>1, <1>3, <1>5 DEF Books, Place
  <2>2. Course(j) /\ Going(j)
    BY <1>3, <1>5, <2>1, Given DEF Rest, Still
  <2>3. i \in Tasks(j) /\ Kinds[j][i] = "Author"
    BY <1>5, <2>2 DEF Course
  <2>. PICK x : x = Callback(j, i, "failed", FALSE)
    OBVIOUS
  <2>4. task' = [task EXCEPT ![j][i] = "idle"] /\ stack' = <<x>> \o t
    BY <1>5, <2>3 DEF AbortedTask, AbortCalls
  <2>5. x \in Frames /\ x.op = "Callback" /\ Now(x)' /\ Books'
    <3>1. Ends(j, i, "failed")
      BY <1>1, <1>5, <2>1, <2>2, <2>4 DEF Ends
    <3>. QED BY <1>1, <1>3, <2>3, <3>1, Aborted
  <2>6. \A f \in Rng(t) : Firm(f)'
    <3>1. \A k \in Jobs \ {j} : job'[k] = job[k] /\ task'[k] = task[k]
      BY <1>1, <1>3, <2>3, <2>4, Idle
    <3>2. job[j].status = "progress"
      BY <2>2 DEF Going
    <3>. QED BY <1>2, <1>3, <3>1, <3>2, FirmAway
  <2>7. Calling'
    BY <1>2, <2>4, <2>5, <2>6, Makes
  <2>. QED BY <1>1, <2>5, <2>7 DEF Sane
<1>6. \/ task' = task /\ stack' = t
      \/ \E i \in Res(j) : task' = AbortedTask(j, i) /\ stack' = AbortCalls(j, i) \o t
  BY <1>2 DEF DoAbortResident, Calls, Res
<1>. QED BY <1>4, <1>5, <1>6

(* Nobody but the world acts on the active job between the calls. *)
LEMMA AtRest ==
  ASSUME Typed, Books, Rest, NEW j \in Jobs, job[j].status = "progress" \/ Live(j) # {}
  PROVE  j = active /\ Course(j) /\ Going(j)
<1>1. j = active /\ j # NoJob
  BY Given DEF Books, Place
<1>. QED BY <1>1 DEF Rest, Still

LEMMA TaskEndsSane ==
  ASSUME Typed, Stacked, Sane, NEW j \in Jobs, NEW i \in Tasks(j), TaskEnds(j, i)
  PROVE  Sane'
<1>. PICK res \in Outcomes(Kinds[j][i]) : stack' = <<Callback(j, i, res, FALSE)>>
  BY DEF TaskEnds
<1>. PICK x : x = Callback(j, i, res, FALSE)
  OBVIOUS
<1>1. /\ stack = <<>> /\ task[j][i] = "running" /\ task' = [task EXCEPT ![j][i] = "idle"]
      /\ stack' = <<x>> \o <<>>
      /\ UNCHANGED <<queue, active, failed, asked, retries, job, raised, good, astray>>
      /\ Books /\ Rest /\ raised = FALSE
  <2>1. stack' = <<x>> \o <<>>
    OBVIOUS
  <2>2. stack = <<>> /\ Books /\ Rest /\ raised = FALSE
    BY DEF TaskEnds, Outside, Sane, Calling
  <2>3. /\ task[j][i] = "running" /\ task' = [task EXCEPT ![j][i] = "idle"]
        /\ UNCHANGED <<queue, active, failed, asked, retries, job, raised, good, astray>>
    BY DEF TaskEnds, Is, manager
  <2>. QED BY <2>1, <2>2, <2>3
<1>2. i \in Live(j)
  BY <1>1 DEF Live
<1>3. j = active /\ Course(j) /\ Going(j)
  BY <1>1, <1>2, AtRest
<1>4. i = Cur(j) \/ i \in Res(j)
  BY <1>2, <1>3 DEF Course
<1>5. /\ res \in Results
      /\ res = "recoverable" => Kinds[j][i] = "Burn" /\ i = Cur(j)
      /\ Kinds[j][i] # "Wait"
  <2>1. res \in Results /\ (res = "recoverable" => Kinds[j][i] = "Burn")
    BY DEF Outcomes, Results
  <2>2. Kinds[j][i] = "Burn" => i \notin Res(j)
    BY <1>3 DEF Course
  <2>3. Kinds[j][i] # "Wait"
    BY <1>1 DEF Books, Place
  <2>. QED BY <1>4, <2>1, <2>2, <2>3
<1>6. x \in Frames /\ x.op = "Callback" /\ Now(x)' /\ Books'
  <2>1. Final(x, j, i, res)
    BY <1>5, MadeFinal
  <2>2. Ends(j, i, res)
    BY <1>1, <1>3, <1>4, <1>5 DEF Ends
  <2>. QED BY <1>1, <1>5, <2>1, <2>2, Ended DEF Final, ReportOf
<1>7. Calling'
  <2>1. <<>> \in Seq(Frames) /\ \A f \in Rng(<<>>) : Firm(f)'
    BY Nothing
  <2>. QED BY <1>1, <1>6, <2>1, Makes
<1>. QED BY <1>1, <1>6, <1>7 DEF Sane

LEMMA GoesResidentSane ==
  ASSUME Typed, Stacked, Sane, NEW j \in Jobs, NEW i \in Tasks(j), GoesResident(j, i)
  PROVE  Sane'
<1>. PICK x : x = Callback(j, i, "ok", TRUE)
  OBVIOUS
<1>1. /\ stack = <<>> /\ task[j][i] = "running" /\ Kinds[j][i] = "Author" /\ i \notin Res(j)
      /\ stack' = <<x>> \o <<>>
      /\ UNCHANGED <<queue, active, failed, asked, retries, job, task, raised, good, astray>>
      /\ Books /\ Rest /\ raised = FALSE
  BY DEF GoesResident, Outside, Is, Sane, Calling, manager, Res
<1>2. i \in Live(j)
  BY <1>1 DEF Live
<1>3. j = active /\ Course(j) /\ Going(j)
  BY <1>1, <1>2, AtRest
<1>4. i = Cur(j) /\ Cur(j) \notin Res(j)
  BY <1>1, <1>2, <1>3 DEF Course
<1>5. x \in Frames /\ x.op = "Callback" /\ x.j = j /\ x.i = i /\ x.res = "ok" /\ x.stay
  <2>1. "ok" \in Results
    BY DEF Results
  <2>2. Resident(x, j, i)
    BY <2>1, MadeResident
  <2>. QED BY <2>2 DEF Resident, ReportOf
<1>6. Course(j)' /\ Res(j)' = Res(j) /\ Live(j)' = Live(j) /\ Cur(j)' = Cur(j)
  BY <1>1, <1>3, SameJob
<1>7. Reported(x)'
  <2>1. active' = j /\ asked' = <<>> /\ job'[j].status = "progress" /\ Res(j)' \ {i} \subseteq Live(j)'
    BY <1>1, <1>3, <1>6 DEF Going
  <2>2. i = Cur(j)' /\ i \in Live(j)' /\ Kinds[j][i] = "Author"
    BY <1>1, <1>2, <1>4, <1>6
  <2>. QED BY <1>5, <1>6, <2>1, <2>2 DEF Reported
<1>8. Now(x)'
  BY <1>4, <1>5, <1>6, <1>7 DEF Now
<1>9. Calling'
  <2>1. <<>> \in Seq(Frames) /\ \A f \in Rng(<<>>) : Firm(f)'
    BY Nothing
  <2>. QED BY <1>1, <1>5, <1>8, <2>1, Makes
<1>10. Books'
  BY <1>1, BooksSame
<1>. QED BY <1>1, <1>9, <1>10 DEF Sane

LEMMA AbortRunningSane ==
  ASSUME Typed, Stacked, Sane, NEW j \in Jobs, AbortRunning(j)
  PROVE  Sane'
<1>. PICK n, a : n = Cur(j) /\ a = AbortResident(j)
  OBVIOUS
<1>1. /\ stack = <<>> /\ job[j].status = "progress"
      /\ UNCHANGED <<queue, active, failed, asked, retries, job, raised, good, astray>>
      /\ Books /\ Rest /\ raised = FALSE
  BY DEF AbortRunning, Outside, Sane, Calling, manager
<1>2. j = active /\ Course(j) /\ Going(j) /\ n \notin Res(j) /\ Res(j) \subseteq Live(j)
  BY <1>1, AtRest DEF Going
<1>3. a \in Frames /\ a.op = "AbortResident" /\ a.j = j
  BY Made
<1>4. <<>> \in Seq(Frames) /\ <<a>> \o <<>> \in Seq(Frames) /\ <<a>> \o <<>> = <<a>> /\ Rng(<<>>) = {}
      /\ Rng(<<a>> \o <<>>) = {a}
  <2>1. <<>> \in Seq(Frames) /\ Rng(<<>>) = {}
    BY Nothing
  <2>. PICK e \in Seq(Frames) : e = <<>>
    BY <2>1
  <2>2. <<a>> \o e \in Seq(Frames) /\ Rng(<<a>> \o e) = {a} \cup Rng(e)
    BY <1>3, PushCall
  <2>. QED BY <2>1, <2>2
<1>5. CASE task' = task /\ stack' = <<a>>
  <2>1. Rest'
    BY <1>1, <1>5, SameRest
  <2>2. Res(j)' \subseteq Live(j)' /\ j = active'
    BY <1>1, <1>2, <1>5 DEF Res, Live, Tasks
  <2>3. Now(a)'
    BY <1>3, <2>1, <2>2 DEF Now
  <2>4. \A f \in Rng(<<>>) : Firm(f)'
    BY <1>4
  <2>5. stack' = <<a>> \o <<>>
    BY <1>4, <1>5
  <2>6. Calling'
    BY <1>3, <1>4, <2>3, <2>4, <2>5, Makes
  <2>7. Books'
    BY <1>1, <1>5, BooksSame
  <2>. QED BY <1>1, <2>6, <2>7 DEF Sane
<1>6. CASE /\ n \in Tasks(j) /\ task' = [task EXCEPT ![j][n] = "idle"]
           /\ stack' = <<Callback(j, n, "failed", FALSE)>> \o <<a>>
  <2>. PICK x : x = Callback(j, n, "failed", FALSE)
    OBVIOUS
  <2>1. x \in Frames /\ x.op = "Callback" /\ x.res = "failed" /\ Now(x)' /\ Books' /\ Live(j)' = Live(j) \ {n}
    <3>1. Ends(j, n, "failed")
      BY <1>1, <1>2, <1>6 DEF Ends
    <3>. QED BY <1>1, <1>6, <3>1, Aborted
  <2>2. Res(j)' \subseteq Live(j)' /\ a.j = active'
    BY <1>1, <1>2, <1>3, <2>1 DEF Res
  <2>. PICK p : p = <<x>> \o <<a>>
    OBVIOUS
  <2>3. p # <<>> /\ Head(p) = x /\ Tail(p) = <<a>> /\ Rng(Tail(p)) = {a} /\ stack' = p
    <3>. PICK e : e = <<a>>
      OBVIOUS
    <3>1. e \in Seq(Frames) /\ Rng(e) = {a} /\ p = <<x>> \o e
      BY <1>4
    <3>2. p # <<>> /\ Head(p) = x /\ Tail(p) = e
      BY <2>1, <3>1, PushCall
    <3>. QED BY <1>6, <3>1, <3>2
  <2>4. Aborting(a)'
    BY <1>3, <2>1, <2>2, <2>3 DEF Aborting
  <2>5. Calling'
    <3>1. Now(Head(stack))' /\ (stack # <<>>)' /\ (Head(stack).op # "Yes")'
      BY <2>1, <2>3
    <3>2. (\A f \in Rng(Tail(stack)) : Firm(f) \/ Aborting(f))'
      BY <2>3, <2>4
    <3>. QED BY <3>1, <3>2 DEF Calling
  <2>. QED BY <1>1, <2>1, <2>5 DEF Sane
<1>7. \/ task' = task /\ stack' = <<a>>
      \/ /\ n \in Tasks(j) /\ task' = [task EXCEPT ![j][n] = "idle"]
         /\ stack' = <<Callback(j, n, "failed", FALSE)>> \o <<a>>
  <2>1. \/ stack' = <<a>> /\ task' = task
        \/ n \in Tasks(j) /\ task' = AbortedTask(j, n) /\ stack' = Append(AbortCalls(j, n), a)
    BY DEF AbortRunning, Cur
  <2>2. CASE Kinds[j][n] = "Python"
    <3>1. Append(<<>>, a) = <<a>>
      OBVIOUS
    <3>. QED BY <2>1, <2>2, <3>1 DEF AbortedTask, AbortCalls
  <2>3. CASE Kinds[j][n] # "Python"
    <3>1. \A y : Append(<<y>>, a) = <<y>> \o <<a>>
      OBVIOUS
    <3>. QED BY <2>1, <2>3, <3>1 DEF AbortedTask, AbortCalls
  <2>. QED BY <2>2, <2>3
<1>. QED BY <1>5, <1>6, <1>7

-----------------------------------------------------------------------------
(* The invariant.                                                          *)

LEMMA Begins ==
  Init => JobInv
<1>. SUFFICES ASSUME Init PROVE JobInv
  OBVIOUS
<1>1. Typed
  <2>1. queue \in Seq(Jobs) /\ asked \in Seq(Jobs) /\ failed \in Seq(Jobs \cup {NoJob})
    BY Nothing DEF Init
  <2>2. job \in [Jobs -> [status : Status, current : Nat \ {0}, resident : SUBSET Nat, callback : BOOLEAN]]
    BY DEF Init, Status
  <2>3. /\ DOMAIN task = Jobs /\ DOMAIN good = Jobs /\ \A j \in Jobs : good[j] \subseteq Tasks(j)
        /\ \A j \in Jobs : task[j] \in [Tasks(j) -> {"idle", "running", "stuck", "wait"}]
    BY DEF Init
  <2>4. active \in Jobs \cup {NoJob} /\ retries \in 0 .. MaxRetries
    BY Given DEF Init
  <2>5. raised \in BOOLEAN /\ astray \in BOOLEAN
    BY DEF Init
  <2>. QED BY <2>1, <2>2, <2>3, <2>4, <2>5 DEF Typed
<1>2. Stacked
  BY Nothing DEF Init, Stacked
<1>3. Calling
  BY DEF Init, Calling, Rest
<1>4. Books
  <2>1. Inj(queue) /\ Inj(failed) /\ Rng(queue) = {} /\ Rng(failed) = {}
    <3>1. queue = <<>> /\ failed = <<>> /\ DOMAIN <<>> = {}
      BY DEF Init
    <3>. QED BY <3>1, Nothing DEF Inj
  <2>2. \A j \in Jobs : /\ job[j].status = "new" /\ Cur(j) = 1 /\ Res(j) = {} /\ Live(j) = {}
                        /\ \A i \in Tasks(j) : task[j][i] = "idle"
    BY DEF Init, Cur, Res, Live
  <2>3. \A j \in Jobs : Place(j)
    BY <2>2 DEF Place
  <2>. QED BY <2>1, <2>2, <2>3 DEF Books
<1>. QED BY <1>1, <1>2, <1>3, <1>4 DEF JobInv, Sane, Init

(* What went astray stays so. *)
LEMMA AstrayStays ==
  ASSUME Next, astray PROVE astray'
<1>1. CASE Step
  BY <1>1 DEF Step, DoKick, KickIf, DoDone, Report, GiveUp, Retry, Raise, DoRunNext, DoClear, DoCallback,
              DoAfter, AfterCallback, DoRun, DoAbortResident
<1>2. CASE User
  BY <1>2 DEF User, AddJob, AbortRunning, AbortWaiting, Dequeue, Answer
<1>3. CASE World
  BY <1>3 DEF World, TaskEnds, GoesResident
<1>. QED BY <1>1, <1>2, <1>3 DEF Next

LEMMA KeepsTypes ==
  ASSUME Typed, Stacked, [Next]_vars PROVE Typed' /\ Stacked'
<1>1. CASE Step
  BY <1>1, ManagerTypes, JobStepTypes, TaskStepTypes DEF Step
<1>2. CASE User
  BY <1>2, ManagerTypes, WorldTypes DEF User
<1>3. CASE World
  BY <1>3, WorldTypes DEF World
<1>4. CASE UNCHANGED vars
  BY <1>4 DEF vars, Typed, Stacked, Tasks, Cur
<1>. QED BY <1>1, <1>2, <1>3, <1>4 DEF Next

LEMMA StepSane ==
  ASSUME Typed, Stacked, Sane, Step, ~astray' PROVE Sane'
<1>1. CASE DoAfter
  BY <1>1, AfterFailureSane, AfterSuccessSane
<1>. QED BY <1>1, KickSane, DoneSane, GiveUpSane, RetrySane, RunNextSane, ClearSane, CallbackSane, RunSane,
            AbortResidentSane DEF Step

LEMMA Keeps ==
  ASSUME JobInv, [Next]_vars PROVE JobInv'
<1>1. Typed /\ Stacked /\ (~astray => Sane)
  BY DEF JobInv
<1>2. Typed' /\ Stacked'
  BY <1>1, KeepsTypes
<1>3. ASSUME ~astray' PROVE Sane'
  <2>1. ~astray
    BY <1>3, AstrayStays DEF vars
  <2>2. Sane
    BY <1>1, <2>1
  <2>3. CASE Step
    BY <1>1, <1>3, <2>2, <2>3, StepSane
  <2>4. CASE User
    BY <1>1, <2>2, <2>4, AddJobSane, AbortRunningSane, AbortWaitingSane, AnswerSane DEF User
  <2>5. CASE World
    BY <1>1, <2>2, <2>5, TaskEndsSane, GoesResidentSane DEF World
  <2>6. CASE UNCHANGED vars
    <3>1. Books'
      BY <2>2, <2>6, BooksSame DEF Sane, vars
    <3>2. Calling'
      <4>1. UNCHANGED <<active, asked, job, task, good, stack>>
        BY <2>6 DEF vars
      <4>2. \A j : /\ Cur(j)' = Cur(j) /\ Res(j)' = Res(j) /\ Live(j)' = Live(j)
                   /\ (Course(j) => Course(j)') /\ (Still(j) => Still(j)') /\ (Going(j) => Going(j)')
        BY <4>1, SameJob
      <4>3. Rest => Rest'
        BY <4>1, <4>2 DEF Rest
      <4>4. \A f : Reported(f) => Reported(f)'
        BY <4>1, <4>2 DEF Reported, Tasks
      <4>5. \A f : Now(f) => Now(f)'
        <5>. SUFFICES ASSUME NEW f, Now(f) PROVE Now(f)'
          OBVIOUS
        <5>. QED BY <4>1, <4>2, <4>3, <4>4 DEF Now
      <4>6. \A f : (Firm(f) => Firm(f)') /\ (Aborting(f) => Aborting(f)')
        BY <4>1, <4>2 DEF Firm, Aborting
      <4>. PICK c, t : c = Head(stack) /\ t = Tail(stack)
        OBVIOUS
      <4>7. CASE stack = <<>>
        BY <2>2, <4>1, <4>3, <4>7 DEF Sane, Calling
      <4>8. CASE stack # <<>>
        <5>1. Now(c) /\ (\A f \in Rng(t) : Firm(f) \/ Aborting(f)) /\ (c.op = "Yes" => t = <<>>)
          BY <2>2, <4>8 DEF Sane, Calling
        <5>2. Now(c)' /\ (\A f \in Rng(t) : Firm(f)' \/ Aborting(f)') /\ (c.op = "Yes" => t = <<>>)
          BY <4>5, <4>6, <5>1
        <5>3. Now(Head(stack))' /\ (\A f \in Rng(Tail(stack)) : Firm(f) \/ Aborting(f))'
              /\ (Head(stack).op = "Yes" => Tail(stack) = <<>>)'
          BY <4>1, <5>2
        <5>. QED BY <4>1, <4>8, <5>3 DEF Calling
      <4>. QED BY <4>7, <4>8
    <3>. QED BY <2>2, <2>6, <3>1, <3>2 DEF Sane, vars
  <2>. QED BY <2>3, <2>4, <2>5, <2>6 DEF Next
<1>. QED BY <1>2, <1>3 DEF JobInv

LEMMA JobInvariant == Spec => []JobInv
<1>1. Init => JobInv
  BY Begins
<1>2. JobInv /\ [Next]_vars => JobInv'
  BY Keeps
<1>. QED BY <1>1, <1>2, PTL DEF Spec

(* The types of the program's data: Task.py 19-530. *)
THEOREM JobTypes == Spec => []TypeOK
<1>1. JobInv => TypeOK
  BY DEF JobInv, Typed, Stacked, TypeOK
<1>. QED BY <1>1, JobInvariant, PTL

-----------------------------------------------------------------------------
(* What follows from the invariant.                                        *)

(* Whatever lives belongs to the active job and is its current task or a   *)
(* resident one, at every moment of the calls.                             *)
LEMMA LivesInside ==
  ASSUME Typed, Stacked, Sane, NEW j \in Jobs
  PROVE  Live(j) # {} => j = active /\ Live(j) \subseteq Res(j) \cup {Cur(j)}
<1>. SUFFICES ASSUME Live(j) # {} PROVE j = active /\ Live(j) \subseteq Res(j) \cup {Cur(j)}
  OBVIOUS
<1>1. j = active /\ j # NoJob
  BY Given DEF Sane, Books, Place
<1>2. Rest => Course(j)
  BY <1>1 DEF Rest
<1>3. CASE stack = <<>>
  BY <1>1, <1>2, <1>3 DEF Sane, Calling, Course
<1>4. CASE stack # <<>>
  <2>. PICK c : c = Head(stack)
    OBVIOUS
  <2>1. c \in Frames /\ Now(c)
    BY <1>4 DEF Sane, Calling, Stacked, FrameOK
  <2>2. Course(j)
    BY <1>1, <1>2, <2>1, FrameKinds DEF Now, Reported
  <2>. QED BY <1>1, <2>2 DEF Course
<1>. QED BY <1>3, <1>4

(* One job runs at a time, and inside it one task besides the resident one *)
(* and the one that waits: JobManager.kick(), Task.py 378-383, and         *)
(* Job.runNext(), 92-109.                                                  *)
THEOREM OneAfterAnother == Spec => []OneTaskRuns
<1>1. JobInv => OneTaskRuns
  <2>. SUFFICES ASSUME JobInv, ~astray
                PROVE  OneJobRuns /\ \A j \in Jobs : Live(j) \subseteq job[j].resident \cup {job[j].current}
    BY DEF OneTaskRuns
  <2>1. \A j \in Jobs : Live(j) # {} => j = active /\ Live(j) \subseteq Res(j) \cup {Cur(j)}
    BY LivesInside DEF JobInv
  <2>. QED BY <2>1 DEF OneJobRuns, Res, Cur
<1>. QED BY <1>1, JobInvariant, PTL

(* A question that is open is about the active job, which has failed:      *)
(* notifyFailed() and errorCB(), Task.py 398-432.                          *)
THEOREM AnswerReachesItsJob == Spec => []QuestionIsAboutActive
<1>1. JobInv => QuestionIsAboutActive
  <2>. SUFFICES ASSUME JobInv, ~astray
                PROVE  /\ Len(asked) <= 1
                       /\ \A n \in DOMAIN asked : asked[n] = active /\ job[active].status = "failed"
    BY DEF QuestionIsAboutActive
  <2>1. asked = <<>> \/ (asked = <<active>> /\ Still(active))
    <3>1. CASE stack = <<>>
      BY <3>1 DEF JobInv, Sane, Calling, Rest, Going
    <3>2. CASE stack # <<>>
      <4>. PICK c : c = Head(stack)
        OBVIOUS
      <4>1. c \in Frames /\ Now(c)
        BY <3>2 DEF JobInv, Sane, Calling, Stacked, FrameOK
      <4>2. Rest \/ asked = <<>>
        BY <4>1, FrameKinds DEF Now, Reported, Going
      <4>. QED BY <4>2 DEF Rest, Going
    <3>. QED BY <3>1, <3>2
  <2>2. CASE asked = <<>>
    BY <2>2
  <2>3. CASE asked = <<active>> /\ Still(active)
    BY <2>3 DEF Still
  <2>. QED BY <2>1, <2>2, <2>3
<1>. QED BY <1>1, JobInvariant, PTL

(* A job that counts as finished has run each of its tasks to a good end:  *)
(* Job.runNext() and taskCallback(), Task.py 92-131.                       *)
THEOREM NoTaskSkipped == Spec => []SuccessIsEarned
<1>1. JobInv => SuccessIsEarned
  BY DEF JobInv, Sane, Books, Place, SuccessIsEarned
<1>. QED BY <1>1, JobInvariant, PTL

(* No callback is called that was cleared, no task is run beyond the last  *)
(* one, and retry() finds a failed job: Task.py 66-69 and 108-126.         *)
THEOREM NoException == Spec => []NothingRaised
<1>1. JobInv => NothingRaised
  BY DEF JobInv, Sane, NothingRaised
<1>. QED BY <1>1, JobInvariant, PTL

LEMMA CountedOnce ==
  ASSUME NEW S, NEW s \in Seq(S), Inj(s), NEW x
  PROVE  Cardinality({n \in DOMAIN s : s[n] = x}) = IF x \in Rng(s) THEN 1 ELSE 0
<1>. DEFINE At == {n \in DOMAIN s : s[n] = x}
<1>1. CASE x \in Rng(s)
  <2>1. PICK n \in DOMAIN s : s[n] = x
    BY <1>1 DEF Rng
  <2>2. At = {n}
    BY <2>1 DEF Inj
  <2>3. Cardinality(At) = 1
    BY <2>2, FS_Singleton
  <2>. QED BY <1>1, <2>3
<1>2. CASE x \notin Rng(s)
  <2>1. At = {}
    BY <1>2 DEF Rng
  <2>2. Cardinality(At) = 0
    BY <2>1, FS_EmptySet
  <2>. QED BY <1>2, <2>2
<1>. QED BY <1>1, <1>2

(* Each job is in one place, and None is never counted among the failures: *)
(* AddJob(), kick(), jobDone() and errorCB(), Task.py 367-432.             *)
THEOREM EachInOnePlace == Spec => []Accounted
<1>1. JobInv => Accounted
  <2>. SUFFICES ASSUME JobInv, stack = <<>>, ~astray
                PROVE  /\ \A n \in DOMAIN failed : failed[n] # NoJob
                       /\ \A j \in Jobs : Occurrences(j) =
                            (IF job[j].status \in {"new", "finished", "removed"} THEN 0 ELSE 1)
    BY DEF Accounted
  <2>1. Typed /\ Books /\ Rest
    BY DEF JobInv, Sane, Calling
  <2>2. \A n \in DOMAIN failed : failed[n] # NoJob
    <3>1. Rng(failed) \subseteq Jobs
      BY <2>1 DEF Books
    <3>. QED BY <3>1, Given DEF Rng
  <2>3. ASSUME NEW j \in Jobs
        PROVE  Occurrences(j) = (IF job[j].status \in {"new", "finished", "removed"} THEN 0 ELSE 1)
    <3>. DEFINE q == Cardinality({n \in DOMAIN queue : queue[n] = j})
                f == Cardinality({n \in DOMAIN failed : failed[n] = j})
    <3>1. q = IF j \in Rng(queue) THEN 1 ELSE 0
      BY <2>1, CountedOnce DEF Books, Typed
    <3>2. f = IF j \in Rng(failed) THEN 1 ELSE 0
      BY <2>1, CountedOnce DEF Books, Typed
    <3>3. Occurrences(j) = q + f + (IF active = j THEN 1 ELSE 0)
      BY DEF Occurrences
    <3>. HIDE DEF q, f
    <3>4. /\ j \in Rng(queue) <=> job[j].status = "waiting"
          /\ j \in Rng(failed) <=> job[j].status = "failed" /\ j # active
          /\ job[j].status = "progress" => j = active
          /\ job[j].status \in Status
      BY <2>1, View DEF Books, Place
    <3>5. j = active => job[j].status \in {"progress", "failed"}
      BY <2>1, Given DEF Rest, Course
    <3>. QED BY <3>1, <3>2, <3>3, <3>4, <3>5 DEF Status
  <2>. QED BY <2>2, <2>3
<1>. QED BY <1>1, JobInvariant, PTL
=============================================================================
