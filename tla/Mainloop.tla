------------------------------ MODULE Mainloop ------------------------------
(* The main loop of lib/base/ebase.cpp: eTimer, eSocketNotifier,           *)
(* eMainloop::iterate() and processOneEvent(), driven by the twisted       *)
(* reactor of e2reactor.py.                                                *)
(*                                                                         *)
(* Everything runs in one thread: the hazards come from what the callbacks *)
(* do to the timers and notifiers of the round that is being served.  Time *)
(* is relative: `left' is what is left until a timer is due, and a tick of *)
(* the clock lowers all of them, so no behaviour has to end.               *)
EXTENDS Integers, SequencesExt

CONSTANTS
  Timers, Interval, SingleShot,  \* the eTimers, start(msek, singleShot)
  Notifiers, Fd,                 \* the eSocketNotifiers, the descriptor of each
  Waker,                         \* the reactor's own descriptor
  None,
  Ms,          \* ticks of the clock per millisecond
  Delays,      \* the delays callLater() is asked for, in ticks
  Late,        \* bound: a callback takes at most this many ticks
  MaxOps       \* bound: calls a callback makes

ASSUME LoopAssumption ==
  /\ Ms \in Nat \ {0} /\ Delays \subseteq Nat \ {0} /\ Late \in Nat /\ MaxOps \in Nat
  /\ Interval \in [Timers -> Nat \ {0}]   \* 0 would never leave the timer loop
  /\ SingleShot \in [Timers -> BOOLEAN]
  /\ Fd \in [Notifiers -> Nat] /\ Waker \notin {Fd[n] : n \in Notifiers}
  /\ None \notin Int /\ None \notin Notifiers

VARIABLES
  left,     \* nextActivation of each timer, relative to the clock
  list,     \* m_timer_list
  sn,       \* "none", or the state of each notifier: "stopped", "added" (2), "polled" (1)
  held,     \* the notifiers their owner still refers to
  map,      \* eMainloop::notifiers, by descriptor
  ready,    \* the descriptors poll() would report
  at,       \* where the loop is
  age,      \* how long ago `now' was sampled in processOneEvent()
  inAct,    \* m_inActivate
  rev,      \* the descriptors reported by poll() and not yet looked at
  wait,     \* what is left of poll()'s timeout, None if it has none
  limit,    \* m_twisted_timer, relative to the clock, None without a timeout
  reason,   \* return_reason, and whether *res was filled
  call,     \* the reactor's next delayed call, relative to the clock, or None
  intr,     \* m_interrupt_requested
  ops,      \* calls the running callback may still make
  fatal,    \* an ASSERT or eFatal() was hit
  asked     \* history: the notifier poll() was asked about for a descriptor,
            \* until it is stopped
timerVars == <<left, list>>
snVars == <<sn, held, map, asked, fatal>>
pollVars == <<rev, wait, limit, reason>>
twisted == <<call, intr>>
vars == <<timerVars, snVars, pollVars, twisted, ready, at, age, inAct, ops>>

Fds == {Fd[n] : n \in Notifiers} \cup {Waker}
Listed == {list[i] : i \in DOMAIN list}
Places == {"reactor", "iterate", "timers", "timerCallback", "polling", "serve", "callback", "after"}
TypeOK ==
  /\ left \in [Timers -> Int] /\ list \in Seq(Timers)
  /\ sn \in [Notifiers -> {"none", "stopped", "added", "polled"}] /\ held \subseteq Notifiers
  /\ map \in [Fds -> Notifiers \cup {None}] /\ asked \in [Fds -> Notifiers \cup {None}]
  /\ ready \subseteq Fds /\ rev \subseteq Fds
  /\ at \in Places /\ age \in 0 .. Late /\ inAct \in Notifiers \cup {None}
  /\ wait \in Nat \cup {None} /\ limit \in Int \cup {None}
  /\ reason \in {"none", "timeout", "signal", "res"}
  /\ call \in Int \cup {None} /\ intr \in BOOLEAN
  /\ ops \in 0 .. MaxOps /\ fatal \in BOOLEAN

Init ==
  /\ left = [t \in Timers |-> 0] /\ list = <<>>
  /\ sn = [n \in Notifiers |-> "none"] /\ held = {}
  /\ map = [f \in Fds |-> None] /\ asked = [f \in Fds |-> None]
  /\ ready = {} /\ rev = {} /\ at = "reactor" /\ age = 0 /\ inAct = None
  /\ wait = None /\ limit = None /\ reason = "none"
  /\ call = None /\ intr = FALSE /\ ops = MaxOps /\ fatal = FALSE

(* ------------------------- What callbacks may do ------------------------ *)

\* The program runs: in a callback, or in the reactor between two polls.
Running == at \in {"timerCallback", "callback", "reactor"} /\ ops > 0
Op == Running /\ ops' = ops - 1 /\ UNCHANGED <<pollVars, ready, at, age, inAct>>
TimerOp == Op /\ UNCHANGED <<snVars, twisted>>
NotifierOp == Op /\ UNCHANGED <<timerVars, twisted>>

\* insert_in_order() puts a timer in front of those that are due with it
\* (lower_bound).
Without(t) ==
  IF t \in Listed THEN RemoveAt(list, CHOOSE i \in DOMAIN list : list[i] = t) ELSE list
Before(l, when) == {i \in DOMAIN l : left[l[i]] < when}
Insort(l, t, when) == InsertAt(l, Cardinality(Before(l, when)) + 1, t)

\* eTimer::start(), which stops a running timer first, and stop()
StartTimer(t) ==
  /\ TimerOp
  /\ left' = [left EXCEPT ![t] = Interval[t]]
  /\ list' = Insort(Without(t), t, Interval[t])
StopTimer(t) ==
  /\ TimerOp /\ t \in Listed
  /\ left' = [left EXCEPT ![t] = 0]
  /\ list' = Without(t)

\* What stop() of a notifier leaves in a map of descriptors.
Cleared(m, n) == [f \in Fds |-> IF m[f] = n THEN None ELSE m[f]]

\* eSocketNotifier::start() with addSocketNotifier(): the notifier in whose
\* callback we are is stopped if only the loop refers to it any more.
Added(n) ==
  LET gone == IF inAct # None /\ inAct \notin held' THEN inAct ELSE None
      m == Cleared(map, gone)
  IN  /\ fatal' = (fatal \/ m[Fd[n]] # None)          \* ASSERT(find(fd) == end())
      /\ map' = [m EXCEPT ![Fd[n]] = n]
      /\ sn' = [k \in Notifiers |-> IF k = n THEN "added"
                                    ELSE IF k = gone /\ sn[k] # "none" THEN "stopped" ELSE sn[k]]
      /\ asked' = Cleared(asked, gone)

\* A descriptor has one owner: nobody else who is still there listens to it.
Free(n) == \A k \in held \ {n} : Fd[k] = Fd[n] => sn[k] = "stopped"
StartNotifier(n) ==
  /\ NotifierOp /\ Free(n)
  /\ \/ sn[n] = "none" /\ held' = held \cup {n}       \* create()
     \/ sn[n] = "stopped" /\ n \in held /\ UNCHANGED held
  /\ Added(n)

\* eSocketNotifier::stop()
StopNotifier(n) ==
  /\ NotifierOp /\ n \in held /\ sn[n] \in {"added", "polled"}
  /\ sn' = [sn EXCEPT ![n] = "stopped"]
  /\ map' = Cleared(map, n) /\ asked' = Cleared(asked, n)
  /\ fatal' = (fatal \/ map[Fd[n]] # n)               \* eFatal in removeSocketNotifier
  /\ UNCHANGED held

\* The owner drops its reference; the last one destroys the notifier, and so
\* stops it, but the loop holds one in whose callback it is.
DropNotifier(n) ==
  /\ NotifierOp /\ n \in held
  /\ held' = held \ {n}
  /\ IF n = inAct THEN UNCHANGED <<sn, map, asked>>
     ELSE /\ sn' = [sn EXCEPT ![n] = "none"]
          /\ map' = Cleared(map, n) /\ asked' = Cleared(asked, n)
  /\ UNCHANGED fatal

\* reactor.callLater(), which interrupts the poll.  Calls
\* "at once" are left out: with one that asks for the next again and again
\* iterate() would see the interrupt first, and nothing else would ever run.
CallLater(d) ==
  /\ Op /\ call = None /\ call' = d /\ intr' = TRUE
  /\ UNCHANGED <<timerVars, snVars>>

(* ------------------------------ The reactor ----------------------------- *)

\* runUntilCurrent(): a due call is made, and may do what it wants.
RunCall ==
  /\ at = "reactor" /\ call # None /\ call <= 0
  /\ call' = None /\ ops' = MaxOps
  /\ UNCHANGED <<timerVars, snVars, pollVars, intr, ready, at, age, inAct>>

\* doPoll() and poll(): the time to the next call, cut to milliseconds; 0, for
\* no timeout given and for less than a millisecond, is no timeout.
DoPoll ==
  /\ at = "reactor" /\ ~(call # None /\ call <= 0)
  /\ limit' = IF call = None \/ call \div Ms = 0 THEN None ELSE (call \div Ms) * Ms
  /\ at' = "iterate" /\ ops' = 0
  /\ UNCHANGED <<timerVars, snVars, rev, wait, reason, twisted, ready, age, inAct>>

(* ------------------------- iterate(), the timers ------------------------ *)

\* Back in the reactor only what came with *res runs, before the next poll.
BackToReactor ==
  /\ at' = "reactor" /\ limit' = None
  /\ ops' = IF at = "after" /\ reason = "res" THEN MaxOps ELSE 0

\* The top of the loop of iterate(): leave, or call processOneEvent().
IterateUntil(timeIsUp) ==
  /\ at = "iterate"
  /\ intr' = FALSE
  /\ IF intr \/ timeIsUp
     THEN BackToReactor /\ UNCHANGED <<age, reason>>
     ELSE at' = "timers" /\ age' = 0 /\ reason' = "none" /\ UNCHANGED <<ops, limit>>
  /\ UNCHANGED <<timerVars, snVars, rev, wait, call, ready, inAct>>
IterateOn == IterateUntil(FALSE)   \* seeded fault
Iterate == IterateUntil(limit # None /\ limit <= 0)

\* needsActivation(now), for the time sampled at the start of the round
Due == list # <<>> /\ left[Head(list)] <= -age

\* The first timer is due: taken from the list, queued again if it is
\* periodic, and then its callback runs.
ServeTimer(interval) ==
  /\ at = "timers" /\ Due
  /\ LET t == Head(list)
         next == left[t] + interval[t] IN
     /\ left' = [left EXCEPT ![t] = IF SingleShot[t] THEN 0 ELSE next]
     /\ list' = IF ~SingleShot[t] THEN Insort(Tail(list), t, next) ELSE Tail(list)
  /\ at' = "timerCallback" /\ ops' = MaxOps
  /\ UNCHANGED <<snVars, pollVars, twisted, ready, age, inAct>>
ActivateAgain == ServeTimer([t \in Timers |-> 0])   \* seeded fault
ActivateTimer == ServeTimer(Interval)

EndTimerCallback ==
  /\ at = "timerCallback" /\ at' = "timers" /\ ops' = 0
  /\ UNCHANGED <<timerVars, snVars, pollVars, twisted, ready, age, inAct>>

(* -------------------------------- poll() -------------------------------- *)

\* No timer is due: poll() is called with the time to the first one, cut to
\* milliseconds, or the reactor's if that is shorter, which iterate() found
\* before the timers' callbacks ran.  (A list that became
\* empty in this round gives 0, `served'.)
Floor(ticks) == (ticks \div Ms) * Ms
EnterPoll(timerTime, mark) ==
  /\ at = "timers" /\ ~Due
  /\ \E served \in BOOLEAN :
       LET native == IF list # <<>> THEN timerTime
                     ELSE IF served THEN 0 ELSE None
           then == IF limit = None THEN 0 ELSE limit + age
           to == IF then > 0 THEN Floor(then) ELSE 0
           cut == to > 0 /\ native # None /\ native > to IN
       /\ wait' = IF cut THEN to ELSE native
       /\ reason' = IF cut THEN "timeout" ELSE "none"
  /\ sn' = [n \in Notifiers |-> IF sn[n] = "added" THEN mark ELSE sn[n]]
  /\ asked' = map /\ rev' = {}
  /\ at' = "polling" /\ age' = 0
  /\ UNCHANGED <<timerVars, held, map, fatal, limit, twisted, ready, inAct, ops>>
TimerTime == Floor(left[Head(list)])
PollForever == EnterPoll(None, "polled")        \* seeded fault
PollUnmarked == EnterPoll(IF TimerTime > 0 THEN TimerTime ELSE 0, "added") \* seeded fault
Poll == EnterPoll(IF TimerTime > 0 THEN TimerTime ELSE 0, "polled")

Polled == {f \in Fds : asked[f] # None} \cup {Waker}
PollReturns ==
  /\ at = "polling"
  /\ \/ /\ Polled \cap ready # {}
        /\ rev' = Polled \cap ready /\ at' = "serve" /\ reason' = "none"
     \/ /\ Polled \cap ready = {} /\ wait = 0
        /\ at' = "after" /\ UNCHANGED <<rev, reason>>
  /\ wait' = None
  /\ UNCHANGED <<timerVars, snVars, limit, twisted, ready, age, inAct, ops>>
Signal ==
  /\ at = "polling" /\ Polled \cap ready = {} /\ wait # 0
  /\ at' = "after" /\ reason' = "signal" /\ wait' = None
  /\ UNCHANGED <<timerVars, snVars, rev, limit, twisted, ready, age, inAct, ops>>

(* ------------------------ Serving the descriptors ----------------------- *)

First == CHOOSE f \in rev \ {Waker} : \A g \in rev \ {Waker} : f <= g
\* The notifier that is there now for the descriptor is called if it was in
\* this poll; its callback reads what is there.
Serve(states) ==
  /\ at = "serve" /\ rev \ {Waker} # {}
  /\ rev' = rev \ {First}
  /\ LET n == map[First] IN
     IF n # None /\ sn[n] \in states
     THEN /\ inAct' = n /\ at' = "callback" /\ ops' = MaxOps
          /\ ready' = ready \ {First}
     ELSE UNCHANGED <<inAct, at, ops, ready>>
  /\ UNCHANGED <<timerVars, snVars, wait, limit, reason, twisted, age>>
ActivateAny == Serve({"added", "polled"})   \* seeded fault
Activate == Serve({"polled"})

\* Release() destroys, and stops, a notifier nobody else refers to.
EndCallback ==
  /\ at = "callback" /\ at' = "serve" /\ ops' = 0
  /\ inAct' = None
  /\ IF inAct \in held THEN UNCHANGED <<sn, map, asked>>
     ELSE /\ sn' = [sn EXCEPT ![inAct] = "none"]
          /\ map' = Cleared(map, inAct) /\ asked' = Cleared(asked, inAct)
  /\ UNCHANGED <<timerVars, held, fatal, pollVars, twisted, ready, age>>

\* The reactor's descriptors come last; they go into *res and are read there.
EndServe ==
  /\ at = "serve" /\ rev \subseteq {Waker}
  /\ at' = "after"
  /\ reason' = IF Waker \in rev THEN "res" ELSE "none"
  /\ ready' = ready \ rev /\ rev' = {}
  /\ UNCHANGED <<timerVars, snVars, wait, limit, twisted, age, inAct, ops>>

\* while (!ret && !(res && *res))
Again ==
  /\ at = "after"
  /\ IF reason = "none" THEN at' = "iterate" /\ UNCHANGED <<ops, limit>> ELSE BackToReactor
  /\ reason' = "none" /\ age' = 0 /\ asked' = [f \in Fds |-> None]
  /\ UNCHANGED <<timerVars, sn, held, map, fatal, rev, wait, twisted, ready, inAct>>

(* --------------------------------- World -------------------------------- *)

\* Time passes in poll(), also when it returns at once (then it stands for the
\* time the whole round takes), and while a timer's callback runs, so that the
\* sampled `now' ages.
Older(x, floor) == IF x = None THEN None ELSE IF x > floor THEN x - 1 ELSE x
Tick ==
  /\ \/ /\ at = "polling" /\ UNCHANGED age
        /\ wait = 0 \/ Polled \cap ready # {} => \A t \in Listed : left[t] > 0
     \/ /\ at = "timerCallback" /\ age < Late /\ age' = age + 1
  /\ left' = [t \in Timers |-> IF t \in Listed THEN left[t] - 1 ELSE left[t]]
  /\ wait' = Older(wait, 0) /\ limit' = Older(limit, -Late) /\ call' = Older(call, 0)
  /\ UNCHANGED <<list, snVars, rev, reason, intr, ready, at, inAct, ops>>

\* Only poll() looks, so data that came earlier may as well come now.
DataArrives(f) ==
  /\ at = "polling" /\ f \notin ready /\ ready' = ready \cup {f}
  /\ UNCHANGED <<timerVars, snVars, pollVars, twisted, at, age, inAct, ops>>

Loop == \/ RunCall \/ DoPoll \/ Iterate \/ ActivateTimer \/ EndTimerCallback
        \/ Poll \/ PollReturns \/ Activate \/ EndCallback \/ EndServe \/ Again
Callbacks ==
  \/ \E t \in Timers : StartTimer(t) \/ StopTimer(t)
  \/ \E n \in Notifiers : StartNotifier(n) \/ StopNotifier(n) \/ DropNotifier(n)
  \/ \E d \in Delays : CallLater(d)
Next == Loop \/ Callbacks \/ Tick \/ Signal \/ \E f \in Fds : DataArrives(f)
Spec == Init /\ [][Next]_vars

\* Callbacks return, the loop goes on and the clock too.
FairSpec == Spec /\ WF_vars(Loop) /\ SF_vars(at = "polling" /\ Tick)

(* ------------------------------ Properties ------------------------------ *)

\* The timer list holds every active timer once, the first one due in front,
\* whatever the callbacks start and stop while the loop goes through it.
TimersInOrder ==
  \A i, k \in DOMAIN list : i < k => list[i] # list[k] /\ left[list[i]] <= left[list[k]]

\* No descriptor is watched twice and none is removed that is not there (the
\* ASSERT of addSocketNotifier and the eFatal of removeSocketNotifier), also
\* when a callback drops its own notifier and its descriptor is used again.
NoFatal == ~fatal

\* A notifier is called only for what poll() was asked on its behalf: not
\* after it was stopped, and not for an event of its descriptor's last owner.
NoStaleCallback ==
  [][inAct = None /\ inAct' # None => inAct' = asked[First]]_vars

\* poll() does not sleep past any timer, though it only looks at the first.
WakesForTimer ==
  at = "polling" =>
    \A t \in Listed : wait # None /\ (wait = 0 \/ wait <= left[t])

\* A due timer is served, whatever the other timers and descriptors do.
TimerIsServed ==
  \A t \in Timers : (t \in Listed /\ left[t] <= 0) ~> (left[t] > 0 \/ t \notin Listed)

\* A descriptor with data is served as long as somebody listens to it.
ReadyIsServed ==
  \A n \in Notifiers :
    (sn[n] \in {"added", "polled"} /\ Fd[n] \in ready)
      ~> (sn[n] \notin {"added", "polled"} \/ Fd[n] \notin ready)

\* As long as a timer runs, a poll with a timeout comes back to the reactor.
TimeoutIsKept == limit # None ~> (limit = None \/ list = <<>>)

\* poll() returns in time for the reactor's next call: "a user supplied
\* timeout. enter_loop will return with: ... 1 - timeout" (ebase.h 216).
CallInTime ==
  at = "polling" /\ call # None => wait # None /\ (wait = 0 \/ wait <= call)
=============================================================================
