----------------------------- MODULE ChannelPool -----------------------------
(* eDVBResourceManager's channels and tuners (lib/dvb/dvb.cpp, dvb.h) with  *)
(* the part of eDVBFrontend (lib/dvb/frontend.cpp) that opens and closes a  *)
(* tuner.  A channel is shared: it counts its uses (eUsePtr), and the       *)
(* manager keeps one use of its own of the channel it made last, the cached *)
(* channel, until a timer says that it is the last one for 3 s.  A tuner    *)
(* nobody uses is closed 3 s later, unless a tuner that gets its signal     *)
(* through it is in use.  All of it runs in the main loop.                  *)
(* The calls change several of these at once and call each other, so the    *)
(* state of the manager is one record, `pool', and each call an operator    *)
(* from one such record to the next.                                        *)
EXTENDS Integers, FiniteSets

CONSTANTS
  Chans,       \* transponders with a channel id; one channel object for each
  Raws,        \* those who use a channel without an id: scans, the satfinder ...
  Users,       \* eDVBServicePMTHandlers: the services that play or record
  Tuners, None,
  Tunes,       \* isCompatibleWith: the tuners that can receive a transponder
  RootOf,      \* LINKED_PREV_PTR: the tuner a looped-through one is fed by
  UserBands    \* SATCR: the tuners with a user band on a shared cable

Objects == Chans \cup Raws

ASSUME PoolAssumption ==
  /\ Chans \cap Raws = {} /\ IsFiniteSet(Users) /\ None \notin Objects \cup Tuners
  /\ Tunes \in [Chans -> SUBSET Tuners]
  /\ RootOf \in [Tuners -> Tuners \cup {None}]
  /\ \A t \in Tuners : RootOf[t] # None =>
        RootOf[RootOf[t]] = None /\ RootOf[t] # t /\ RootOf[t] \notin UserBands

VARIABLES
  pool,  \* state, tuner, uses: of each channel object; state "none": it does not exist
         \* cache, conn, timer: m_cached_channel, the channels whose m_stateChanged is
         \*   connected to DVBChannelStateChanged(), m_releaseCachedChannelTimer
         \* inuse, off: of each tuner, m_inuse and the timer `disable'
         \* fe, seq, power: of each tuner, its m_state, what m_sec_sequence does (m_tuneTimer
         \*   runs it: "tune", "close"), and whether it gives the voltage for the cable
  has    \* of each user: m_channel
vars == <<pool, has>>

States == {"idle", "tuning", "failed", "unavailable", "ok", "last_instance"}

(* Every part has its type, and the counters their range: a tuner is used   *)
(* at most once, a channel by each handler twice, as its m_channel and      *)
(* through its eDVBScan, and once by the cache.                             *)
TypeOK ==
  /\ pool.state \in [Objects -> States \cup {"none"}]
  /\ pool.tuner \in [Objects -> Tuners \cup {None}]
  /\ pool.uses \in [Objects -> 0 .. 2 * Cardinality(Users) + 1]
  /\ pool.cache \in Chans \cup {None} /\ pool.conn \subseteq Chans /\ pool.timer \in BOOLEAN
  /\ pool.inuse \in [Tuners -> {0, 1}] /\ pool.off \in [Tuners -> BOOLEAN]
  /\ pool.fe \in [Tuners -> {"closed", "idle", "tuning", "lock", "lost", "failed"}]
  /\ pool.seq \in [Tuners -> {"none", "tune", "close"}] /\ pool.power \in [Tuners -> BOOLEAN]
  /\ has \in [Users -> Chans \cup {None}]

Init ==
  /\ pool = [state |-> [o \in Objects |-> "none"], tuner |-> [o \in Objects |-> None],
             uses |-> [o \in Objects |-> 0],
             cache |-> None, conn |-> {}, timer |-> FALSE,
             inuse |-> [t \in Tuners |-> 0], off |-> [t \in Tuners |-> FALSE],
             fe |-> [t \in Tuners |-> "closed"], seq |-> [t \in Tuners |-> "none"],
             power |-> [t \in Tuners |-> FALSE]]
  /\ has = [u \in Users |-> None]

Alive(m, o) == m.state[o] # "none"
Feeds(t) == {l \in Tuners : RootOf[l] = t}

-----------------------------------------------------------------------------
(* eDVBRegisteredFrontend and eDVBFrontend.                                 *)

Open(m, t) ==
  IF m.fe[t] = "closed" THEN [m EXCEPT !.fe[t] = "idle", !.power[t] = FALSE] ELSE m

Close(m, t) == [m EXCEPT !.fe[t] = "closed", !.seq[t] = "none", !.power[t] = FALSE]

IncUse(m, t) ==
  LET n == [m EXCEPT !.inuse[t] = @ + 1] IN IF n.inuse[t] = 1 THEN Open(n, t) ELSE n

(* Seeded fault: the timer is started only with the next close that fails.  *)
DecUseForgets(m, t) == [m EXCEPT !.inuse[t] = @ - 1]

DecUse(m, t) == [m EXCEPT !.inuse[t] = @ - 1, !.off[t] = @ \/ m.inuse[t] = 1]

(* tune() clears the commands that are left, those of a delayed close too. *)
Tune(m, t) == [m EXCEPT !.fe[t] = "tuning", !.seq[t] = "tune"]

(* Seeded fault: a tuner others are fed by is closed with its own last use. *)
BusyNever(m, t) == FALSE

Busy(m, t) == m.power[t] /\ \E l \in Feeds(t) : m.inuse[l] > 0

(* Seeded fault: the frontend is closed whoever uses it.                    *)
CloseUsed(m, t) ==
  LET n == [m EXCEPT !.off[t] = FALSE]
  IN  IF Busy(n, t) THEN [n EXCEPT !.off[t] = TRUE]
      ELSE IF n.fe[t] # "closed" /\ t \in UserBands THEN [n EXCEPT !.seq[t] = "close"]
      ELSE Close(n, t)

(* The timer `disable': closeFrontend(), and again after 60 s when busy.  A *)
(* tuner with a user band first tells the switch, by a sequence of commands *)
(* of which the last closes it.                                             *)
CloseFrontend(m, t) ==
  LET n == [m EXCEPT !.off[t] = FALSE]
  IN  IF n.inuse[t] > 0 THEN n
      ELSE IF Busy(n, t) THEN [n EXCEPT !.off[t] = TRUE]
      ELSE IF n.fe[t] # "closed" /\ t \in UserBands THEN [n EXCEPT !.seq[t] = "close"]
      ELSE Close(n, t)

(* The commands of a tuner that is fed by another go through that one.      *)
(* When nobody uses it, it is closed, if it has been tuned, and opened for  *)
(* a moment, which starts its timer.                                        *)
Roused(m, r) ==
  LET shut == IF m.fe[r] \in {"closed", "idle"} THEN m ELSE Close(m, r)
  IN  IF m.inuse[r] > 0 \/ shut.fe[r] # "closed" THEN m ELSE DecUse(IncUse(shut, r), r)

(* tuneLoop(): the whole sequence of a tune, which sets the voltage, or of  *)
(* a delayed close, which leaves it as it finds it (sec.cpp:1080-1167).     *)
RunSequence(m, t) ==
  LET r == RootOf[t]
      n == IF r = None THEN m ELSE Roused(m, r)
  IN  IF m.seq[t] = "close" THEN Close(n, t)
      ELSE [n EXCEPT !.seq[t] = "none", !.power[IF r = None THEN t ELSE r] = TRUE]

-----------------------------------------------------------------------------
(* eDVBChannel: uses and states; DVBChannelStateChanged().                  *)

Become(m, o, s) ==
  LET n == [m EXCEPT !.state[o] = s]
  IN  IF o \notin m.conn THEN n
      ELSE IF s \in {"ok", "release"} THEN [n EXCEPT !.timer = FALSE]
      ELSE IF s = "last_instance" THEN [n EXCEPT !.timer = TRUE]
      ELSE n

AddUse(m, o) ==
  LET n == [m EXCEPT !.uses[o] = @ + 1]
  IN  IF n.uses[o] > 1 /\ n.state[o] = "last_instance" THEN Become(n, o, "ok") ELSE n

(* The destructor: removeChannel(), which takes it out of the active        *)
(* channels, and the end of its eDVBAllocatedFrontend.                      *)
Destroy(m, o) ==
  LET t == m.tuner[o]
      n == [m EXCEPT !.state[o] = "none", !.tuner[o] = None, !.conn = @ \ {o}]
  IN  DecUse(n, t)

ReleaseUse(m, o) ==
  LET n == [m EXCEPT !.uses[o] = @ - 1]
  IN  IF n.uses[o] = 0 THEN Destroy(Become(n, o, "release"), o)
      ELSE IF n.uses[o] = 1 THEN Become(n, o, "last_instance") ELSE n

Holders(m, t) == {o \in Objects : m.tuner[o] = t}

(* frontendStateChanged(): a managed channel tunes again when it loses the  *)
(* lock or gets none.                                                       *)
Told(m, t) ==
  LET s == m.fe[t]
      Changed(n, o, new) == IF n.state[o] = new THEN n ELSE Become(n, o, new)
      Tell(o) == CASE s = "lock" -> Changed(m, o, "ok")
                   [] s = "tuning" -> Changed(m, o, "tuning")
                   [] s = "lost" /\ o \in Chans -> Changed(Tune(m, t), o, "tuning")
                   [] s = "lost" /\ o \in Raws -> Changed(m, o, "unavailable")
                   [] s = "failed" /\ o \in Chans -> Changed(Tune(m, t), o, "failed")
                   [] OTHER -> Changed(m, o, "failed")
  IN  IF Holders(m, t) = {} THEN m ELSE Tell(CHOOSE o \in Objects : o \in Holders(m, t))

-----------------------------------------------------------------------------
(* eDVBResourceManager.                                                     *)

DropCache(m) ==
  IF m.cache = None THEN m
  ELSE ReleaseUse([m EXCEPT !.conn = @ \ {m.cache}, !.cache = None, !.timer = FALSE], m.cache)

(* The timer's releaseCachedChannel() leaves the connection.                *)
ReleaseCached(m) ==
  LET n == [m EXCEPT !.timer = FALSE, !.cache = None]
  IN  IF m.cache = None THEN n ELSE ReleaseUse(n, m.cache)

Free(m, c) == {t \in Tunes[c] : m.inuse[t] = 0}

(* A new channel on tuner t: it is cached, and its user has two uses of it. *)
NewChannel(m, c, t) ==
  LET n == Tune(IncUse(m, t), t)
  IN  [n EXCEPT !.state[c] = "tuning", !.tuner[c] = t, !.uses[c] = 3,
                !.cache = c, !.conn = @ \cup {c}]

(* tune() fails, and the channel is destroyed at once.                      *)
NoChannel(m, t) == DecUse(IncUse(m, t), t)

(* allocateChannel(), which the handler follows by its eDVBScan: the new    *)
(* state and the channel the user got.                                      *)
Allocations(m, c) ==
  LET Shared(n) == [pool |-> AddUse(AddUse(n, c), c), got |-> c]
      d == DropCache(m)
  IN  IF m.cache = c THEN {Shared(m)}
      ELSE IF Alive(d, c) THEN {Shared(d)}
      ELSE IF Free(d, c) = {} THEN {[pool |-> d, got |-> None]}
      ELSE {[pool |-> NewChannel(d, c, t), got |-> c] : t \in Free(d, c)}
           \cup {[pool |-> NoChannel(d, t), got |-> None] : t \in Free(d, c)}

(* Seeded fault: the use of the cache is not counted.                       *)
CanAllocateNoCache(m, c, ignore) ==
  LET leaves == /\ ignore # None /\ Alive(m, ignore)
                /\ m.uses[ignore] = 2
      cached == /\ m.cache # None /\ m.uses[m.cache] = 1
                /\ ~(leaves /\ ignore = m.cache)
      Left(t) == m.inuse[t] - (IF leaves /\ m.tuner[ignore] = t THEN 1 ELSE 0)
                            - (IF cached /\ m.tuner[m.cache] = t THEN 1 ELSE 0)
  IN  Alive(m, c) \/ \E t \in Tunes[c] : Left(t) = 0

(* canAllocateChannel(): could c be allocated once the user of channel      *)
(* `ignore' has left it?  The counts of uses tell whether it has another.   *)
CanAllocate(m, c, ignore) ==
  LET leaves == /\ ignore # None /\ Alive(m, ignore)
                /\ m.uses[ignore] = IF ignore = m.cache THEN 3 ELSE 2
      cached == /\ m.cache # None /\ m.uses[m.cache] = 1
                /\ ~(leaves /\ ignore = m.cache)
      Left(t) == m.inuse[t] - (IF leaves /\ m.tuner[ignore] = t THEN 1 ELSE 0)
                            - (IF cached /\ m.tuner[m.cache] = t THEN 1 ELSE 0)
  IN  Alive(m, c) \/ \E t \in Tunes[c] : Left(t) = 0

(* free(): the handler's scan and then its m_channel.                       *)
Leave(m, c) == IF c = None THEN m ELSE ReleaseUse(ReleaseUse(m, c), c)

-----------------------------------------------------------------------------
(* The steps.                                                               *)

Allocate(u, c) ==
  /\ has[u] = None
  /\ \E a \in Allocations(pool, c) : pool' = a.pool /\ has' = [has EXCEPT ![u] = a.got]

FreeChannel(u) ==
  /\ has[u] # None
  /\ pool' = Leave(pool, has[u]) /\ has' = [has EXCEPT ![u] = None]

(* allocateRawChannel() of one tuner; it fails when the tuner, one it is    *)
(* fed by or one it feeds is in use, and the cached channel is dropped.     *)
AllocateRaw(r, t) ==
  LET d == DropCache(pool)
      n == IncUse(d, t)
  IN  /\ ~Alive(pool, r)
      /\ pool' = IF \E l \in {t, RootOf[t]} \cup Feeds(t) : l # None /\ d.inuse[l] > 0 THEN d
                 ELSE [n EXCEPT !.state[r] = "idle", !.tuner[r] = t, !.uses[r] = 1]
      /\ UNCHANGED has

FreeRaw(r) ==
  /\ Alive(pool, r)
  /\ pool' = ReleaseUse(pool, r) /\ UNCHANGED has

(* The user of a raw channel tunes; tune() refuses a closed frontend.       *)
TuneRaw(r) ==
  /\ Alive(pool, r) /\ pool.fe[pool.tuner[r]] # "closed"
  /\ pool' = Told(Tune(pool, pool.tuner[r]), pool.tuner[r]) /\ UNCHANGED has

(* allocatePVRChannel(): a channel without a tuner.                         *)
AllocatePVR == pool.timer /\ pool' = DropCache(pool) /\ UNCHANGED has

ReleaseTimer == pool.timer /\ pool' = ReleaseCached(pool) /\ UNCHANGED has

DisableTimer(t) == pool.off[t] /\ pool' = CloseFrontend(pool, t) /\ UNCHANGED has

TuneLoop(t) == pool.seq[t] # "none" /\ pool' = RunSequence(pool, t) /\ UNCHANGED has

(* feEvent() of a tuner that has been tuned, and timeout().  What a tuner   *)
(* reports while no channel holds it reaches nobody and is left out.        *)
FeEvent(t) ==
  /\ pool.seq[t] # "tune" /\ pool.inuse[t] > 0
  /\ \E to \in {"tuning", "lock", "lost", "failed"} :
       /\ <<pool.fe[t], to>> \in {<<"tuning", "lock">>, <<"tuning", "failed">>,
                                  <<"lock", "lost">>, <<"lock", "tuning">>, <<"lost", "lock">>,
                                  <<"failed", "lock">>, <<"failed", "lost">>}
       /\ pool' = Told([pool EXCEPT !.fe[t] = to], t)
  /\ UNCHANGED has

User ==
  \/ \E u \in Users : FreeChannel(u) \/ \E c \in Chans : Allocate(u, c)
  \/ \E r \in Raws : FreeRaw(r) \/ TuneRaw(r) \/ \E t \in Tuners : AllocateRaw(r, t)
  \/ AllocatePVR
Timers == ReleaseTimer \/ \E t \in Tuners : DisableTimer(t) \/ TuneLoop(t)
Next == User \/ Timers \/ \E t \in Tuners : FeEvent(t)

Spec == Init /\ [][Next]_vars

(* The main loop runs every timer that is due.                              *)
FairSpec ==
  /\ Spec /\ WF_vars(ReleaseTimer)
  /\ \A t \in Tuners : WF_vars(DisableTimer(t)) /\ WF_vars(TuneLoop(t))

-----------------------------------------------------------------------------
(* Whatever the timers, the cache and other users do, the channel of a user *)
(* exists and has a tuner of its own, which is open: the uses are counted   *)
(* by AddUse() and ReleaseUse(), those of the tuner by inc_use(), dec_use() *)
(* and the timer that closes it late (dvb.h:38-52, dvb.cpp:1948-1970).      *)
UserKeepsTuner ==
  \A u \in Users : has[u] # None =>
    LET t == pool.tuner[has[u]]
    IN  t # None /\ pool.inuse[t] = 1 /\ pool.fe[t] # "closed" /\ Holders(pool, t) = {has[u]}

(* The looped-through tuner of a tuned channel gets its voltage: the tuner  *)
(* it is fed by was not closed when its own user left, though its count of  *)
(* uses is 0 (closeFrontend(), frontend.cpp:698-714).  It is not so when a  *)
(* tuner feeds two: the commands of one that is closed late close it under  *)
(* the other (tuneLoopInt(), frontend.cpp:1609-1616).                       *)
FedHasPower ==
  \A c \in Chans :
    LET t == pool.tuner[c]
    IN  t # None /\ RootOf[t] # None /\ pool.seq[t] = "none" => pool.power[RootOf[t]]

(* What canAllocateChannel() promises to a user that would zap from its     *)
(* channel to c is what allocateChannel() does after it has left, no more   *)
(* and no less: the counts 3 and 2 (dvb.cpp:1375-1378) find out who else    *)
(* uses the channel, with the cache, other users and raw channels about.    *)
PromiseIsKept ==
  \A u \in Users, c \in Chans :
    LET left == Leave(pool, has[u])
    IN  CanAllocate(pool, c, has[u]) = \E a \in Allocations(left, c) : a.got = c

(* A tuner that nobody uses is closed in the end, unless it is used again   *)
(* or it feeds a tuner in use: the timer is started with the last dec_use() *)
(* and again after each close that is refused (dvb.h:38-45, dvb.cpp:30-34). *)
TunerIsClosed ==
  \A t \in Tuners :
    (pool.inuse[t] = 0) ~>
      (pool.inuse[t] > 0 \/ pool.fe[t] = "closed" \/ \E l \in Feeds(t) : pool.inuse[l] > 0)

(* A channel of which one reference is left says so, as idvb.h describes    *)
(* its state ("just one reference to this channel is left"); on that its    *)
(* release timer relies.  It does not when the tuner reports in between.    *)
LastInstanceIsTold ==
  \A c \in Chans : Alive(pool, c) /\ pool.uses[c] = 1 => pool.state[c] = "last_instance"
=============================================================================
