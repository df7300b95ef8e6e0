-------------------------- MODULE ChannelPoolProofs --------------------------
(***************************************************************************)
(* Proofs about ChannelPool, for any channels, users and tuners.           *)
(***************************************************************************)
EXTENDS ChannelPool, FiniteSetTheorems, TLAPS

(* What a pool is, "release" included, which a channel is for the moment   *)
(* between its last use and its destructor.                                *)
PoolType ==
  [state : [Objects -> States \cup {"none", "release"}],
   tuner : [Objects -> Tuners \cup {None}],
   uses  : [Objects -> Nat],
   cache : Chans \cup {None}, conn : SUBSET Chans, timer : BOOLEAN,
   inuse : [Tuners -> Int], off : [Tuners -> BOOLEAN],
   fe    : [Tuners -> {"closed", "idle", "tuning", "lock", "lost", "failed"}],
   seq   : [Tuners -> {"none", "tune", "close"}], power : [Tuners -> BOOLEAN]]

LEMMA BecomeEffect ==
  ASSUME NEW m \in PoolType, NEW o \in Objects, NEW s \in States \cup {"release"}
  PROVE  /\ Become(m, o, s) \in PoolType
         /\ Become(m, o, s).state = [m.state EXCEPT ![o] = s]
         /\ Become(m, o, s).tuner = m.tuner /\ Become(m, o, s).uses = m.uses
         /\ Become(m, o, s).cache = m.cache /\ Become(m, o, s).conn = m.conn
         /\ Become(m, o, s).inuse = m.inuse /\ Become(m, o, s).off = m.off
         /\ Become(m, o, s).fe = m.fe /\ Become(m, o, s).seq = m.seq
         /\ Become(m, o, s).power = m.power
BY DEF PoolType, Become, States

LEMMA DecUseEffect ==
  ASSUME NEW m \in PoolType, NEW t \in Tuners
  PROVE  LET n == DecUse(m, t)
         IN  /\ n \in PoolType /\ n.inuse = [m.inuse EXCEPT ![t] = @ - 1]
             /\ n.state = m.state /\ n.tuner = m.tuner /\ n.uses = m.uses /\ n.cache = m.cache
             /\ n.conn = m.conn /\ n.fe = m.fe /\ n.seq = m.seq /\ n.power = m.power
<1>. DEFINE late == m.off[t] \/ m.inuse[t] = 1
<1>1. late \in BOOLEAN
  OBVIOUS
<1>2. DecUse(m, t) = [m EXCEPT !.inuse = [m.inuse EXCEPT ![t] = @ - 1], !.off = [m.off EXCEPT ![t] = late]]
  BY DEF DecUse, PoolType
<1>. HIDE DEF late
<1>3. [m.off EXCEPT ![t] = late] \in [Tuners -> BOOLEAN]
  BY <1>1 DEF PoolType
<1>4. [m.inuse EXCEPT ![t] = @ - 1] \in [Tuners -> Int]
  BY DEF PoolType
<1>. QED BY <1>2, <1>3, <1>4 DEF PoolType

(* The channels that exist are those in use, each has a tuner of its own,  *)
(* and the tuners in use are those of the channels.                        *)
Owned(m) ==
  /\ \A o \in Objects : m.state[o] # "release"
  /\ \A o \in Objects : m.state[o] = "none" <=> m.tuner[o] = None
  /\ \A o \in Objects : m.uses[o] = 0 <=> m.tuner[o] = None
  /\ \A o \in Objects : m.tuner[o] # None => m.inuse[m.tuner[o]] = 1
  /\ \A t \in Tuners : m.inuse[t] \in {0, 1}
  /\ \A t \in Tuners : m.inuse[t] = 1 => \E o \in Objects : m.tuner[o] = t
  /\ \A o, p \in Objects : m.tuner[o] = m.tuner[p] /\ m.tuner[o] # None => o = p

(* The tuner of a managed channel is open and will not be closed late; one *)
(* without a user band is never closed late, and open while it is used.    *)
Fronted(m) ==
  /\ \A c \in Chans : m.tuner[c] # None =>
        m.fe[m.tuner[c]] # "closed" /\ m.seq[m.tuner[c]] # "close"
  /\ \A t \in Tuners : m.seq[t] = "close" => t \in UserBands
  /\ \A t \in Tuners : m.seq[t] = "tune" => m.fe[t] # "closed"
  /\ \A t \in Tuners : m.power[t] => m.fe[t] # "closed"
  /\ \A t \in Tuners : t \notin UserBands /\ m.inuse[t] = 1 => m.fe[t] # "closed"

(* No tuner feeds two.  With two, the late close of one of them closes the  *)
(* tuner that feeds both: its last commands pass that one, which is not in  *)
(* use, and tuneLoop() closes it whoever else is fed (frontend.cpp:1609).   *)
OneEach == \A k, l \in Tuners : RootOf[k] = RootOf[l] /\ RootOf[k] # None => k = l

Powered(m) ==
  \A c \in Chans :
    m.tuner[c] # None /\ RootOf[m.tuner[c]] # None /\ m.seq[m.tuner[c]] = "none"
      => m.power[RootOf[m.tuner[c]]]

Good(m) == m \in PoolType /\ Owned(m) /\ Fronted(m) /\ (OneEach => Powered(m))

LEMMA Kinds ==
  /\ Chans \cap Raws = {} /\ Objects = Chans \cup Raws
  /\ None \notin Objects /\ None \notin Tuners
  /\ \A c \in Chans : Tunes[c] \subseteq Tuners
  /\ \A t \in Tuners : RootOf[t] \in Tuners \cup {None}
  /\ \A t \in Tuners : RootOf[t] # None => RootOf[RootOf[t]] = None /\ RootOf[t] # t /\ RootOf[t] \notin UserBands
BY PoolAssumption DEF Objects

(* One use less: the last one takes the channel along.                     *)
Released(n, m, o) ==
  /\ Good(n) /\ n.uses = [m.uses EXCEPT ![o] = @ - 1] /\ n.cache = m.cache
  /\ n.tuner = IF m.uses[o] = 1 THEN [m.tuner EXCEPT ![o] = None] ELSE m.tuner
  /\ n.inuse = IF m.uses[o] = 1 THEN [m.inuse EXCEPT ![m.tuner[o]] = 0] ELSE m.inuse

LEMMA ReleaseEffect ==
  ASSUME NEW m, Good(m), NEW o \in Objects, m.uses[o] > 0
  PROVE  Released(ReleaseUse(m, o), m, o)
<1>. DEFINE a == [m EXCEPT !.uses[o] = @ - 1]
            n == ReleaseUse(m, o)
            t == m.tuner[o]
<1>. USE Kinds
<1>m. m \in PoolType /\ t \in Tuners /\ m.inuse[t] = 1 /\ m.uses[o] \in Nat
  BY DEF Good, Owned, PoolType
<1>a. /\ a \in PoolType /\ a.uses = [m.uses EXCEPT ![o] = @ - 1] /\ a.state = m.state
      /\ a.tuner = m.tuner /\ a.cache = m.cache /\ a.conn = m.conn /\ a.inuse = m.inuse
      /\ a.off = m.off /\ a.fe = m.fe /\ a.seq = m.seq /\ a.power = m.power
      /\ a.uses[o] = m.uses[o] - 1
  BY <1>m DEF PoolType
<1>. HIDE DEF a
<1>1. CASE m.uses[o] = 1
  <2>. DEFINE b == Become(a, o, "release")
  <2>1. n = Destroy(b, o)
    BY <1>1, <1>a DEF ReleaseUse, a
  <2>2. /\ b \in PoolType /\ b.state = [m.state EXCEPT ![o] = "release"] /\ b.tuner = m.tuner
        /\ b.uses = a.uses /\ b.cache = m.cache /\ b.inuse = m.inuse /\ b.off = m.off
        /\ b.fe = m.fe /\ b.seq = m.seq /\ b.power = m.power
    BY <1>a, BecomeEffect
  <2>. HIDE DEF b, n
  <2>3. /\ n \in PoolType /\ n.state = [b.state EXCEPT ![o] = "none"]
        /\ n.tuner = [b.tuner EXCEPT ![o] = None] /\ n.uses = b.uses /\ n.cache = b.cache
        /\ n.inuse = [b.inuse EXCEPT ![b.tuner[o]] = @ - 1]
        /\ n.fe = b.fe /\ n.seq = b.seq /\ n.power = b.power
    <3>. DEFINE d == [b EXCEPT !.state[o] = "none", !.tuner[o] = None, !.conn = @ \ {o}]
    <3>1. /\ d \in PoolType /\ d.state = [b.state EXCEPT ![o] = "none"]
          /\ d.tuner = [b.tuner EXCEPT ![o] = None] /\ d.uses = b.uses /\ d.cache = b.cache
          /\ d.inuse = b.inuse /\ d.fe = b.fe /\ d.seq = b.seq /\ d.power = b.power
      BY <2>2 DEF PoolType
    <3>2. n = DecUse(d, b.tuner[o]) /\ b.tuner[o] \in Tuners
      BY <2>1, <2>2, <1>m DEF Destroy
    <3>. HIDE DEF d
    <3>. QED BY <3>1, <3>2, DecUseEffect
  <2>4. n.state = [m.state EXCEPT ![o] = "none"] /\ n.inuse = [m.inuse EXCEPT ![t] = 0]
    BY <2>2, <2>3, <1>m DEF PoolType
  <2>5. Owned(n)
    BY <1>1, <1>a, <1>m, <2>2, <2>3, <2>4 DEF Owned, Good, PoolType
  <2>6. Fronted(n) /\ (OneEach => Powered(n))
    BY <1>m, <2>2, <2>3, <2>4 DEF Fronted, Powered, Good, PoolType
  <2>. QED BY <1>1, <1>a, <2>2, <2>3, <2>4, <2>5, <2>6 DEF Good, Released, n
<1>2. CASE m.uses[o] # 1
  <2>1. m.uses[o] > 1 /\ a.uses[o] > 0
    BY <1>2, <1>a, <1>m
  <2>2. n = a \/ n = Become(a, o, "last_instance")
    BY <2>1, <1>a, <1>m DEF ReleaseUse, a
  <2>3. /\ n \in PoolType /\ n.state \in {m.state, [m.state EXCEPT ![o] = "last_instance"]}
        /\ n.tuner = m.tuner /\ n.uses = a.uses /\ n.cache = m.cache /\ n.inuse = m.inuse
        /\ n.off = m.off /\ n.fe = m.fe /\ n.seq = m.seq /\ n.power = m.power
    <3>1. CASE n = a
      BY <3>1, <1>a
    <3>2. CASE n = Become(a, o, "last_instance")
      <4>1. "last_instance" \in States \cup {"release"}
        BY DEF States
      <4>. DEFINE b == Become(a, o, "last_instance")
      <4>2. /\ b \in PoolType /\ b.state = [a.state EXCEPT ![o] = "last_instance"]
            /\ b.tuner = a.tuner /\ b.uses = a.uses /\ b.cache = a.cache /\ b.inuse = a.inuse
            /\ b.off = a.off /\ b.fe = a.fe /\ b.seq = a.seq /\ b.power = a.power
        BY <4>1, <1>a, BecomeEffect
      <4>. HIDE DEF n, b
      <4>3. n = b
        BY <3>2 DEF b
      <4>. QED BY <4>2, <4>3, <1>a
    <3>. QED BY <2>2, <3>1, <3>2
  <2>. HIDE DEF n
  <2>4. Owned(n)
    BY <2>1, <2>3, <1>a, <1>m DEF Owned, Good, PoolType
  <2>5. Fronted(n) /\ (OneEach => Powered(n))
    BY <2>3 DEF Fronted, Powered, Good
  <2>. QED BY <1>2, <1>a, <2>3, <2>4, <2>5 DEF Good, Released, n
<1>. QED BY <1>1, <1>2

(* The manager gives up its use of the cached channel, if there is one:    *)
(* n comes of m by doing so.                                               *)
Dropped(n, m) ==
  /\ Good(n) /\ n.cache = None
  /\ m.cache = None => n.uses = m.uses /\ n.tuner = m.tuner /\ n.inuse = m.inuse
  /\ m.cache # None =>
       /\ n.uses = [m.uses EXCEPT ![m.cache] = @ - 1]
       /\ n.tuner = IF m.uses[m.cache] = 1 THEN [m.tuner EXCEPT ![m.cache] = None] ELSE m.tuner
       /\ n.inuse = IF m.uses[m.cache] = 1 THEN [m.inuse EXCEPT ![m.tuner[m.cache]] = 0] ELSE m.inuse

LEMMA DropEffect ==
  ASSUME NEW m, Good(m), m.cache # None => m.uses[m.cache] > 0
  PROVE  Dropped(DropCache(m), m) /\ Dropped(ReleaseCached(m), m)
<1>m. m \in PoolType /\ m.cache \in Objects \cup {None}
  BY Kinds DEF Good, PoolType
<1>0. ASSUME NEW k \in SUBSET Chans, NEW b \in BOOLEAN
      PROVE  LET a == [m EXCEPT !.conn = k, !.cache = None, !.timer = b]
             IN  Good(a) /\ a.uses = m.uses /\ a.tuner = m.tuner /\ a.inuse = m.inuse /\ a.cache = None
  <2>. DEFINE a == [m EXCEPT !.conn = k, !.cache = None, !.timer = b]
  <2>1. /\ a \in PoolType /\ a.state = m.state /\ a.tuner = m.tuner /\ a.uses = m.uses /\ a.cache = None
        /\ a.inuse = m.inuse /\ a.fe = m.fe /\ a.seq = m.seq /\ a.power = m.power
    BY <1>m DEF PoolType
  <2>. HIDE DEF a
  <2>2. Good(a)
    BY <2>1 DEF Good, Owned, Fronted, Powered
  <2>. QED BY <2>1, <2>2 DEF a
<1>1. CASE m.cache = None
  <2>1. DropCache(m) = m
    BY <1>1 DEF DropCache
  <2>2. ReleaseCached(m) = [m EXCEPT !.conn = m.conn, !.cache = None, !.timer = FALSE]
    BY <1>1, <1>m DEF ReleaseCached, PoolType
  <2>3. m.conn \in SUBSET Chans
    BY <1>m DEF PoolType
  <2>4. Dropped(m, m)
    BY <1>1 DEF Dropped
  <2>5. Dropped(ReleaseCached(m), m)
    <3>. DEFINE b == [m EXCEPT !.conn = m.conn, !.cache = None, !.timer = FALSE]
    <3>1. Good(b) /\ b.uses = m.uses /\ b.tuner = m.tuner /\ b.inuse = m.inuse /\ b.cache = None
      BY <1>0, <2>3
    <3>. HIDE DEF b
    <3>2. Dropped(b, m)
      BY <1>1, <3>1 DEF Dropped
    <3>. QED BY <2>2, <3>2 DEF b
  <2>. QED BY <2>1, <2>4, <2>5
<1>2. CASE m.cache # None
  <2>. DEFINE a == [m EXCEPT !.conn = @ \ {m.cache}, !.cache = None, !.timer = FALSE]
              b == [m EXCEPT !.conn = m.conn, !.cache = None, !.timer = FALSE]
  <2>1. DropCache(m) = ReleaseUse(a, m.cache)
    BY <1>2 DEF DropCache
  <2>2. ReleaseCached(m) = ReleaseUse(b, m.cache)
    BY <1>2, <1>m DEF ReleaseCached, PoolType
  <2>3. Good(a) /\ a.uses = m.uses /\ a.tuner = m.tuner /\ a.inuse = m.inuse /\ a.cache = None
    <3>1. a = [m EXCEPT !.conn = m.conn \ {m.cache}, !.cache = None, !.timer = FALSE]
          /\ m.conn \ {m.cache} \in SUBSET Chans
      BY <1>m DEF PoolType
    <3>. HIDE DEF a
    <3>. QED BY <3>1, <1>0
  <2>4. Good(b) /\ b.uses = m.uses /\ b.tuner = m.tuner /\ b.inuse = m.inuse /\ b.cache = None
    <3>1. m.conn \in SUBSET Chans
      BY <1>m DEF PoolType
    <3>. QED BY <3>1, <1>0
  <2>. HIDE DEF a, b
  <2>5. m.cache \in Objects /\ m.uses[m.cache] > 0
    BY <1>m, <1>2
  <2>6. Dropped(ReleaseUse(a, m.cache), m)
    BY <1>2, <2>3, <2>5, ReleaseEffect DEF Dropped, Released
  <2>7. Dropped(ReleaseUse(b, m.cache), m)
    BY <1>2, <2>4, <2>5, ReleaseEffect DEF Dropped, Released
  <2>. QED BY <2>1, <2>2, <2>6, <2>7
<1>. QED BY <1>1, <1>2

(* One use more of a channel that exists.                                  *)
LEMMA AddEffect ==
  ASSUME NEW m, Good(m), NEW o \in Objects, m.uses[o] > 0
  PROVE  LET n == AddUse(m, o)
         IN  /\ Good(n) /\ n.uses = [m.uses EXCEPT ![o] = @ + 1] /\ n.cache = m.cache
             /\ n.tuner = m.tuner /\ n.inuse = m.inuse
<1>. DEFINE a == [m EXCEPT !.uses[o] = @ + 1]
            b == Become(a, o, "ok")
            n == AddUse(m, o)
<1>m. m \in PoolType /\ m.uses[o] \in Nat
  BY DEF Good, PoolType
<1>1. /\ a \in PoolType /\ a.uses = [m.uses EXCEPT ![o] = @ + 1] /\ a.state = m.state
      /\ a.tuner = m.tuner /\ a.cache = m.cache /\ a.inuse = m.inuse
      /\ a.fe = m.fe /\ a.seq = m.seq /\ a.power = m.power
  BY <1>m DEF PoolType
<1>2. n = a \/ (n = b /\ m.state[o] = "last_instance")
  BY <1>1 DEF AddUse
<1>3. "ok" \in States \cup {"release"}
  BY DEF States
<1>. HIDE DEF a
<1>4. /\ b \in PoolType /\ b.state = [m.state EXCEPT ![o] = "ok"] /\ b.uses = a.uses
      /\ b.tuner = m.tuner /\ b.cache = m.cache /\ b.inuse = m.inuse
      /\ b.fe = m.fe /\ b.seq = m.seq /\ b.power = m.power
  BY <1>1, <1>3, BecomeEffect
<1>. HIDE DEF b, n
<1>5. CASE n = a
  <2>1. Good(a)
    BY <1>1, <1>m DEF Good, Owned, Fronted, Powered, PoolType
  <2>. QED BY <1>5, <1>1, <2>1 DEF n
<1>6. CASE n = b /\ m.state[o] = "last_instance"
  <2>1. Owned(b)
    BY <1>6, <1>1, <1>4, <1>m DEF Good, Owned, PoolType
  <2>2. Fronted(b) /\ (OneEach => Powered(b))
    BY <1>4 DEF Good, Fronted, Powered
  <2>. QED BY <1>6, <1>1, <1>4, <2>1, <2>2 DEF Good, n
<1>. QED BY <1>2, <1>5, <1>6

-----------------------------------------------------------------------------
(* The tuners.                                                             *)

SameBooks(n, m) == n.uses = m.uses /\ n.tuner = m.tuner /\ n.inuse = m.inuse /\ n.cache = m.cache

LEMMA IncUseEffect ==
  ASSUME NEW m \in PoolType, NEW t \in Tuners, m.inuse[t] = 0
  PROVE  LET n == IncUse(m, t)
         IN  /\ n \in PoolType /\ n.inuse = [m.inuse EXCEPT ![t] = 1]
             /\ n.state = m.state /\ n.tuner = m.tuner /\ n.uses = m.uses /\ n.cache = m.cache
             /\ n.seq = m.seq
             /\ n.fe = IF m.fe[t] = "closed" THEN [m.fe EXCEPT ![t] = "idle"] ELSE m.fe
             /\ n.power = IF m.fe[t] = "closed" THEN [m.power EXCEPT ![t] = FALSE] ELSE m.power
<1>. DEFINE a == [m EXCEPT !.inuse[t] = @ + 1]
<1>1. /\ a \in PoolType /\ a.inuse = [m.inuse EXCEPT ![t] = 1] /\ a.inuse[t] = 1
      /\ a.state = m.state /\ a.tuner = m.tuner /\ a.uses = m.uses /\ a.cache = m.cache
      /\ a.seq = m.seq /\ a.fe = m.fe /\ a.power = m.power
  BY DEF PoolType
<1>2. IncUse(m, t) = IF a.inuse[t] = 1 THEN Open(a, t) ELSE a
  BY DEF IncUse
<1>. HIDE DEF a
<1>3. CASE m.fe[t] = "closed"
  <2>1. IncUse(m, t) = [a EXCEPT !.fe[t] = "idle", !.power[t] = FALSE]
    BY <1>1, <1>2, <1>3 DEF Open
  <2>. DEFINE f == [a.fe EXCEPT ![t] = "idle"]
              p == [a.power EXCEPT ![t] = FALSE]
  <2>2. f \in [Tuners -> {"closed", "idle", "tuning", "lock", "lost", "failed"}]
    BY <1>1 DEF PoolType
  <2>3. p \in [Tuners -> BOOLEAN]
    BY <1>1 DEF PoolType
  <2>4. IncUse(m, t) = [a EXCEPT !.fe = f, !.power = p]
    BY <1>1, <2>1 DEF PoolType
  <2>5. f = [m.fe EXCEPT ![t] = "idle"] /\ p = [m.power EXCEPT ![t] = FALSE]
    BY <1>1
  <2>. DEFINE n == IncUse(m, t)
  <2>. HIDE DEF f, p, n
  <2>6. n = [a EXCEPT !.fe = f, !.power = p]
    BY <2>4 DEF n
  <2>7. n \in PoolType
    BY <1>1, <2>2, <2>3, <2>6 DEF PoolType
  <2>8. /\ n.inuse = a.inuse /\ n.state = a.state /\ n.tuner = a.tuner /\ n.uses = a.uses
        /\ n.cache = a.cache /\ n.seq = a.seq /\ n.fe = f /\ n.power = p
    BY <1>1, <2>6 DEF PoolType
  <2>. QED BY <1>1, <1>3, <2>5, <2>7, <2>8 DEF n
<1>4. CASE m.fe[t] # "closed"
  <2>1. IncUse(m, t) = a
    BY <1>1, <1>2, <1>4 DEF Open
  <2>. QED BY <1>1, <1>4, <2>1
<1>. QED BY <1>3, <1>4

LEMMA TuneEffect ==
  ASSUME NEW m \in PoolType, NEW t \in Tuners
  PROVE  LET n == Tune(m, t)
         IN  /\ n \in PoolType /\ SameBooks(n, m) /\ n.state = m.state /\ n.power = m.power
             /\ n.fe = [m.fe EXCEPT ![t] = "tuning"] /\ n.seq = [m.seq EXCEPT ![t] = "tune"]
BY DEF Tune, PoolType, SameBooks

LEMMA CloseEffect ==
  ASSUME NEW m \in PoolType, NEW t \in Tuners
  PROVE  LET n == Close(m, t)
         IN  /\ n \in PoolType /\ SameBooks(n, m) /\ n.state = m.state
             /\ n.fe = [m.fe EXCEPT ![t] = "closed"] /\ n.seq = [m.seq EXCEPT ![t] = "none"]
             /\ n.power = [m.power EXCEPT ![t] = FALSE]
BY DEF Close, PoolType, SameBooks

LEMMA TuneGood ==
  ASSUME NEW m, Good(m), NEW t \in Tuners
  PROVE  Good(Tune(m, t)) /\ SameBooks(Tune(m, t), m)
<1>. DEFINE n == Tune(m, t)
<1>1. /\ n \in PoolType /\ SameBooks(n, m) /\ n.state = m.state /\ n.power = m.power
      /\ n.fe = [m.fe EXCEPT ![t] = "tuning"] /\ n.seq = [m.seq EXCEPT ![t] = "tune"]
  BY TuneEffect DEF Good
<1>. HIDE DEF n
<1>2. Owned(n)
  BY <1>1 DEF Good, Owned, SameBooks
<1>3. Fronted(n)
  BY <1>1, Kinds DEF Good, Fronted, SameBooks, PoolType
<1>4. OneEach => Powered(n)
  BY <1>1, Kinds DEF Good, Powered, SameBooks, PoolType
<1>. QED BY <1>1, <1>2, <1>3, <1>4 DEF Good, n

LEMMA BecomeGood ==
  ASSUME NEW m, Good(m), NEW o \in Objects, m.tuner[o] # None, NEW s \in States
  PROVE  Good(Become(m, o, s)) /\ SameBooks(Become(m, o, s), m)
<1>. DEFINE n == Become(m, o, s)
<1>1. /\ n \in PoolType /\ SameBooks(n, m) /\ n.state = [m.state EXCEPT ![o] = s]
      /\ n.fe = m.fe /\ n.seq = m.seq /\ n.power = m.power
  BY BecomeEffect DEF Good, SameBooks
<1>. HIDE DEF n
<1>2. Owned(n)
  BY <1>1 DEF Good, Owned, SameBooks, States, PoolType
<1>3. Fronted(n) /\ (OneEach => Powered(n))
  BY <1>1 DEF Good, Fronted, Powered, SameBooks
<1>. QED BY <1>1, <1>2, <1>3 DEF Good, n

(* A tuner's report changes the state of its channel, and may make it tune *)
(* again.                                                                  *)
LEMMA ToldGood ==
  ASSUME NEW m, Good(m), NEW t \in Tuners
  PROVE  Good(Told(m, t)) /\ SameBooks(Told(m, t), m)
<1>. DEFINE Kept(n) == Good(n) /\ SameBooks(n, m)
            Changed(n, o, new) == IF n.state[o] = new THEN n ELSE Become(n, o, new)
<1>1. Kept(m) /\ Kept(Tune(m, t))
  BY TuneGood DEF SameBooks
<1>2. CASE Holders(m, t) = {}
  BY <1>1, <1>2 DEF Told
<1>3. CASE Holders(m, t) # {}
  <2>. DEFINE o == CHOOSE x \in Objects : x \in Holders(m, t)
  <2>1. o \in Objects /\ m.tuner[o] # None
    BY <1>3, Kinds DEF Holders
  <2>. HIDE DEF o
  <2>2. ASSUME NEW n, Kept(n), NEW new \in States PROVE Kept(Changed(n, o, new))
    <3>1. Kept(Become(n, o, new))
      <4>1. Good(n) /\ SameBooks(n, m) /\ n.tuner[o] # None
        BY <2>1, <2>2 DEF SameBooks
      <4>2. Good(Become(n, o, new)) /\ SameBooks(Become(n, o, new), n)
        BY <2>1, <4>1, BecomeGood
      <4>. QED BY <4>1, <4>2 DEF SameBooks
    <3>. QED BY <2>2, <3>1
  <2>3. Told(m, t) \in {Changed(m, o, "ok"), Changed(m, o, "tuning"), Changed(Tune(m, t), o, "tuning"),
                        Changed(m, o, "unavailable"), Changed(Tune(m, t), o, "failed"),
                        Changed(m, o, "failed")}
    BY <1>3 DEF Told, o
  <2>4. "ok" \in States /\ "tuning" \in States /\ "unavailable" \in States /\ "failed" \in States
    BY DEF States
  <2>. HIDE DEF Changed, Kept
  <2>5. Kept(Told(m, t))
    BY <1>1, <2>2, <2>3, <2>4
  <2>. QED BY <2>5 DEF Kept
<1>. QED BY <1>2, <1>3

(* A use of a tuner that ends where it began: the tuner may be open now.   *)
LEMMA UsedForAMoment ==
  ASSUME NEW m \in PoolType, NEW t \in Tuners, m.inuse[t] = 0
  PROVE  LET n == DecUse(IncUse(m, t), t)
         IN  /\ n \in PoolType /\ SameBooks(n, m) /\ n.state = m.state /\ n.seq = m.seq
             /\ n.fe = IF m.fe[t] = "closed" THEN [m.fe EXCEPT ![t] = "idle"] ELSE m.fe
             /\ n.power = IF m.fe[t] = "closed" THEN [m.power EXCEPT ![t] = FALSE] ELSE m.power
<1>. DEFINE a == IncUse(m, t)
            n == DecUse(a, t)
<1>1. /\ a \in PoolType /\ a.inuse = [m.inuse EXCEPT ![t] = 1]
      /\ a.state = m.state /\ a.tuner = m.tuner /\ a.uses = m.uses /\ a.cache = m.cache
      /\ a.seq = m.seq
      /\ a.fe = IF m.fe[t] = "closed" THEN [m.fe EXCEPT ![t] = "idle"] ELSE m.fe
      /\ a.power = IF m.fe[t] = "closed" THEN [m.power EXCEPT ![t] = FALSE] ELSE m.power
  BY IncUseEffect
<1>. HIDE DEF a
<1>2. /\ n \in PoolType /\ n.inuse = [a.inuse EXCEPT ![t] = @ - 1]
      /\ n.state = a.state /\ n.tuner = a.tuner /\ n.uses = a.uses /\ n.cache = a.cache
      /\ n.fe = a.fe /\ n.seq = a.seq /\ n.power = a.power
  BY <1>1, DecUseEffect
<1>. HIDE DEF n
<1>3. n.inuse = m.inuse
  BY <1>1, <1>2 DEF PoolType
<1>. QED BY <1>1, <1>2, <1>3 DEF SameBooks, n, a

(* A new channel on a tuner that nobody uses.                              *)
Made(n, m, c, t) ==
  /\ Good(n) /\ n.uses = [m.uses EXCEPT ![c] = 3] /\ n.cache = c
  /\ n.tuner = [m.tuner EXCEPT ![c] = t] /\ n.inuse = [m.inuse EXCEPT ![t] = 1]

LEMMA NewChannelEffect ==
  ASSUME NEW m, Good(m), NEW c \in Chans, NEW t \in Tuners, m.tuner[c] = None, m.inuse[t] = 0
  PROVE  Made(NewChannel(m, c, t), m, c, t)
<1>. DEFINE a == IncUse(m, t)
            b == Tune(a, t)
            n == NewChannel(m, c, t)
<1>m. m \in PoolType /\ c \in Objects
  BY Kinds DEF Good
<1>1. /\ a \in PoolType /\ a.inuse = [m.inuse EXCEPT ![t] = 1]
      /\ a.state = m.state /\ a.tuner = m.tuner /\ a.uses = m.uses
      /\ a.seq = m.seq
      /\ a.fe = IF m.fe[t] = "closed" THEN [m.fe EXCEPT ![t] = "idle"] ELSE m.fe
      /\ a.power = IF m.fe[t] = "closed" THEN [m.power EXCEPT ![t] = FALSE] ELSE m.power
  BY <1>m, IncUseEffect
<1>. HIDE DEF a
<1>2. /\ b \in PoolType /\ SameBooks(b, a) /\ b.state = a.state /\ b.power = a.power
      /\ b.fe = [a.fe EXCEPT ![t] = "tuning"] /\ b.seq = [a.seq EXCEPT ![t] = "tune"]
  BY <1>1, TuneEffect
<1>3. n = [b EXCEPT !.state[c] = "tuning", !.tuner[c] = t, !.uses[c] = 3,
                    !.cache = c, !.conn = @ \cup {c}]
  BY DEF NewChannel, a
<1>. HIDE DEF b
<1>4. /\ n \in PoolType /\ n.state = [m.state EXCEPT ![c] = "tuning"]
      /\ n.tuner = [m.tuner EXCEPT ![c] = t] /\ n.uses = [m.uses EXCEPT ![c] = 3] /\ n.cache = c
      /\ n.inuse = a.inuse /\ n.fe = b.fe /\ n.seq = b.seq /\ n.power = a.power
  <2>1. b.state = m.state /\ b.tuner = m.tuner /\ b.uses = m.uses /\ b.inuse = a.inuse /\ b.power = a.power
    BY <1>1, <1>2 DEF SameBooks
  <2>. DEFINE s == [b.state EXCEPT ![c] = "tuning"]
              w == [b.tuner EXCEPT ![c] = t]
              k == [b.uses EXCEPT ![c] = 3]
              q == b.conn \cup {c}
  <2>2. s \in [Objects -> States \cup {"none", "release"}]
    BY <1>2, <1>m DEF PoolType, States
  <2>3. w \in [Objects -> Tuners \cup {None}] /\ k \in [Objects -> Nat] /\ q \in SUBSET Chans
    BY <1>2, <1>m DEF PoolType
  <2>4. n = [b EXCEPT !.state = s, !.tuner = w, !.uses = k, !.cache = c, !.conn = q]
    BY <1>2, <1>3 DEF PoolType
  <2>5. s = [m.state EXCEPT ![c] = "tuning"] /\ w = [m.tuner EXCEPT ![c] = t] /\ k = [m.uses EXCEPT ![c] = 3]
    BY <2>1
  <2>. HIDE DEF n, s, w, k, q
  <2>. QED BY <1>2, <2>1, <2>2, <2>3, <2>4, <2>5 DEF PoolType
<1>. HIDE DEF n
<1>5. n.fe = [m.fe EXCEPT ![t] = "tuning"] /\ n.seq = [m.seq EXCEPT ![t] = "tune"]
  BY <1>1, <1>2, <1>4, <1>m DEF PoolType
<1>6. \A o \in Objects : m.tuner[o] # t
  BY Kinds DEF Good, Owned
<1>7. Owned(n)
  BY <1>1, <1>4, <1>6, <1>m, Kinds DEF Good, Owned, PoolType
<1>8. Fronted(n)
  BY <1>1, <1>4, <1>5, <1>6, <1>m, Kinds DEF Good, Fronted, PoolType
<1>9. OneEach => Powered(n)
  <2>1. \A k \in Tuners : m.power[k] => n.power[k]
    BY <1>1, <1>4, <1>m DEF Good, Fronted, PoolType
  <2>. QED BY <1>4, <1>5, <1>6, <1>m, <2>1, Kinds DEF Good, Powered, PoolType
<1>. QED BY <1>1, <1>4, <1>7, <1>8, <1>9 DEF Good, Made, n

LEMMA MomentGood ==
  ASSUME NEW m, Good(m), NEW t \in Tuners, m.inuse[t] = 0
  PROVE  LET n == DecUse(IncUse(m, t), t)
         IN  Good(n) /\ SameBooks(n, m)
<1>. DEFINE n == DecUse(IncUse(m, t), t)
<1>m. m \in PoolType
  BY DEF Good
<1>1. /\ n \in PoolType /\ SameBooks(n, m) /\ n.state = m.state /\ n.seq = m.seq
      /\ n.fe = IF m.fe[t] = "closed" THEN [m.fe EXCEPT ![t] = "idle"] ELSE m.fe
      /\ n.power = IF m.fe[t] = "closed" THEN [m.power EXCEPT ![t] = FALSE] ELSE m.power
  BY <1>m, UsedForAMoment
<1>. HIDE DEF n
<1>2. Owned(n)
  BY <1>1 DEF Good, Owned, SameBooks
<1>3. Fronted(n)
  BY <1>1, <1>m, Kinds DEF Good, Fronted, SameBooks, PoolType
<1>4. OneEach => Powered(n)
  <2>1. \A k \in Tuners : m.power[k] => n.power[k]
    BY <1>1, <1>m DEF Good, Fronted, PoolType
  <2>. QED BY <1>1, <1>m, <2>1, Kinds DEF Good, Powered, SameBooks, PoolType
<1>. QED BY <1>1, <1>2, <1>3, <1>4 DEF Good, n

(* A raw channel takes a tuner that nobody uses.                           *)
Lent(n, m, r, t) ==
  /\ Good(n) /\ n.uses = [m.uses EXCEPT ![r] = 1] /\ n.cache = m.cache
  /\ n.tuner = [m.tuner EXCEPT ![r] = t]

LEMMA RawEffect ==
  ASSUME NEW m, Good(m), NEW r \in Raws, NEW t \in Tuners, m.tuner[r] = None, m.inuse[t] = 0
  PROVE  Lent([IncUse(m, t) EXCEPT !.state[r] = "idle", !.tuner[r] = t, !.uses[r] = 1], m, r, t)
<1>. DEFINE a == IncUse(m, t)
            n == [a EXCEPT !.state[r] = "idle", !.tuner[r] = t, !.uses[r] = 1]
<1>m. m \in PoolType /\ r \in Objects /\ r \notin Chans
  BY Kinds DEF Good
<1>1. /\ a \in PoolType /\ a.inuse = [m.inuse EXCEPT ![t] = 1]
      /\ a.state = m.state /\ a.tuner = m.tuner /\ a.uses = m.uses /\ a.cache = m.cache
      /\ a.seq = m.seq
      /\ a.fe = IF m.fe[t] = "closed" THEN [m.fe EXCEPT ![t] = "idle"] ELSE m.fe
      /\ a.power = IF m.fe[t] = "closed" THEN [m.power EXCEPT ![t] = FALSE] ELSE m.power
  BY <1>m, IncUseEffect
<1>n. n = [a EXCEPT !.state[r] = "idle", !.tuner[r] = t, !.uses[r] = 1]
  OBVIOUS
<1>. HIDE DEF a
<1>2. /\ n \in PoolType /\ n.state = [m.state EXCEPT ![r] = "idle"]
      /\ n.tuner = [m.tuner EXCEPT ![r] = t] /\ n.uses = [m.uses EXCEPT ![r] = 1] /\ n.cache = m.cache
      /\ n.inuse = a.inuse /\ n.fe = a.fe /\ n.seq = m.seq /\ n.power = a.power
  <2>. DEFINE s == [a.state EXCEPT ![r] = "idle"]
              w == [a.tuner EXCEPT ![r] = t]
              k == [a.uses EXCEPT ![r] = 1]
  <2>1. s \in [Objects -> States \cup {"none", "release"}]
    BY <1>1, <1>m DEF PoolType, States
  <2>2. w \in [Objects -> Tuners \cup {None}] /\ k \in [Objects -> Nat]
    BY <1>1, <1>m DEF PoolType
  <2>3. n = [a EXCEPT !.state = s, !.tuner = w, !.uses = k]
    BY <1>1, <1>n DEF PoolType
  <2>4. s = [m.state EXCEPT ![r] = "idle"] /\ w = [m.tuner EXCEPT ![r] = t] /\ k = [m.uses EXCEPT ![r] = 1]
    BY <1>1
  <2>. HIDE DEF s, w, k, n
  <2>5. n \in PoolType
    BY <1>1, <2>1, <2>2, <2>3 DEF PoolType
  <2>6. n.state = s /\ n.tuner = w /\ n.uses = k /\ n.cache = a.cache
    BY <1>1, <2>3 DEF PoolType
  <2>7. n.inuse = a.inuse /\ n.fe = a.fe /\ n.seq = a.seq /\ n.power = a.power
    BY <1>1, <2>3 DEF PoolType
  <2>. QED BY <1>1, <2>4, <2>5, <2>6, <2>7
<1>. HIDE DEF n
<1>w. \A o \in Objects : /\ n.tuner[o] = IF o = r THEN t ELSE m.tuner[o]
                         /\ n.uses[o] = IF o = r THEN 1 ELSE m.uses[o]
                         /\ n.state[o] = IF o = r THEN "idle" ELSE m.state[o]
  BY <1>2, <1>m DEF PoolType
<1>i. \A k \in Tuners : n.inuse[k] = IF k = t THEN 1 ELSE m.inuse[k]
  BY <1>1, <1>2, <1>m DEF PoolType
<1>3. \A o \in Objects : m.tuner[o] # t
  BY Kinds DEF Good, Owned
<1>4. Owned(n)
  <2>1. \A o \in Objects : m.tuner[o] \in Tuners \cup {None}
    BY <1>m DEF PoolType
  <2>. QED BY <1>i, <1>w, <1>3, <1>m, <2>1, Kinds DEF Good, Owned
<1>5. Fronted(n)
  BY <1>1, <1>2, <1>3, <1>m, Kinds DEF Good, Fronted, PoolType
<1>6. OneEach => Powered(n)
  <2>1. \A k \in Tuners : m.power[k] => n.power[k]
    BY <1>1, <1>2, <1>m DEF Good, Fronted, PoolType
  <2>2. \A x \in Chans : n.tuner[x] = m.tuner[x]
    BY <1>2, <1>m, Kinds DEF PoolType
  <2>. QED BY <1>2, <2>1, <2>2, <1>m, Kinds DEF Good, Powered, PoolType
<1>. QED BY <1>2, <1>4, <1>5, <1>6 DEF Good, Lent, n, a

(* A tuner may be closed that no managed channel holds, that a raw channel *)
(* holds only with a user band, and whose power no fed channel relies on.  *)
LEMMA CloseGood ==
  ASSUME NEW m, Good(m), NEW t \in Tuners,
         \A c \in Chans : m.tuner[c] # t,
         t \notin UserBands => m.inuse[t] = 0,
         OneEach => \A c \in Chans : m.tuner[c] # None /\ RootOf[m.tuner[c]] = t
                                       => m.seq[m.tuner[c]] # "none"
  PROVE  Good(Close(m, t)) /\ SameBooks(Close(m, t), m)
<1>. DEFINE n == Close(m, t)
<1>m. m \in PoolType
  BY DEF Good
<1>1. /\ n \in PoolType /\ SameBooks(n, m) /\ n.state = m.state
      /\ n.fe = [m.fe EXCEPT ![t] = "closed"] /\ n.seq = [m.seq EXCEPT ![t] = "none"]
      /\ n.power = [m.power EXCEPT ![t] = FALSE]
  BY <1>m, CloseEffect
<1>. HIDE DEF n
<1>2. Owned(n)
  BY <1>1 DEF Good, Owned, SameBooks
<1>3. Fronted(n)
  BY <1>1, <1>m, Kinds DEF Good, Fronted, SameBooks, PoolType
<1>4. OneEach => Powered(n)
  <2>. SUFFICES ASSUME OneEach, NEW c \in Chans,
                       n.tuner[c] # None, RootOf[n.tuner[c]] # None, n.seq[n.tuner[c]] = "none"
                PROVE  n.power[RootOf[n.tuner[c]]]
    BY DEF Powered
  <2>1. m.tuner[c] = n.tuner[c] /\ m.tuner[c] \in Tuners /\ m.tuner[c] # t
    BY <1>1, <1>m, Kinds DEF SameBooks, PoolType
  <2>2. m.seq[m.tuner[c]] = "none"
    BY <1>1, <1>m, <2>1 DEF PoolType
  <2>3. m.power[RootOf[m.tuner[c]]] /\ RootOf[m.tuner[c]] # t
    BY <2>1, <2>2 DEF Good, Powered
  <2>4. RootOf[m.tuner[c]] \in Tuners
    BY <2>1, Kinds
  <2>. QED BY <1>1, <1>m, <2>1, <2>3, <2>4 DEF PoolType
<1>. QED BY <1>1, <1>2, <1>3, <1>4 DEF Good, n

(* The late close of a tuner.                                              *)
LEMMA LateGood ==
  ASSUME NEW m, Good(m), NEW t \in Tuners
  PROVE  Good(CloseFrontend(m, t)) /\ SameBooks(CloseFrontend(m, t), m)
<1>. DEFINE Kept(n) == Good(n) /\ SameBooks(n, m)
            a == [m EXCEPT !.off[t] = FALSE]
            b == [a EXCEPT !.off[t] = TRUE]
            d == [a EXCEPT !.seq[t] = "close"]
<1>m. m \in PoolType
  BY DEF Good
<1>1. /\ a \in PoolType /\ SameBooks(a, m) /\ a.state = m.state /\ a.inuse = m.inuse
      /\ a.fe = m.fe /\ a.seq = m.seq /\ a.power = m.power
  <2>. DEFINE o == [m.off EXCEPT ![t] = FALSE]
  <2>1. o \in [Tuners -> BOOLEAN] /\ a = [m EXCEPT !.off = o]
    BY <1>m DEF PoolType
  <2>. HIDE DEF o
  <2>. QED BY <1>m, <2>1 DEF PoolType, SameBooks
<1>2. Kept(a)
  <2>. HIDE DEF a
  <2>. QED BY <1>1 DEF Good, Owned, Fronted, Powered, SameBooks
<1>. HIDE DEF a
<1>3. Kept(b)
  <2>. DEFINE o == [a.off EXCEPT ![t] = TRUE]
  <2>1. o \in [Tuners -> BOOLEAN] /\ b = [a EXCEPT !.off = o]
    BY <1>1 DEF PoolType
  <2>. HIDE DEF o, b
  <2>2. /\ b \in PoolType /\ SameBooks(b, m) /\ b.state = m.state /\ b.inuse = m.inuse
        /\ b.fe = m.fe /\ b.seq = m.seq /\ b.power = m.power
    BY <1>1, <2>1 DEF PoolType, SameBooks
  <2>. QED BY <2>2 DEF Good, Owned, Fronted, Powered, SameBooks
<1>4. CASE a.inuse[t] > 0 \/ Busy(a, t)
  BY <1>2, <1>3, <1>4 DEF CloseFrontend, a
<1>5. CASE ~(a.inuse[t] > 0) /\ ~Busy(a, t)
  <2>1. m.inuse[t] = 0 /\ \A c \in Chans : m.tuner[c] # t
    BY <1>1, <1>5, Kinds DEF Good, Owned
  <2>2. OneEach => \A c \in Chans : m.tuner[c] # None /\ RootOf[m.tuner[c]] = t
                                      => m.seq[m.tuner[c]] # "none"
    <3>. SUFFICES ASSUME OneEach, NEW c \in Chans, m.tuner[c] # None, RootOf[m.tuner[c]] = t,
                         m.seq[m.tuner[c]] = "none"
                  PROVE  FALSE
      OBVIOUS
    <3>1. m.tuner[c] \in Feeds(t) /\ m.inuse[m.tuner[c]] = 1
      BY <1>m, Kinds DEF Feeds, Good, Owned, PoolType
    <3>2. m.power[t]
      BY Kinds DEF Good, Powered
    <3>. QED BY <1>1, <1>5, <3>1, <3>2 DEF Busy
  <2>3. CASE a.fe[t] # "closed" /\ t \in UserBands
    <3>1. CloseFrontend(m, t) = d
      BY <1>5, <2>3 DEF CloseFrontend, a
    <3>. HIDE DEF d
    <3>2. /\ d \in PoolType /\ SameBooks(d, m) /\ d.state = m.state /\ d.fe = m.fe /\ d.power = m.power
          /\ d.seq = [m.seq EXCEPT ![t] = "close"]
      BY <1>1 DEF PoolType, SameBooks, d
    <3>3. Owned(d)
      BY <3>2 DEF Good, Owned, SameBooks
    <3>4. Fronted(d)
      BY <1>m, <2>1, <2>3, <3>2, Kinds DEF Good, Fronted, SameBooks, PoolType
    <3>5. OneEach => Powered(d)
      BY <1>m, <2>1, <3>2, Kinds DEF Good, Powered, SameBooks, PoolType
    <3>. QED BY <3>1, <3>2, <3>3, <3>4, <3>5 DEF Good
  <2>4. CASE ~(a.fe[t] # "closed" /\ t \in UserBands)
    <3>1. CloseFrontend(m, t) = Close(a, t)
      BY <1>5, <2>4 DEF CloseFrontend, a
    <3>2. Good(Close(a, t)) /\ SameBooks(Close(a, t), a)
      BY <1>1, <1>2, <2>1, <2>2, CloseGood DEF SameBooks
    <3>. QED BY <1>1, <3>1, <3>2 DEF SameBooks
  <2>. QED BY <2>3, <2>4
<1>. QED BY <1>4, <1>5

(* The tuner that feeds another is open when a command is to pass it, and  *)
(* nobody but the tuner it feeds may miss the power it has lost.           *)
LEMMA RousedGood ==
  ASSUME NEW m, Good(m), NEW t \in Tuners, RootOf[t] # None,
         m.seq[t] # "none"
  PROVE  LET n == Roused(m, RootOf[t])
         IN  /\ Good(n) /\ SameBooks(n, m) /\ n.fe[RootOf[t]] # "closed"
             /\ n.seq[t] = m.seq[t] /\ n.fe[t] = m.fe[t]
<1>. DEFINE r == RootOf[t]
            n == Roused(m, r)
            shut == IF m.fe[r] \in {"closed", "idle"} THEN m ELSE Close(m, r)
            open == DecUse(IncUse(shut, r), r)
<1>m. m \in PoolType /\ r \in Tuners /\ r # t /\ r \notin UserBands /\ m.inuse[r] \in {0, 1}
  BY Kinds DEF Good, Owned
<1>0. SameBooks(m, m)
  BY DEF SameBooks
<1>1. CASE m.inuse[r] = 1
  <2>1. n = m
    BY <1>1 DEF Roused
  <2>2. m.fe[r] # "closed"
    BY <1>1, <1>m DEF Good, Fronted
  <2>. QED BY <1>0, <2>1, <2>2
<1>2. CASE m.inuse[r] = 0
  <2>1. \A c \in Chans : m.tuner[c] # r
    BY <1>2, <1>m, Kinds DEF Good, Owned
  <2>2. OneEach => \A c \in Chans : m.tuner[c] # None /\ RootOf[m.tuner[c]] = r
                                      => m.seq[m.tuner[c]] # "none"
    BY <1>m, Kinds DEF OneEach, PoolType
  <2>3. /\ Good(shut) /\ SameBooks(shut, m) /\ shut.seq[t] = m.seq[t] /\ shut.fe[t] = m.fe[t]
        /\ shut.fe[r] = "closed" \/ (shut = m /\ m.fe[r] # "closed")
    <3>1. CASE m.fe[r] \in {"closed", "idle"}
      BY <1>0, <3>1
    <3>2. CASE m.fe[r] \notin {"closed", "idle"}
      <4>1. Good(Close(m, r)) /\ SameBooks(Close(m, r), m)
        BY <1>m, <1>2, <2>1, <2>2, CloseGood
      <4>. DEFINE k == Close(m, r)
      <4>2. k.fe = [m.fe EXCEPT ![r] = "closed"] /\ k.seq = [m.seq EXCEPT ![r] = "none"]
        BY <1>m, CloseEffect
      <4>. HIDE DEF k
      <4>3. k.seq[t] = m.seq[t] /\ k.fe[t] = m.fe[t] /\ k.fe[r] = "closed"
        BY <1>m, <4>2 DEF PoolType
      <4>. QED BY <3>2, <4>1, <4>3 DEF k
    <3>. QED BY <3>1, <3>2
  <2>4. n = IF shut.fe[r] # "closed" THEN m ELSE open
    BY <1>2 DEF Roused
  <2>. HIDE DEF shut, n
  <2>5. CASE shut.fe[r] # "closed"
    BY <1>0, <2>3, <2>4, <2>5 DEF n
  <2>6. CASE shut.fe[r] = "closed"
    <3>1. shut.inuse[r] = 0 /\ shut \in PoolType
      BY <1>2, <2>3 DEF SameBooks, Good
    <3>2. Good(open) /\ SameBooks(open, shut)
      BY <1>m, <2>3, <3>1, MomentGood
    <3>3. open.seq = shut.seq /\ open.fe = [shut.fe EXCEPT ![r] = "idle"]
      BY <1>m, <2>6, <3>1, UsedForAMoment
    <3>4. open.fe[r] = "idle" /\ open.fe[t] = shut.fe[t]
      BY <1>m, <3>1, <3>3 DEF PoolType
    <3>. HIDE DEF open
    <3>. QED BY <2>3, <2>4, <2>6, <3>2, <3>3, <3>4 DEF SameBooks, n
  <2>. QED BY <2>5, <2>6
<1>. QED BY <1>m, <1>1, <1>2

LEMMA SequenceGood ==
  ASSUME NEW m, Good(m), NEW t \in Tuners, m.seq[t] # "none"
  PROVE  Good(RunSequence(m, t)) /\ SameBooks(RunSequence(m, t), m)
<1>. DEFINE r == RootOf[t]
            n == IF r = None THEN m ELSE Roused(m, r)
            p == IF r = None THEN t ELSE r
            q == [n EXCEPT !.seq[t] = "none", !.power[p] = TRUE]
<1>m. m \in PoolType /\ p \in Tuners
  BY Kinds DEF Good
<1>1. /\ Good(n) /\ SameBooks(n, m) /\ n.seq[t] = m.seq[t] /\ n.fe[t] = m.fe[t]
      /\ r # None => n.fe[r] # "closed"
  BY RousedGood DEF SameBooks
<1>2. RunSequence(m, t) = IF m.seq[t] = "close" THEN Close(n, t) ELSE q
  BY DEF RunSequence
<1>. HIDE DEF n
<1>n. n \in PoolType
  BY <1>1 DEF Good
<1>3. CASE m.seq[t] = "close"
  <2>1. t \in UserBands /\ \A c \in Chans : n.tuner[c] # t
    BY <1>1, <1>3, Kinds DEF Good, Fronted
  <2>2. \A k \in Tuners : RootOf[k] # t
    BY <2>1, Kinds
  <2>3. \A c \in Chans : n.tuner[c] # None => n.tuner[c] \in Tuners
    BY <1>n, Kinds DEF PoolType
  <2>4. Good(Close(n, t)) /\ SameBooks(Close(n, t), n)
    BY <1>1, <2>1, <2>2, <2>3, CloseGood
  <2>. QED BY <1>1, <1>2, <1>3, <2>4 DEF SameBooks
<1>4. CASE m.seq[t] # "close"
  <2>1. m.seq[t] = "tune"
    BY <1>4, <1>m DEF PoolType
  <2>. DEFINE e == [n.seq EXCEPT ![t] = "none"]
              w == [n.power EXCEPT ![p] = TRUE]
  <2>2. e \in [Tuners -> {"none", "tune", "close"}]
    BY <1>n DEF PoolType
  <2>3. w \in [Tuners -> BOOLEAN]
    BY <1>n DEF PoolType
  <2>4. q = [n EXCEPT !.seq = e, !.power = w]
    BY <1>n DEF PoolType
  <2>5. \A k \in Tuners : e[k] = IF k = t THEN "none" ELSE n.seq[k]
    BY <1>n DEF PoolType
  <2>p. w[p] /\ \A k \in Tuners : k # p => w[k] = n.power[k]
    <3>1. DOMAIN n.power = Tuners
      BY <1>n DEF PoolType
    <3>. QED BY <1>m, <3>1
  <2>. HIDE DEF e, w, q, p
  <2>6. q \in PoolType
    BY <1>n, <2>2, <2>3, <2>4 DEF PoolType
  <2>7. SameBooks(q, n) /\ q.state = n.state /\ q.fe = n.fe /\ q.seq = e /\ q.power = w
    BY <1>n, <2>4 DEF PoolType, SameBooks
  <2>8. Owned(q)
    BY <1>1, <2>7 DEF Good, Owned, SameBooks
  <2>9. n.fe[p] # "closed"
    BY <1>1, <2>1 DEF Good, Fronted, p
  <2>10. Fronted(q)
    <3>1. \A k \in Tuners : w[k] => n.fe[k] # "closed"
      BY <1>1, <2>p, <2>9 DEF Good, Fronted
    <3>2. \A k \in Tuners : e[k] # "none" => e[k] = n.seq[k]
      BY <2>5
    <3>3. \A c \in Chans : n.tuner[c] # None => n.tuner[c] \in Tuners
      BY <1>n, Kinds DEF PoolType
    <3>. QED BY <1>1, <2>7, <3>1, <3>2, <3>3 DEF Good, Fronted, SameBooks
  <2>11. OneEach => Powered(q)
    <3>. SUFFICES ASSUME OneEach, NEW c \in Chans,
                         q.tuner[c] # None, RootOf[q.tuner[c]] # None, q.seq[q.tuner[c]] = "none"
                  PROVE  q.power[RootOf[q.tuner[c]]]
      BY DEF Powered
    <3>1. q.tuner[c] = n.tuner[c] /\ n.tuner[c] \in Tuners /\ RootOf[n.tuner[c]] \in Tuners
      BY <1>n, <2>7, Kinds DEF SameBooks, PoolType
    <3>2. CASE n.tuner[c] = t
      <4>1. p = RootOf[n.tuner[c]]
        BY <3>1, <3>2 DEF p
      <4>. QED BY <2>7, <2>p, <3>1, <4>1
    <3>3. CASE n.tuner[c] # t
      <4>1. n.power[RootOf[n.tuner[c]]]
        BY <1>1, <2>5, <2>7, <3>1, <3>3 DEF Good, Powered
      <4>. QED BY <2>7, <2>p, <3>1, <4>1
    <3>. QED BY <3>2, <3>3
  <2>. QED BY <1>1, <1>2, <1>4, <2>6, <2>7, <2>8, <2>10, <2>11 DEF Good, SameBooks
<1>. QED BY <1>3, <1>4

LEMMA ReportGood ==
  ASSUME NEW m, Good(m), NEW t \in Tuners, NEW s \in {"tuning", "lock", "lost", "failed"}
  PROVE  LET n == Told([m EXCEPT !.fe[t] = s], t)
         IN  Good(n) /\ SameBooks(n, m)
<1>. DEFINE a == [m EXCEPT !.fe[t] = s]
<1>1. /\ a \in PoolType /\ SameBooks(a, m) /\ a.state = m.state /\ a.seq = m.seq /\ a.power = m.power
      /\ a.fe = [m.fe EXCEPT ![t] = s]
  BY DEF Good, PoolType, SameBooks
<1>. HIDE DEF a
<1>2. Owned(a)
  BY <1>1 DEF Good, Owned, SameBooks
<1>3. Fronted(a)
  BY <1>1, Kinds DEF Good, Fronted, SameBooks, PoolType
<1>4. OneEach => Powered(a)
  BY <1>1 DEF Good, Powered, SameBooks
<1>5. Good(a)
  BY <1>1, <1>2, <1>3, <1>4 DEF Good
<1>6. Good(Told(a, t)) /\ SameBooks(Told(a, t), a)
  BY <1>5, ToldGood
<1>. QED BY <1>1, <1>6 DEF SameBooks, a

-----------------------------------------------------------------------------
(* The books of the channels: each user counts two uses of its channel, the *)
(* cache one, and a raw channel has one user; a channel's tuner receives it. *)
Holding(h, c) == {u \in Users : h[u] = c}

Counted(m, h) ==
  /\ h \in [Users -> Chans \cup {None}]
  /\ \A c \in Chans : m.uses[c] = 2 * Cardinality(Holding(h, c)) + IF m.cache = c THEN 1 ELSE 0
  /\ \A r \in Raws : m.uses[r] \in {0, 1}
  /\ \A c \in Chans : m.tuner[c] # None => m.tuner[c] \in Tunes[c]

PoolInv == Good(pool) /\ Counted(pool, has)

LEMMA HoldingSize ==
  ASSUME NEW h, NEW c
  PROVE  /\ IsFiniteSet(Holding(h, c)) /\ Cardinality(Holding(h, c)) \in 0 .. Cardinality(Users)
         /\ Cardinality(Users) \in Nat
         /\ Cardinality(Holding(h, c)) = 0 <=> Holding(h, c) = {}
<1>1. IsFiniteSet(Users) /\ Holding(h, c) \subseteq Users
  BY PoolAssumption DEF Holding
<1>2. IsFiniteSet(Holding(h, c)) /\ Cardinality(Holding(h, c)) <= Cardinality(Users)
  BY <1>1, FS_Subset
<1>3. Cardinality(Holding(h, c)) \in Nat /\ Cardinality(Users) \in Nat
  BY <1>1, <1>2, FS_CardinalityType
<1>4. Cardinality(Holding(h, c)) = 0 <=> Holding(h, c) = {}
  BY <1>2, FS_EmptySet
<1>. QED BY <1>2, <1>3, <1>4

(* g is what h becomes when one user more holds c. *)
Joined(g, h, c) ==
  /\ g \in [Users -> Chans \cup {None}]
  /\ Cardinality(Holding(g, c)) = Cardinality(Holding(h, c)) + 1
  /\ \A d \in Chans : d # c => Holding(g, d) = Holding(h, d)

LEMMA Joins ==
  ASSUME NEW h \in [Users -> Chans \cup {None}], NEW u \in Users, NEW c \in Chans, h[u] = None
  PROVE  Joined([h EXCEPT ![u] = c], h, c)
<1>. DEFINE g == [h EXCEPT ![u] = c]
<1>1. Holding(g, c) = Holding(h, c) \cup {u} /\ u \notin Holding(h, c)
  BY Kinds DEF Holding
<1>2. \A d \in Chans : d # c => Holding(g, d) = Holding(h, d)
  BY Kinds DEF Holding
<1>3. IsFiniteSet(Holding(h, c))
  BY HoldingSize
<1>4. Cardinality(Holding(g, c)) = Cardinality(Holding(h, c)) + 1
  BY <1>1, <1>3, FS_AddElement
<1>5. g \in [Users -> Chans \cup {None}]
  OBVIOUS
<1>. HIDE DEF g
<1>6. Joined(g, h, c)
  BY <1>2, <1>4, <1>5 DEF Joined
<1>. QED BY <1>6 DEF g

LEMMA Leaves ==
  ASSUME NEW h \in [Users -> Chans \cup {None}], NEW u \in Users, h[u] # None
  PROVE  LET g == [h EXCEPT ![u] = None]
             c == h[u]
         IN  /\ g \in [Users -> Chans \cup {None}] /\ c \in Chans
             /\ Cardinality(Holding(h, c)) >= 1
             /\ Cardinality(Holding(g, c)) = Cardinality(Holding(h, c)) - 1
             /\ \A d \in Chans : d # c => Holding(g, d) = Holding(h, d)
<1>. DEFINE g == [h EXCEPT ![u] = None]
            c == h[u]
<1>1. c \in Chans /\ None \notin Chans
  BY Kinds
<1>2. Holding(g, c) = Holding(h, c) \ {u} /\ u \in Holding(h, c)
  BY <1>1 DEF Holding
<1>3. \A d \in Chans : d # c => Holding(g, d) = Holding(h, d)
  BY <1>1 DEF Holding
<1>4. IsFiniteSet(Holding(h, c)) /\ Cardinality(Holding(h, c)) \in Nat /\ Cardinality(Holding(h, c)) # 0
  BY <1>2, HoldingSize
<1>5. Cardinality(Holding(g, c)) = Cardinality(Holding(h, c)) - 1
  BY <1>2, <1>4, FS_RemoveElement
<1>6. g \in [Users -> Chans \cup {None}] /\ Cardinality(Holding(h, c)) >= 1
  BY <1>4
<1>. QED BY <1>1, <1>3, <1>5, <1>6

(* What the counts say of one channel.                                     *)
LEMMA Uses ==
  ASSUME NEW m, NEW h, Good(m), Counted(m, h)
  PROVE  /\ m.cache # None => m.cache \in Chans /\ m.uses[m.cache] > 0 /\ m.tuner[m.cache] # None
         /\ \A u \in Users : h[u] # None =>
              h[u] \in Chans /\ m.uses[h[u]] >= 2 /\ m.tuner[h[u]] # None
         /\ \A o \in Objects : Alive(m, o) <=> m.tuner[o] # None
         /\ \A o \in Objects : m.uses[o] > 0 <=> m.tuner[o] # None
<1>m. m \in PoolType
  BY DEF Good
<1>1. \A o \in Objects : Alive(m, o) <=> m.tuner[o] # None
  BY DEF Good, Owned, Alive
<1>2. \A o \in Objects : m.uses[o] > 0 <=> m.tuner[o] # None
  BY <1>m DEF Good, Owned, PoolType
<1>3. m.cache # None => m.cache \in Chans /\ m.uses[m.cache] > 0
  BY <1>m, HoldingSize DEF Counted, PoolType
<1>4. ASSUME NEW u \in Users, h[u] # None PROVE h[u] \in Chans /\ m.uses[h[u]] >= 2
  <2>1. h[u] \in Chans /\ Cardinality(Holding(h, h[u])) >= 1
    BY <1>4, Leaves DEF Counted
  <2>. QED BY <2>1, HoldingSize DEF Counted
<1>5. ASSUME NEW u \in Users, h[u] # None PROVE m.tuner[h[u]] # None
  <2>1. h[u] \in Objects /\ m.uses[h[u]] > 0
    BY <1>4, <1>5, <1>m, Kinds DEF PoolType
  <2>. QED BY <1>2, <2>1
<1>. QED BY <1>1, <1>2, <1>3, <1>4, <1>5, Kinds

LEMMA BooksCounted ==
  ASSUME NEW m, NEW h, Counted(m, h), NEW n, SameBooks(n, m)
  PROVE  Counted(n, h)
BY DEF Counted, SameBooks

LEMMA DropCounted ==
  ASSUME NEW m, NEW h, Good(m), Counted(m, h)
  PROVE  /\ Dropped(DropCache(m), m) /\ Counted(DropCache(m), h)
         /\ Dropped(ReleaseCached(m), m) /\ Counted(ReleaseCached(m), h)
<1>1. Dropped(DropCache(m), m) /\ Dropped(ReleaseCached(m), m)
  BY Uses, DropEffect
<1>2. ASSUME NEW n, Dropped(n, m) PROVE Counted(n, h)
  <2>m. m \in PoolType
    BY DEF Good
  <2>1. CASE m.cache = None
    BY <1>2, <2>1, Kinds DEF Counted, Dropped
  <2>2. CASE m.cache # None
    <3>1. m.cache \in Chans /\ n.cache = None /\ n.uses = [m.uses EXCEPT ![m.cache] = @ - 1]
      BY <1>2, <2>2, Uses DEF Dropped
    <3>2. \A c \in Chans : n.uses[c] = 2 * Cardinality(Holding(h, c)) + IF n.cache = c THEN 1 ELSE 0
      BY <2>m, <3>1, Kinds, HoldingSize DEF Counted, PoolType
    <3>3. \A r \in Raws : n.uses[r] \in {0, 1}
      BY <2>m, <3>1, Kinds DEF Counted, PoolType
    <3>4. \A c \in Chans : n.tuner[c] \in {m.tuner[c], None}
      BY <1>2, <2>m, <2>2, <3>1, Kinds DEF Dropped, PoolType
    <3>. QED BY <3>2, <3>3, <3>4 DEF Counted
  <2>. QED BY <2>1, <2>2
<1>. QED BY <1>1, <1>2

(* Two uses more of a channel that exists, for a user that joins.          *)
LEMMA SharedKeeps ==
  ASSUME NEW m, NEW h, Good(m), Counted(m, h), NEW c \in Chans, m.uses[c] > 0,
         NEW u \in Users, h[u] = None
  PROVE  Good(AddUse(AddUse(m, c), c)) /\ Counted(AddUse(AddUse(m, c), c), [h EXCEPT ![u] = c])
<1>. DEFINE a == AddUse(m, c)
            n == AddUse(a, c)
            g == [h EXCEPT ![u] = c]
<1>m. m \in PoolType /\ c \in Objects /\ m.uses \in [Objects -> Nat]
  BY Kinds DEF Good, PoolType
<1>1. Good(a) /\ a.uses = [m.uses EXCEPT ![c] = @ + 1] /\ a.cache = m.cache /\ a.tuner = m.tuner
  BY <1>m, AddEffect
<1>. HIDE DEF a
<1>2. a.uses[c] > 0
  BY <1>1, <1>m
<1>3. Good(n) /\ n.uses = [a.uses EXCEPT ![c] = @ + 1] /\ n.cache = a.cache /\ n.tuner = a.tuner
  BY <1>1, <1>2, <1>m, AddEffect
<1>. HIDE DEF n
<1>4. n.uses = [m.uses EXCEPT ![c] = @ + 2]
  BY <1>1, <1>3, <1>m
<1>g. Joined(g, h, c)
  BY Joins DEF Counted
<1>. HIDE DEF g
<1>5. /\ g \in [Users -> Chans \cup {None}]
      /\ Cardinality(Holding(g, c)) = Cardinality(Holding(h, c)) + 1
      /\ \A d \in Chans : d # c => Holding(g, d) = Holding(h, d)
  BY <1>g DEF Joined
<1>6. \A d \in Chans : n.uses[d] = 2 * Cardinality(Holding(g, d)) + IF n.cache = d THEN 1 ELSE 0
  BY <1>1, <1>3, <1>4, <1>5, <1>m, Kinds, HoldingSize DEF Counted
<1>7. \A r \in Raws : n.uses[r] \in {0, 1}
  BY <1>4, <1>m, Kinds DEF Counted
<1>8. Counted(n, g)
  BY <1>1, <1>3, <1>5, <1>6, <1>7 DEF Counted
<1>. QED BY <1>3, <1>8 DEF n, a, g

(* What is left when a user of c has gone.                                 *)
Departed(n, m, c) ==
  /\ Good(n) /\ n.uses = [m.uses EXCEPT ![c] = @ - 2] /\ n.cache = m.cache
  /\ n.tuner = IF m.uses[c] = 2 THEN [m.tuner EXCEPT ![c] = None] ELSE m.tuner

LEMMA LeaveEffect ==
  ASSUME NEW m, NEW h, Good(m), Counted(m, h), NEW u \in Users, h[u] # None
  PROVE  /\ Departed(Leave(m, h[u]), m, h[u])
         /\ Counted(Leave(m, h[u]), [h EXCEPT ![u] = None])
<1>. DEFINE c == h[u]
            a == ReleaseUse(m, c)
            n == ReleaseUse(a, c)
            g == [h EXCEPT ![u] = None]
<1>m. /\ m \in PoolType /\ c \in Chans /\ c \in Objects /\ m.uses \in [Objects -> Nat] /\ m.uses[c] >= 2
      /\ m.uses[c] \in Nat /\ c # None
  BY Uses, Kinds DEF Good, PoolType
<1>1. /\ g \in [Users -> Chans \cup {None}]
      /\ Cardinality(Holding(g, c)) = Cardinality(Holding(h, c)) - 1
      /\ \A d \in Chans : d # c => Holding(g, d) = Holding(h, d)
  BY Leaves DEF Counted
<1>0. Leave(m, c) = n
  BY <1>m DEF Leave
<1>. HIDE DEF c, g
<1>2. Good(a) /\ a.uses = [m.uses EXCEPT ![c] = @ - 1] /\ a.cache = m.cache
      /\ a.tuner = m.tuner /\ a.inuse = m.inuse
  <2>1. m.uses[c] > 0 /\ m.uses[c] # 1
    BY <1>m
  <2>. QED BY <1>m, <2>1, ReleaseEffect DEF Released
<1>. HIDE DEF a
<1>3. a.uses[c] = m.uses[c] - 1 /\ a.uses[c] > 0
  BY <1>m, <1>2
<1>4. /\ Good(n) /\ n.uses = [a.uses EXCEPT ![c] = @ - 1] /\ n.cache = a.cache
      /\ n.tuner = IF a.uses[c] = 1 THEN [a.tuner EXCEPT ![c] = None] ELSE a.tuner
      /\ n.inuse = IF a.uses[c] = 1 THEN [a.inuse EXCEPT ![a.tuner[c]] = 0] ELSE a.inuse
  BY <1>m, <1>2, <1>3, ReleaseEffect DEF Released
<1>. HIDE DEF n
<1>5. n.uses = [m.uses EXCEPT ![c] = @ - 2] /\ (a.uses[c] = 1 <=> m.uses[c] = 2)
  BY <1>m, <1>2, <1>3, <1>4
<1>6. \A d \in Chans : n.uses[d] = 2 * Cardinality(Holding(g, d)) + IF n.cache = d THEN 1 ELSE 0
  BY <1>1, <1>2, <1>4, <1>5, <1>m, Kinds, HoldingSize DEF Counted
<1>7. \A r \in Raws : n.uses[r] \in {0, 1}
  BY <1>5, <1>m, Kinds DEF Counted
<1>8. \A d \in Chans : n.tuner[d] \in {m.tuner[d], None}
  BY <1>2, <1>4, <1>m, Kinds DEF PoolType
<1>9. Counted(n, g)
  BY <1>1, <1>6, <1>7, <1>8 DEF Counted
<1>10. Departed(n, m, c)
  BY <1>2, <1>4, <1>5 DEF Departed
<1>. QED BY <1>0, <1>9, <1>10 DEF c, g
-----------------------------------------------------------------------------
(* The steps.                                                              *)

LEMMA AllocateKeeps ==
  ASSUME PoolInv, NEW u \in Users, NEW c \in Chans, Allocate(u, c)
  PROVE  PoolInv'
<1>. DEFINE m == pool
            d == DropCache(m)
            g == [has EXCEPT ![u] = c]
            nc(t) == NewChannel(d, c, t)
            no(t) == NoChannel(d, t)
<1>1. Good(m) /\ Counted(m, has) /\ has[u] = None /\ has \in [Users -> Chans \cup {None}]
  BY DEF PoolInv, Allocate, Counted
<1>2. Dropped(d, m) /\ Good(d) /\ Counted(d, has) /\ d.cache = None /\ d \in PoolType
  BY <1>1, DropCounted DEF Dropped, Good
<1>3. [has EXCEPT ![u] = None] = has
  BY <1>1
<1>4. PICK a \in Allocations(m, c) : pool' = a.pool /\ has' = [has EXCEPT ![u] = a.got]
  BY DEF Allocate
<1>5. CASE m.cache = c
  <2>1. a = [pool |-> AddUse(AddUse(m, c), c), got |-> c]
    BY <1>4, <1>5 DEF Allocations
  <2>2. m.uses[c] > 0
    BY <1>1, <1>5, Uses, Kinds
  <2>3. Good(AddUse(AddUse(m, c), c)) /\ Counted(AddUse(AddUse(m, c), c), g)
    BY <1>1, <2>2, SharedKeeps
  <2>. QED BY <1>4, <2>1, <2>3 DEF PoolInv
<1>6. CASE m.cache # c /\ Alive(d, c)
  <2>1. a = [pool |-> AddUse(AddUse(d, c), c), got |-> c]
    BY <1>4, <1>6 DEF Allocations
  <2>2. d.uses[c] > 0
    BY <1>2, <1>6, Uses, Kinds
  <2>3. Good(AddUse(AddUse(d, c), c)) /\ Counted(AddUse(AddUse(d, c), c), g)
    BY <1>1, <1>2, <2>2, SharedKeeps
  <2>. QED BY <1>4, <2>1, <2>3 DEF PoolInv
<1>7. CASE m.cache # c /\ ~Alive(d, c)
  <2>1. CASE a = [pool |-> d, got |-> None]
    BY <1>2, <1>3, <1>4, <2>1 DEF PoolInv
  <2>2. ASSUME NEW t \in Free(d, c), a = [pool |-> nc(t), got |-> c] PROVE PoolInv'
    <3>1. t \in Tuners /\ t \in Tunes[c] /\ d.inuse[t] = 0 /\ d.tuner[c] = None /\ d.uses[c] = 0
      <4>1. d.tuner[c] = None
        BY <1>2, <1>7, Uses, Kinds
      <4>2. d.uses[c] = 0
        BY <1>2, <4>1, Kinds DEF Good, Owned
      <4>. QED BY <4>1, <4>2, Kinds DEF Free
    <3>2. /\ Good(nc(t)) /\ nc(t).uses = [d.uses EXCEPT ![c] = 3] /\ nc(t).cache = c
          /\ nc(t).tuner = [d.tuner EXCEPT ![c] = t]
      <4>1. Made(nc(t), d, c, t)
        BY <1>2, <3>1, NewChannelEffect
      <4>. QED BY <4>1 DEF Made
    <3>3. Joined(g, has, c)
      BY <1>1, Joins
    <3>. HIDE DEF g, nc
    <3>4. /\ g \in [Users -> Chans \cup {None}]
          /\ Cardinality(Holding(g, c)) = Cardinality(Holding(has, c)) + 1
          /\ \A b \in Chans : b # c => Holding(g, b) = Holding(has, b)
      BY <3>3 DEF Joined
    <3>5. Cardinality(Holding(has, c)) = 0
      <4>1. d.uses[c] = 2 * Cardinality(Holding(has, c)) + IF d.cache = c THEN 1 ELSE 0
        BY <1>2 DEF Counted
      <4>. QED BY <1>2, <3>1, <4>1, Kinds, HoldingSize
    <3>6. d.uses \in [Objects -> Nat] /\ d.tuner \in [Objects -> Tuners \cup {None}] /\ c \in Objects
      BY <1>2, Kinds DEF PoolType
    <3>7. \A b \in Chans : nc(t).uses[b] = 2 * Cardinality(Holding(g, b)) + IF nc(t).cache = b THEN 1 ELSE 0
      <4>1. nc(t).uses[c] = 2 * Cardinality(Holding(g, c)) + IF nc(t).cache = c THEN 1 ELSE 0
        BY <3>2, <3>4, <3>5, <3>6
      <4>2. ASSUME NEW b \in Chans, b # c
            PROVE  nc(t).uses[b] = 2 * Cardinality(Holding(g, b)) + IF nc(t).cache = b THEN 1 ELSE 0
        BY <1>2, <3>2, <3>4, <3>6, <4>2, Kinds DEF Counted
      <4>. QED BY <4>1, <4>2
    <3>8. \A r \in Raws : nc(t).uses[r] \in {0, 1}
      BY <1>2, <3>2, <3>6, Kinds DEF Counted
    <3>9. \A b \in Chans : nc(t).tuner[b] # None => nc(t).tuner[b] \in Tunes[b]
      BY <1>2, <3>1, <3>2, <3>6, Kinds DEF Counted
    <3>10. Counted(nc(t), g)
      BY <3>4, <3>7, <3>8, <3>9 DEF Counted
    <3>. QED BY <1>4, <2>2, <3>2, <3>10 DEF PoolInv, g
  <2>3. ASSUME NEW t \in Free(d, c), a = [pool |-> no(t), got |-> None] PROVE PoolInv'
    <3>1. t \in Tuners /\ d.inuse[t] = 0
      BY Kinds DEF Free
    <3>2. Good(no(t)) /\ SameBooks(no(t), d)
      BY <1>2, <3>1, MomentGood DEF NoChannel
    <3>. HIDE DEF no
    <3>3. Counted(no(t), has)
      BY <1>2, <3>2, BooksCounted
    <3>. QED BY <1>3, <1>4, <2>3, <3>2, <3>3 DEF PoolInv
  <2>4. \/ a = [pool |-> d, got |-> None]
        \/ \E t \in Free(d, c) : a = [pool |-> nc(t), got |-> c]
        \/ \E t \in Free(d, c) : a = [pool |-> no(t), got |-> None]
    BY <1>4, <1>7 DEF Allocations
  <2>. QED BY <2>1, <2>2, <2>3, <2>4
<1>. QED BY <1>5, <1>6, <1>7

LEMMA RawKeeps ==
  ASSUME PoolInv, NEW r \in Raws
  PROVE  (FreeRaw(r) \/ TuneRaw(r) \/ \E t \in Tuners : AllocateRaw(r, t)) => PoolInv'
<1>. DEFINE m == pool
            d == DropCache(m)
<1>1. Good(m) /\ Counted(m, has) /\ m \in PoolType /\ r \in Objects /\ r \notin Chans
  BY Kinds DEF PoolInv, Good
<1>2. Good(d) /\ Counted(d, has) /\ Dropped(d, m) /\ d \in PoolType
  BY <1>1, DropCounted DEF Dropped, Good
<1>3. ASSUME NEW t \in Tuners, AllocateRaw(r, t) PROVE PoolInv'
  <2>. DEFINE n == [IncUse(d, t) EXCEPT !.state[r] = "idle", !.tuner[r] = t, !.uses[r] = 1]
  <2>1. (pool' = d \/ (pool' = n /\ ~(d.inuse[t] > 0))) /\ has' = has
    BY <1>3, Kinds DEF AllocateRaw
  <2>2. CASE pool' = d
    BY <1>2, <2>1, <2>2 DEF PoolInv
  <2>3. CASE pool' = n /\ ~(d.inuse[t] > 0)
    <3>1. d.inuse[t] = 0
      BY <1>2, <2>3 DEF Good, Owned
    <3>2. m.tuner[r] = None
      BY <1>1, <1>3, Uses DEF AllocateRaw
    <3>3. d.tuner[r] = None
      BY <1>1, <1>2, <3>2, Kinds DEF Dropped, PoolType
    <3>l. Lent(n, d, r, t)
      BY <1>2, <3>1, <3>3, RawEffect
    <3>. HIDE DEF n
    <3>4. /\ Good(n) /\ n.uses = [d.uses EXCEPT ![r] = 1] /\ n.cache = d.cache
          /\ n.tuner = [d.tuner EXCEPT ![r] = t]
      BY <3>l DEF Lent
    <3>5. d.uses \in [Objects -> Nat] /\ d.tuner \in [Objects -> Tuners \cup {None}]
      BY <1>2 DEF PoolType
    <3>6. Counted(n, has)
      BY <1>1, <1>2, <3>4, <3>5, Kinds DEF Counted
    <3>. QED BY <2>1, <2>3, <3>4, <3>6 DEF PoolInv
  <2>. QED BY <2>1, <2>2, <2>3
<1>4. ASSUME FreeRaw(r) PROVE PoolInv'
  <2>. DEFINE n == ReleaseUse(m, r)
  <2>1. pool' = n /\ has' = has /\ m.uses[r] > 0
    BY <1>1, <1>4, Uses DEF FreeRaw
  <2>2. m.uses[r] = 1
    BY <1>1, <2>1 DEF Counted
  <2>r. Released(n, m, r)
    BY <1>1, <2>1, ReleaseEffect
  <2>3. /\ Good(n) /\ n.uses = [m.uses EXCEPT ![r] = @ - 1] /\ n.cache = m.cache
        /\ n.tuner = [m.tuner EXCEPT ![r] = None]
    BY <2>2, <2>r DEF Released
  <2>. HIDE DEF n
  <2>4. Counted(n, has)
    BY <1>1, <2>2, <2>3, Kinds DEF Counted, PoolType
  <2>. QED BY <2>1, <2>3, <2>4 DEF PoolInv
<1>5. ASSUME TuneRaw(r) PROVE PoolInv'
  <2>. DEFINE t == m.tuner[r]
              n == Told(Tune(m, t), t)
  <2>1. pool' = n /\ has' = has /\ t \in Tuners
    BY <1>1, <1>5, Uses, Kinds DEF TuneRaw, PoolType
  <2>2. Good(Tune(m, t)) /\ SameBooks(Tune(m, t), m)
    BY <1>1, <2>1, TuneGood
  <2>3. Good(n) /\ SameBooks(n, Tune(m, t))
    BY <2>1, <2>2, ToldGood
  <2>4. SameBooks(n, m)
    BY <2>2, <2>3 DEF SameBooks
  <2>. HIDE DEF n
  <2>. QED BY <1>1, <2>1, <2>3, <2>4, BooksCounted DEF PoolInv
<1>. QED BY <1>3, <1>4, <1>5

(* Every step keeps the tuners and the books.                              *)
LEMMA PoolStep ==
  ASSUME PoolInv, [Next]_vars
  PROVE  PoolInv'
<1>. DEFINE m == pool
<1>1. Good(m) /\ Counted(m, has)
  BY DEF PoolInv
<1>2. ASSUME NEW n, Good(n), SameBooks(n, m), pool' = n, has' = has PROVE PoolInv'
  BY <1>1, <1>2, BooksCounted DEF PoolInv
<1>3. ASSUME NEW u \in Users, FreeChannel(u) PROVE PoolInv'
  <2>1. has[u] # None /\ pool' = Leave(m, has[u]) /\ has' = [has EXCEPT ![u] = None]
    BY <1>3 DEF FreeChannel
  <2>2. Good(Leave(m, has[u])) /\ Counted(Leave(m, has[u]), [has EXCEPT ![u] = None])
    BY <1>1, <2>1, LeaveEffect DEF Departed
  <2>. QED BY <2>1, <2>2 DEF PoolInv
<1>4. ASSUME AllocatePVR PROVE PoolInv'
  BY <1>1, <1>4, DropCounted DEF AllocatePVR, PoolInv, Dropped
<1>5. ASSUME ReleaseTimer PROVE PoolInv'
  BY <1>1, <1>5, DropCounted DEF ReleaseTimer, PoolInv, Dropped
<1>6. ASSUME NEW t \in Tuners, DisableTimer(t) PROVE PoolInv'
  BY <1>1, <1>2, <1>6, LateGood DEF DisableTimer
<1>7. ASSUME NEW t \in Tuners, TuneLoop(t) PROVE PoolInv'
  BY <1>1, <1>2, <1>7, SequenceGood DEF TuneLoop
<1>8. ASSUME NEW t \in Tuners, FeEvent(t) PROVE PoolInv'
  <2>1. PICK s \in {"tuning", "lock", "lost", "failed"} :
          pool' = Told([m EXCEPT !.fe[t] = s], t) /\ has' = has
    BY <1>8 DEF FeEvent
  <2>2. Good(Told([m EXCEPT !.fe[t] = s], t)) /\ SameBooks(Told([m EXCEPT !.fe[t] = s], t), m)
    BY <1>1, ReportGood
  <2>. QED BY <1>2, <2>1, <2>2
<1>9. CASE UNCHANGED vars
  BY <1>1, <1>9 DEF vars, PoolInv
<1>10. ASSUME NEW u \in Users, NEW c \in Chans, Allocate(u, c) PROVE PoolInv'
  BY <1>10, AllocateKeeps
<1>11. ASSUME NEW r \in Raws, FreeRaw(r) \/ TuneRaw(r) \/ \E t \in Tuners : AllocateRaw(r, t)
       PROVE  PoolInv'
  BY <1>11, RawKeeps
<1>. HIDE DEF m
<1>. QED
  BY <1>3, <1>4, <1>5, <1>6, <1>7, <1>8, <1>9, <1>10, <1>11 DEF Next, User, Timers

LEMMA PoolInit == Init => PoolInv
<1>. SUFFICES ASSUME Init PROVE PoolInv
  OBVIOUS
<1>1. pool \in PoolType
  BY DEF Init, PoolType
<1>2. Owned(pool) /\ Fronted(pool) /\ Powered(pool)
  BY Kinds DEF Init, Owned, Fronted, Powered
<1>3. has \in [Users -> Chans \cup {None}] /\ \A c \in Chans : Holding(has, c) = {}
  BY Kinds DEF Init, Holding
<1>4. \A c \in Chans : pool.uses[c] = 2 * Cardinality(Holding(has, c)) + IF pool.cache = c THEN 1 ELSE 0
  <2>. SUFFICES ASSUME NEW c \in Chans
                PROVE  pool.uses[c] = 2 * Cardinality(Holding(has, c)) + IF pool.cache = c THEN 1 ELSE 0
    OBVIOUS
  <2>1. Cardinality(Holding(has, c)) = 0
    BY <1>3, HoldingSize
  <2>2. pool.uses[c] = 0 /\ pool.cache # c
    BY Kinds DEF Init
  <2>. QED BY <2>1, <2>2
<1>5. Counted(pool, has)
  BY <1>3, <1>4, Kinds DEF Init, Counted
<1>. QED BY <1>1, <1>2, <1>5 DEF PoolInv, Good

LEMMA PoolInvariant == Spec => []PoolInv
BY PoolInit, PoolStep, PTL DEF Spec

-----------------------------------------------------------------------------
(* Every part of the manager's state has its type at every moment, and the *)
(* counters stay in their range: a channel is used at most twice by each   *)
(* handler and once by the cache, a tuner at most once.                    *)
THEOREM PoolTypes == Spec => []TypeOK
<1>1. PoolInv => TypeOK
  <2>. SUFFICES ASSUME PoolInv PROVE TypeOK
    OBVIOUS
  <2>m. pool \in PoolType /\ Good(pool) /\ Counted(pool, has)
    BY DEF PoolInv, Good
  <2>1. pool.state \in [Objects -> States \cup {"none"}]
    BY <2>m DEF PoolType, Good, Owned
  <2>2. pool.uses \in [Objects -> 0 .. 2 * Cardinality(Users) + 1]
    <3>1. \A o \in Objects : pool.uses[o] \in 0 .. 2 * Cardinality(Users) + 1
      <4>. TAKE o \in Objects
      <4>1. Cardinality(Users) \in Nat
        BY HoldingSize
      <4>2. CASE o \in Chans
        <5>1. pool.uses[o] = 2 * Cardinality(Holding(has, o)) + IF pool.cache = o THEN 1 ELSE 0
          BY <2>m, <4>2 DEF Counted
        <5>2. Cardinality(Holding(has, o)) \in 0 .. Cardinality(Users)
          BY HoldingSize
        <5>. QED BY <4>1, <5>1, <5>2
      <4>3. CASE o \in Raws
        <5>1. pool.uses[o] \in {0, 1}
          BY <2>m, <4>3 DEF Counted
        <5>. QED BY <4>1, <5>1
      <4>. QED BY <4>2, <4>3, Kinds
    <3>. QED BY <2>m, <3>1 DEF PoolType
  <2>3. pool.inuse \in [Tuners -> {0, 1}]
    BY <2>m DEF PoolType, Good, Owned
  <2>. QED BY <2>m, <2>1, <2>2, <2>3 DEF PoolType, Counted, TypeOK
<1>. QED BY <1>1, PoolInvariant, PTL

(* Whatever the timers, the cache and other users do, the channel of a user *)
(* exists and has an open tuner that is its own: no order of allocations,   *)
(* releases, late closes and reports takes it away (dvb.h:38-52,            *)
(* dvb.cpp:1948-1970).                                                     *)
THEOREM UserKeepsItsTuner == Spec => []UserKeepsTuner
<1>1. PoolInv => UserKeepsTuner
  <2>. SUFFICES ASSUME PoolInv, NEW u \in Users, has[u] # None
                PROVE  LET t == pool.tuner[has[u]]
                       IN  /\ t # None /\ pool.inuse[t] = 1 /\ pool.fe[t] # "closed"
                           /\ Holders(pool, t) = {has[u]}
    BY DEF UserKeepsTuner
  <2>1. has[u] \in Chans /\ has[u] \in Objects /\ pool.tuner[has[u]] # None
    BY Uses, Kinds DEF PoolInv
  <2>2. pool.inuse[pool.tuner[has[u]]] = 1 /\ pool.fe[pool.tuner[has[u]]] # "closed"
    BY <2>1 DEF PoolInv, Good, Owned, Fronted
  <2>3. \A o \in Objects : pool.tuner[o] = pool.tuner[has[u]] => o = has[u]
    BY <2>1 DEF PoolInv, Good, Owned
  <2>. QED BY <2>1, <2>2, <2>3 DEF Holders
<1>. QED BY <1>1, PoolInvariant, PTL

(* Where no tuner feeds two, a tuned channel on a looped-through tuner has *)
(* the voltage of the one that feeds it, whatever closes were due          *)
(* (closeFrontend(), frontend.cpp:698-714).                                *)
THEOREM FedKeepsPower == ASSUME OneEach PROVE Spec => []FedHasPower
<1>1. PoolInv => FedHasPower
  BY DEF PoolInv, Good, Powered, FedHasPower
<1>. QED BY <1>1, PoolInvariant, PTL

(* What becomes of the channels when a user leaves and then the cache is   *)
(* dropped: those are gone that nobody else uses.                          *)
LEMMA Remaining ==
  ASSUME NEW m, NEW h, Good(m), Counted(m, h), NEW u \in Users
  PROVE  LET g == h[u]
             leaves == g # None /\ Alive(m, g) /\ m.uses[g] = IF g = m.cache THEN 3 ELSE 2
             cached == m.cache # None /\ m.uses[m.cache] = 1 /\ ~(leaves /\ g = m.cache)
             l == Leave(m, g)
             d == DropCache(l)
         IN  /\ Good(d) /\ l.cache = m.cache /\ d.cache = None
             /\ \A o \in Objects : d.tuner[o] = IF (leaves /\ o = g) \/ (cached /\ o = m.cache)
                                                THEN None ELSE m.tuner[o]
<1>. DEFINE g == h[u]
            leaves == g # None /\ Alive(m, g) /\ m.uses[g] = IF g = m.cache THEN 3 ELSE 2
            cached == m.cache # None /\ m.uses[m.cache] = 1 /\ ~(leaves /\ g = m.cache)
            l == Leave(m, g)
            d == DropCache(l)
<1>m. /\ m \in PoolType /\ m.uses \in [Objects -> Nat] /\ m.tuner \in [Objects -> Tuners \cup {None}]
      /\ Chans \subseteq Objects /\ None \notin Objects
  BY Kinds DEF Good, PoolType
<1>1. g # None => g \in Chans /\ m.uses[g] >= 2 /\ Alive(m, g)
  BY Uses, Kinds
<1>2. m.cache # None => m.cache \in Chans
  BY Uses
<1>3. g # None /\ g = m.cache => m.uses[g] # 2
  <2>. SUFFICES ASSUME g # None, g = m.cache PROVE m.uses[g] # 2
    OBVIOUS
  <2>1. m.uses[g] = 2 * Cardinality(Holding(h, g)) + 1 /\ Cardinality(Holding(h, g)) \in Nat
    BY <1>1, HoldingSize DEF Counted
  <2>. HIDE DEF g
  <2>. QED BY <2>1
<1>. DEFINE Left(n) ==
              /\ Good(n) /\ (\E k : Counted(n, k)) /\ n.cache = m.cache
              /\ g = None => n.uses = m.uses /\ n.tuner = m.tuner
              /\ g # None => /\ n.uses = [m.uses EXCEPT ![g] = @ - 2]
                             /\ n.tuner = IF m.uses[g] = 2 THEN [m.tuner EXCEPT ![g] = None] ELSE m.tuner
<1>4. Left(l)
  <2>1. CASE g = None
    <3>1. l = m
      BY <2>1 DEF Leave
    <3>. QED BY <2>1, <3>1
  <2>2. CASE g # None
    <3>1. Departed(l, m, g) /\ Counted(l, [h EXCEPT ![u] = None])
      BY <2>2, LeaveEffect
    <3>. HIDE DEF l, g
    <3>2. \E k : Counted(l, k)
      BY <3>1
    <3>. QED BY <2>2, <3>1, <3>2 DEF Departed
  <2>. QED BY <2>1, <2>2
<1>. HIDE DEF l
<1>5. Dropped(d, l)
  BY <1>4, DropCounted
<1>. HIDE DEF d
<1>6. \A o \in Objects : d.tuner[o] = IF (leaves /\ o = g) \/ (cached /\ o = m.cache)
                                      THEN None ELSE m.tuner[o]
  <2>. HIDE DEF g
  <2>1. CASE g = None
    <3>1. CASE m.cache = None
      BY <1>4, <1>5, <2>1, <3>1, <1>m DEF Dropped
    <3>2. CASE m.cache # None
      BY <1>2, <1>4, <1>5, <2>1, <3>2, <1>m DEF Dropped
    <3>. QED BY <3>1, <3>2
  <2>2. CASE g # None
    <3>1. CASE m.cache = None
      BY <1>1, <1>4, <1>5, <2>2, <3>1, <1>m DEF Dropped
    <3>2. CASE m.cache = g
      BY <1>1, <1>3, <1>4, <1>5, <2>2, <3>2, <1>m DEF Dropped
    <3>3. CASE m.cache # None /\ m.cache # g
      BY <1>1, <1>2, <1>4, <1>5, <2>2, <3>3, <1>m DEF Dropped
    <3>. QED BY <3>1, <3>2, <3>3
  <2>. QED BY <2>1, <2>2
<1>. QED BY <1>4, <1>5, <1>6 DEF Dropped, d, l

LEMMA Promised ==
  ASSUME NEW m, NEW h, Good(m), Counted(m, h), NEW u \in Users, NEW c \in Chans
  PROVE  CanAllocate(m, c, h[u]) <=> \E a \in Allocations(Leave(m, h[u]), c) : a.got = c
<1>. DEFINE g == h[u]
            leaves == g # None /\ Alive(m, g) /\ m.uses[g] = IF g = m.cache THEN 3 ELSE 2
            cached == m.cache # None /\ m.uses[m.cache] = 1 /\ ~(leaves /\ g = m.cache)
            Left(t) == m.inuse[t] - (IF leaves /\ m.tuner[g] = t THEN 1 ELSE 0)
                                  - (IF cached /\ m.tuner[m.cache] = t THEN 1 ELSE 0)
            l == Leave(m, g)
            d == DropCache(l)
<1>m. m \in PoolType /\ c \in Objects /\ c # None
  BY Kinds DEF Good
<1>1. /\ Good(d) /\ l.cache = m.cache
      /\ \A o \in Objects : d.tuner[o] = IF (leaves /\ o = g) \/ (cached /\ o = m.cache)
                                         THEN None ELSE m.tuner[o]
  BY Remaining
<1>2. (\E a \in Allocations(l, c) : a.got = c) <=> l.cache = c \/ Alive(d, c) \/ Free(d, c) # {}
  <2>. HIDE DEF l
  <2>1. CASE l.cache = c
    BY <2>1 DEF Allocations
  <2>2. CASE l.cache # c /\ Alive(d, c)
    BY <2>2 DEF Allocations
  <2>3. CASE l.cache # c /\ ~Alive(d, c) /\ Free(d, c) = {}
    BY <2>3, <1>m DEF Allocations
  <2>4. CASE l.cache # c /\ ~Alive(d, c) /\ Free(d, c) # {}
    <3>1. PICK t \in Free(d, c) : TRUE
      BY <2>4
    <3>2. [pool |-> NewChannel(d, c, t), got |-> c] \in Allocations(l, c)
      BY <2>4, <3>1 DEF Allocations
    <3>. QED BY <2>4, <3>2
  <2>. QED BY <2>1, <2>2, <2>3, <2>4
<1>3. CanAllocate(m, c, g) <=> Alive(m, c) \/ \E t \in Tunes[c] : Left(t) = 0
  BY DEF CanAllocate
<1>4. /\ g # None => g \in Objects /\ m.tuner[g] # None
      /\ m.cache # None => m.cache \in Objects /\ m.tuner[m.cache] # None
      /\ \A o \in Objects : m.tuner[o] \in Tuners \cup {None}
  BY Uses, Kinds, <1>m DEF PoolType
<1>5. leaves => g # None
  OBVIOUS
<1>6. cached => m.cache # None /\ ~(leaves /\ g = m.cache)
  OBVIOUS
<1>. HIDE DEF d, l, leaves, cached, g
<1>7. ASSUME NEW t \in Tuners PROVE Left(t) = 0 <=> d.inuse[t] = 0
  <2>1. CASE m.inuse[t] = 0
    <3>1. \A o \in Objects : m.tuner[o] # t
      BY <2>1, Kinds DEF Good, Owned
    <3>2. \A o \in Objects : d.tuner[o] # t
      BY <1>1, <3>1, Kinds
    <3>3. d.inuse[t] = 0
      BY <1>1, <3>2 DEF Good, Owned
    <3>4. Left(t) = 0
      BY <1>4, <1>5, <1>6, <2>1, <3>1
    <3>. QED BY <3>3, <3>4
  <2>2. CASE m.inuse[t] = 1
    <3>1. PICK o \in Objects : m.tuner[o] = t
      BY <2>2 DEF Good, Owned
    <3>2. \A p \in Objects : m.tuner[p] = t => p = o
      BY <3>1, Kinds DEF Good, Owned
    <3>3. CASE (leaves /\ o = g) \/ (cached /\ o = m.cache)
      <4>1. \A p \in Objects : d.tuner[p] # t
        BY <1>1, <3>2, <3>3, Kinds
      <4>2. d.inuse[t] = 0
        BY <1>1, <4>1 DEF Good, Owned
      <4>3. Left(t) = 0
        BY <1>4, <1>5, <1>6, <2>2, <3>1, <3>2, <3>3
      <4>. QED BY <4>2, <4>3
    <3>4. CASE ~((leaves /\ o = g) \/ (cached /\ o = m.cache))
      <4>1. d.tuner[o] = t
        BY <1>1, <3>1, <3>4
      <4>2. d.inuse[t] = 1
        BY <1>1, <4>1, Kinds DEF Good, Owned
      <4>3. Left(t) = 1
        BY <1>4, <1>5, <1>6, <2>2, <3>1, <3>2, <3>4
      <4>. QED BY <4>2, <4>3
    <3>. QED BY <3>3, <3>4
  <2>. QED BY <2>1, <2>2 DEF Good, Owned
<1>. HIDE DEF Left
<1>8. Free(d, c) # {} <=> \E t \in Tunes[c] : Left(t) = 0
  BY <1>7, Kinds DEF Free
<1>9. \A o \in Objects : (Alive(m, o) <=> m.tuner[o] # None) /\ (Alive(d, o) <=> d.tuner[o] # None)
  BY <1>1 DEF Good, Owned, Alive
<1>10. l.cache = c => Alive(m, c)
  BY <1>1, <1>4, <1>9, <1>m
<1>11. Alive(d, c) => Alive(m, c)
  BY <1>1, <1>9, <1>m
<1>12. Alive(m, c) /\ ~Alive(d, c) => Free(d, c) # {}
  <2>. SUFFICES ASSUME Alive(m, c), ~Alive(d, c) PROVE Free(d, c) # {}
    OBVIOUS
  <2>. DEFINE t == m.tuner[c]
  <2>1. t # None /\ d.tuner[c] = None /\ t \in Tuners /\ t \in Tunes[c]
    BY <1>4, <1>9, <1>m DEF Counted
  <2>. HIDE DEF t
  <2>2. \A o \in Objects : d.tuner[o] # t
    <3>. TAKE o \in Objects
    <3>1. CASE o = c
      BY <2>1, <3>1
    <3>2. CASE o # c
      <4>1. m.tuner[o] # t
        BY <1>m, <2>1, <3>2 DEF Good, Owned, t
      <4>. QED BY <1>1, <2>1, <4>1
    <3>. QED BY <3>1, <3>2
  <2>3. d.inuse[t] = 0
    BY <1>1, <2>1, <2>2 DEF Good, Owned
  <2>. QED BY <2>1, <2>3 DEF Free
<1>. QED BY <1>2, <1>3, <1>8, <1>10, <1>11, <1>12 DEF d, l, g

(* What canAllocateChannel() promises to a user that would zap from its     *)
(* channel to c is what allocateChannel() does once it has left, no more    *)
(* and no less, whoever else uses the channels and the tuners: the counts 3 *)
(* and 2 tell whether it is the last (dvb.cpp:1375-1378).                  *)
THEOREM PromisesAreKept == Spec => []PromiseIsKept
<1>1. PoolInv => PromiseIsKept
  <2>. SUFFICES ASSUME PoolInv, NEW u \in Users, NEW c \in Chans
                PROVE  CanAllocate(pool, c, has[u])
                         = \E a \in Allocations(Leave(pool, has[u]), c) : a.got = c
    BY DEF PromiseIsKept
  <2>1. CanAllocate(pool, c, has[u]) \in BOOLEAN
    BY DEF CanAllocate
  <2>2. CanAllocate(pool, c, has[u]) <=> \E a \in Allocations(Leave(pool, has[u]), c) : a.got = c
    BY Promised DEF PoolInv
  <2>. QED BY <2>1, <2>2, Zenon
<1>. QED BY <1>1, PoolInvariant, PTL
=============================================================================
