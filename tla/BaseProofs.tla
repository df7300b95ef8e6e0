----------------------------- MODULE BaseProofs -----------------------------
(***************************************************************************)
(* Proofs about the two classes of lib/base every component stands on: the *)
(* main loop (Mainloop) and the message pump (MessagePump).                *)
(*                                                                         *)
(* The main loop, for any timers, notifiers and intervals.  The invariant  *)
(* has three parts, each kept by every step: the timer list is sorted; the *)
(* map of the notifiers, their states and who refers to them agree; and    *)
(* poll()'s timeout is no longer than the first timer.                     *)
(*                                                                         *)
(* The pump, for any finite set of sender threads and any number of        *)
(* events.  The argument is two balances: every reference is accounted for *)
(* by the owner or by an event on its way, and every queued event by a     *)
(* write of the eventfd, done, read or still to come.                      *)
(***************************************************************************)
EXTENDS Mainloop, MessagePump, FiniteSetTheorems, SequenceTheorems, WellFoundedInduction, TLAPS

-----------------------------------------------------------------------------
(* Cutting a time to milliseconds. *)

LEMMA Quotient ==
  ASSUME NEW x \in Int, NEW m \in Nat \ {0}
  PROVE  /\ x \div m \in Int /\ (x \div m) * m \in Int
         /\ (x \div m) * m <= x
         /\ x >= 0 => (x \div m) * m >= 0
<1>1. x \div m \in Int
  OBVIOUS
<1>2. PICK q \in Int : q = x \div m
  BY <1>1
<1>3. q * m \in Int /\ q * m <= x
  BY <1>2
<1>4. x >= 0 => q >= 0
  BY <1>2
<1>5. q >= 0 => q * m >= 0
  BY <1>2
<1>. QED BY <1>1, <1>2, <1>3, <1>4, <1>5

-----------------------------------------------------------------------------
(* The timer list: taking a timer out, and putting one in by its time. *)

(* A set of positions that has all the smaller ones is an initial segment. *)
LEMMA InitialSegment ==
  ASSUME NEW n \in Nat, NEW S \in SUBSET (1 .. n),
         \A i \in S : \A k \in 1 .. n : k <= i => k \in S
  PROVE  Cardinality(S) \in 0 .. n /\ S = 1 .. Cardinality(S)
<1>1. IsFiniteSet(1 .. n) /\ Cardinality(1 .. n) = n
  BY FS_Interval
<1>2. IsFiniteSet(S) /\ Cardinality(S) \in Nat /\ Cardinality(S) <= n
  BY <1>1, FS_Subset, FS_CardinalityType
<1>3. PICK c \in Nat : c = Cardinality(S)
  BY <1>2
<1>4. S \subseteq 1 .. c
  <2>. SUFFICES ASSUME NEW i \in S PROVE i <= c
    OBVIOUS
  <2>1. i \in Int /\ i >= 1
    OBVIOUS
  <2>2. 1 .. i \in SUBSET S
    BY <2>1
  <2>3. Cardinality(1 .. i) = i
    BY <2>1, FS_Interval
  <2>. QED BY <1>2, <1>3, <2>2, <2>3, FS_Subset
<1>5. IsFiniteSet(1 .. c) /\ Cardinality(1 .. c) = c
  BY FS_Interval
<1>6. S = 1 .. c
  BY <1>3, <1>4, <1>5, FS_Subset
<1>. QED BY <1>2, <1>3, <1>6

(* The order of TimersInOrder, for any list and any times. *)
Ordered(l, f) == \A i, k \in DOMAIN l : i < k => l[i] # l[k] /\ f[l[i]] <= f[l[k]]

(* Removing the entry at one place. *)
LEMMA Removal ==
  ASSUME NEW S, NEW l \in Seq(S), NEW i \in 1 .. Len(l)
  PROVE  /\ RemoveAt(l, i) \in Seq(S) /\ Len(RemoveAt(l, i)) = Len(l) - 1
         /\ \A k \in 1 .. Len(l) - 1 : RemoveAt(l, i)[k] = l[IF k < i THEN k ELSE k + 1]
<1>. DEFINE a == SubSeq(l, 1, i - 1)
            b == SubSeq(l, i + 1, Len(l))
<1>1. Len(l) \in Nat /\ \A k \in 1 .. Len(l) : l[k] \in S
  OBVIOUS
<1>2. /\ a \in Seq(S) /\ Len(a) = i - 1
      /\ \A k \in 1 .. i - 1 : a[k] = l[k]
  BY <1>1, SubSeqProperties
<1>3. /\ b \in Seq(S) /\ Len(b) = Len(l) - i
      /\ \A k \in 1 .. Len(l) - i : b[k] = l[i + k]
  BY <1>1, SubSeqProperties
<1>. HIDE DEF a, b
<1>4. /\ a \o b \in Seq(S) /\ Len(a \o b) = Len(a) + Len(b)
      /\ \A k \in 1 .. Len(a) + Len(b) : (a \o b)[k] = IF k <= Len(a) THEN a[k] ELSE b[k - Len(a)]
  BY <1>2, <1>3, ConcatProperties
<1>5. RemoveAt(l, i) = a \o b
  BY DEF RemoveAt, a, b
<1>6. \A k \in 1 .. Len(l) - 1 : (a \o b)[k] = l[IF k < i THEN k ELSE k + 1]
  <2>. SUFFICES ASSUME NEW k \in 1 .. Len(l) - 1 PROVE (a \o b)[k] = l[IF k < i THEN k ELSE k + 1]
    OBVIOUS
  <2>1. CASE k < i
    BY <1>1, <1>2, <1>3, <1>4, <2>1
  <2>2. CASE ~(k < i)
    <3>1. PICK j \in 1 .. Len(l) - i : j = k - Len(a) /\ i + j = k + 1
      BY <1>1, <1>2, <2>2
    <3>2. (a \o b)[k] = b[j]
      BY <1>1, <1>2, <1>3, <1>4, <2>2, <3>1
    <3>3. b[j] = l[k + 1]
      BY <1>3, <3>1
    <3>. QED BY <2>2, <3>2, <3>3
  <2>. QED BY <2>1, <2>2
<1>7. Len(a \o b) = Len(l) - 1
  BY <1>1, <1>2, <1>3, <1>4
<1>8. a \o b \in Seq(S)
  BY <1>4
<1>. QED BY <1>5, <1>6, <1>7, <1>8, Zenon

(* Inserting an entry in front of the one at a place. *)
LEMMA Insertion ==
  ASSUME NEW S, NEW l \in Seq(S), NEW e \in S, NEW i \in 1 .. Len(l) + 1
  PROVE  /\ InsertAt(l, i, e) \in Seq(S) /\ Len(InsertAt(l, i, e)) = Len(l) + 1
         /\ \A k \in 1 .. Len(l) + 1 :
              InsertAt(l, i, e)[k] = IF k < i THEN l[k] ELSE IF k = i THEN e ELSE l[k - 1]
<1>. DEFINE a == SubSeq(l, 1, i - 1)
            b == SubSeq(l, i, Len(l))
            c == a \o <<e>>
<1>1. Len(l) \in Nat /\ \A k \in 1 .. Len(l) : l[k] \in S
  OBVIOUS
<1>2. /\ a \in Seq(S) /\ Len(a) = i - 1
      /\ \A k \in 1 .. i - 1 : a[k] = l[k]
  BY <1>1, SubSeqProperties
<1>3. /\ b \in Seq(S) /\ Len(b) = Len(l) - i + 1
      /\ \A k \in 1 .. Len(l) - i + 1 : b[k] = l[i + k - 1]
  BY <1>1, SubSeqProperties
<1>4. <<e>> \in Seq(S) /\ Len(<<e>>) = 1 /\ <<e>>[1] = e
  OBVIOUS
<1>. HIDE DEF a, b
<1>5. /\ c \in Seq(S) /\ Len(c) = i
      /\ \A k \in 1 .. i : c[k] = IF k < i THEN l[k] ELSE e
  <2>1. /\ c \in Seq(S) /\ Len(c) = Len(a) + 1
        /\ \A k \in 1 .. Len(a) + 1 : c[k] = IF k <= Len(a) THEN a[k] ELSE <<e>>[k - Len(a)]
    BY <1>2, <1>4, ConcatProperties
  <2>. HIDE DEF c
  <2>. QED BY <1>1, <1>2, <1>4, <2>1
<1>. HIDE DEF c
<1>6. /\ c \o b \in Seq(S) /\ Len(c \o b) = Len(c) + Len(b)
      /\ \A k \in 1 .. Len(c) + Len(b) : (c \o b)[k] = IF k <= Len(c) THEN c[k] ELSE b[k - Len(c)]
  BY <1>3, <1>5, ConcatProperties
<1>7. InsertAt(l, i, e) = c \o b
  BY DEF InsertAt, a, b, c
<1>8. \A k \in 1 .. Len(l) + 1 :
         (c \o b)[k] = IF k < i THEN l[k] ELSE IF k = i THEN e ELSE l[k - 1]
  <2>. SUFFICES ASSUME NEW k \in 1 .. Len(l) + 1
                PROVE  (c \o b)[k] = IF k < i THEN l[k] ELSE IF k = i THEN e ELSE l[k - 1]
    OBVIOUS
  <2>1. CASE k <= i
    BY <1>1, <1>3, <1>5, <1>6, <2>1
  <2>2. CASE ~(k <= i)
    <3>1. PICK j \in 1 .. Len(l) - i + 1 : j = k - Len(c) /\ i + j - 1 = k - 1
      BY <1>1, <1>5, <2>2
    <3>2. (c \o b)[k] = b[j]
      BY <1>1, <1>3, <1>5, <1>6, <2>2, <3>1
    <3>3. b[j] = l[k - 1]
      BY <1>3, <3>1
    <3>. QED BY <2>2, <3>2, <3>3
  <2>. QED BY <2>1, <2>2
<1>9. Len(c \o b) = Len(l) + 1 /\ c \o b \in Seq(S)
  BY <1>1, <1>3, <1>5, <1>6
<1>. QED BY <1>7, <1>8, <1>9, Zenon

(* A timer that is stopped is gone from the list, the others stay in order. *)
LEMMA WithoutOrdered ==
  ASSUME list \in Seq(Timers), Ordered(list, left), NEW t
  PROVE  /\ Without(t) \in Seq(Timers) /\ Ordered(Without(t), left)
         /\ \A k \in DOMAIN Without(t) : Without(t)[k] # t /\ Without(t)[k] \in Listed
<1>0. DOMAIN list = 1 .. Len(list) /\ Len(list) \in Nat
  OBVIOUS
<1>1. CASE t \notin Listed
  BY <1>0, <1>1 DEF Without, Listed
<1>2. CASE t \in Listed
  <2>1. PICK i \in 1 .. Len(list) : list[i] = t /\ i = CHOOSE k \in DOMAIN list : list[k] = t
    BY <1>0, <1>2 DEF Listed
  <2>2. PICK r : r = RemoveAt(list, i)
    OBVIOUS
  <2>3. /\ r \in Seq(Timers) /\ Len(r) = Len(list) - 1
        /\ \A k \in 1 .. Len(list) - 1 : r[k] = list[IF k < i THEN k ELSE k + 1]
    BY <2>2, Removal
  <2>4. DOMAIN r = 1 .. Len(list) - 1
    BY <2>3
  <2>5. Without(t) = r
    BY <1>2, <2>1, <2>2 DEF Without
  <2>6. Ordered(r, left)
    <3>. SUFFICES ASSUME NEW j \in 1 .. Len(list) - 1, NEW k \in 1 .. Len(list) - 1, j < k
                  PROVE  r[j] # r[k] /\ left[r[j]] <= left[r[k]]
      BY <2>4 DEF Ordered
    <3>1. PICK m \in 1 .. Len(list), n \in 1 .. Len(list) : m < n /\ r[j] = list[m] /\ r[k] = list[n]
      <4>1. PICK m \in 1 .. Len(list) : m = (IF j < i THEN j ELSE j + 1) /\ r[j] = list[m]
        BY <1>0, <2>3
      <4>2. PICK n \in 1 .. Len(list) : n = (IF k < i THEN k ELSE k + 1) /\ r[k] = list[n]
        BY <1>0, <2>3
      <4>3. m < n
        BY <4>1, <4>2
      <4>. QED BY <4>1, <4>2, <4>3
    <3>. QED BY <1>0, <3>1 DEF Ordered
  <2>7. \A k \in DOMAIN r : r[k] # t /\ r[k] \in Listed
    <3>. SUFFICES ASSUME NEW k \in 1 .. Len(list) - 1 PROVE r[k] # t /\ r[k] \in Listed
      BY <2>4
    <3>1. PICK j \in 1 .. Len(list) : j # i /\ r[k] = list[j]
      BY <1>0, <2>3
    <3>2. list[j] # list[i]
      BY <1>0, <3>1 DEF Ordered
    <3>. QED BY <1>0, <2>1, <3>1, <3>2 DEF Listed
  <2>. QED BY <2>3, <2>5, <2>6, <2>7
<1>. QED BY <1>1, <1>2

(* A timer put in by its time keeps the order. *)
LEMMA InsortOrdered ==
  ASSUME left \in [Timers -> Int], NEW l \in Seq(Timers), Ordered(l, left),
         NEW t \in Timers, \A k \in DOMAIN l : l[k] # t, NEW when \in Int, NEW f,
         f = [left EXCEPT ![t] = when]
  PROVE  Insort(l, t, when) \in Seq(Timers) /\ Ordered(Insort(l, t, when), f)
<1>0. /\ DOMAIN l = 1 .. Len(l) /\ Len(l) \in Nat
      /\ \A k \in 1 .. Len(l) : l[k] \in Timers /\ left[l[k]] \in Int /\ f[l[k]] = left[l[k]]
  OBVIOUS
<1>1. PICK n \in 0 .. Len(l) : n = Cardinality(Before(l, when)) /\ Before(l, when) = 1 .. n
  <2>1. Before(l, when) \in SUBSET (1 .. Len(l))
    BY <1>0 DEF Before
  <2>2. \A i \in Before(l, when) : \A k \in 1 .. Len(l) : k <= i => k \in Before(l, when)
    <3>. SUFFICES ASSUME NEW i \in Before(l, when), NEW k \in 1 .. Len(l), k <= i
                  PROVE  left[l[k]] < when
      BY <1>0 DEF Before
    <3>1. i \in 1 .. Len(l) /\ left[l[i]] < when
      BY <1>0 DEF Before
    <3>2. left[l[k]] <= left[l[i]]
      BY <1>0, <3>1 DEF Ordered
    <3>3. left[l[k]] \in Int /\ left[l[i]] \in Int
      BY <1>0, <3>1
    <3>. QED BY <3>1, <3>2, <3>3
  <2>. QED BY <1>0, <2>1, <2>2, InitialSegment
<1>2. PICK r : r = InsertAt(l, n + 1, t)
  OBVIOUS
<1>3. /\ r \in Seq(Timers) /\ Len(r) = Len(l) + 1
      /\ \A k \in 1 .. Len(l) + 1 :
            r[k] = IF k < n + 1 THEN l[k] ELSE IF k = n + 1 THEN t ELSE l[k - 1]
  <2>1. PICK j \in 1 .. Len(l) + 1 : j = n + 1
    BY <1>0
  <2>2. r = InsertAt(l, j, t)
    BY <1>2, <2>1
  <2>a. l \in Seq(Timers) /\ t \in Timers
    OBVIOUS
  <2>b. /\ InsertAt(l, j, t) \in Seq(Timers) /\ Len(InsertAt(l, j, t)) = Len(l) + 1
        /\ \A k \in 1 .. Len(l) + 1 :
             InsertAt(l, j, t)[k] = IF k < j THEN l[k] ELSE IF k = j THEN t ELSE l[k - 1]
    BY Insertion
  <2>3. /\ r \in Seq(Timers) /\ Len(r) = Len(l) + 1
        /\ \A k \in 1 .. Len(l) + 1 : r[k] = IF k < j THEN l[k] ELSE IF k = j THEN t ELSE l[k - 1]
    BY <2>2, <2>b, Zenon
  <2>. QED BY <2>1, <2>3
<1>4. DOMAIN r = 1 .. Len(l) + 1
  BY <1>3
<1>5. Insort(l, t, when) = r
  BY <1>1, <1>2 DEF Insort
<1>6. /\ \A k \in 1 .. n : left[l[k]] < when
      /\ \A k \in 1 .. Len(l) : k > n => left[l[k]] >= when
  <2>1. \A k \in 1 .. Len(l) : left[l[k]] < when <=> k \in 1 .. n
    BY <1>0, <1>1 DEF Before
  <2>2. \A k \in 1 .. Len(l) : left[l[k]] < when \/ left[l[k]] >= when
    BY <1>0
  <2>. QED BY <1>0, <2>1, <2>2
<1>7. f[t] = when
  OBVIOUS
<1>8. ASSUME NEW i \in 1 .. Len(l) + 1, NEW k \in 1 .. Len(l) + 1, i < k
      PROVE  r[i] # r[k] /\ f[r[i]] <= f[r[k]]
  <2>1. CASE k < n + 1
    <3>1. r[i] = l[i] /\ r[k] = l[k] /\ k \in 1 .. Len(l) /\ i \in 1 .. Len(l)
      BY <1>0, <1>3, <1>8, <2>1
    <3>. QED BY <1>0, <1>8, <3>1 DEF Ordered
  <2>2. CASE k = n + 1
    <3>1. r[k] = t /\ r[i] = l[i] /\ i \in 1 .. n /\ i \in 1 .. Len(l)
      BY <1>0, <1>3, <1>8, <2>2
    <3>2. f[l[i]] < when
      BY <1>0, <1>6, <3>1
    <3>. QED BY <1>0, <1>7, <3>1, <3>2
  <2>3. CASE k > n + 1 /\ i = n + 1
    <3>1. r[i] = t /\ r[k] = l[k - 1] /\ k - 1 \in 1 .. Len(l) /\ k - 1 > n
      BY <1>0, <1>3, <1>8, <2>3
    <3>2. f[l[k - 1]] >= when
      BY <1>0, <1>6, <3>1
    <3>. QED BY <1>0, <1>7, <3>1, <3>2
  <2>4. CASE k > n + 1 /\ i < n + 1
    <3>1. r[i] = l[i] /\ r[k] = l[k - 1] /\ k - 1 \in 1 .. Len(l) /\ i \in 1 .. Len(l) /\ i < k - 1
      BY <1>0, <1>3, <1>8, <2>4
    <3>. QED BY <1>0, <3>1 DEF Ordered
  <2>5. CASE k > n + 1 /\ i > n + 1
    <3>1. /\ r[i] = l[i - 1] /\ r[k] = l[k - 1] /\ k - 1 \in 1 .. Len(l) /\ i - 1 \in 1 .. Len(l)
          /\ i - 1 < k - 1
      BY <1>0, <1>3, <1>8, <2>5
    <3>. QED BY <1>0, <3>1 DEF Ordered
  <2>. QED BY <1>0, <2>1, <2>2, <2>3, <2>4, <2>5
<1>. QED BY <1>3, <1>4, <1>5, <1>8 DEF Ordered

(* The reactor's own descriptor apart, the smallest one is served first.   *)
LEMMA FirstIsServed ==
  ASSUME rev \subseteq Fds, rev \ {Waker} # {}
  PROVE  First \in rev \ {Waker}
<1>. DEFINE R == rev \ {Waker}
<1>1. R \subseteq Nat /\ R # {}
  BY LoopAssumption DEF Fds
<1>. HIDE DEF R
<1>2. PICK f \in R : \A g \in R : ~(<<g, f>> \in OpToRel(<, Nat))
  BY <1>1, WFMin, NatLessThanWellFounded
<1>3. \A g \in R : f <= g
  <2>. SUFFICES ASSUME NEW g \in R, g < f PROVE FALSE
    BY <1>1
  <2>1. <<g, f>> \in OpToRel(<, Nat)
    BY <1>1 DEF OpToRel
  <2>. QED BY <1>2, <2>1
<1>. QED BY <1>3 DEF First, R

-----------------------------------------------------------------------------
(* The inductive invariant, in three parts. *)

(* The timers: TimersInOrder is inductive with the types of its variables. *)
TimerInv ==
  /\ left \in [Timers -> Int] /\ list \in Seq(Timers)
  /\ TimersInOrder

(* The notifiers: the map and the states agree in both directions, who     *)
(* listens is referred to by its owner or by the loop, and what poll() was *)
(* asked for on behalf of a polled notifier is its own descriptor.         *)
Listening(n) == sn[n] \in {"added", "polled"}
Serving == {"polling", "serve", "callback"}
NotifierInv ==
  /\ sn \in [Notifiers -> {"none", "stopped", "added", "polled"}] /\ held \subseteq Notifiers
  /\ map \in [Fds -> Notifiers \cup {None}] /\ asked \in [Fds -> Notifiers \cup {None}]
  /\ inAct \in Notifiers \cup {None}
  /\ fatal = FALSE
  /\ inAct # None <=> at = "callback"
  /\ \A f \in Fds : map[f] # None => Fd[map[f]] = f /\ Listening(map[f])
  /\ \A n \in Notifiers : Listening(n) => map[Fd[n]] = n
  /\ \A n \in Notifiers : Listening(n) => n \in held \/ n = inAct
  /\ at \in Serving => \A n \in Notifiers : sn[n] = "polled" => asked[Fd[n]] = n

(* The loop itself. *)
LoopInv ==
  /\ ready \subseteq Fds /\ rev \subseteq Fds
  /\ at \in Places /\ age \in 0 .. Late
  /\ wait \in Nat \cup {None} /\ limit \in Int \cup {None}
  /\ reason \in {"none", "timeout", "signal", "res"}
  /\ call \in Int \cup {None} /\ intr \in BOOLEAN /\ ops \in 0 .. MaxOps
  /\ WakesForTimer

Inv == TimerInv /\ NotifierInv /\ LoopInv

LEMMA Descriptors == \A n \in Notifiers : Fd[n] \in Fds
BY DEF Fds

LEMMA InvInit == Init => Inv
<1>. SUFFICES ASSUME Init PROVE Inv
  OBVIOUS
<1>. USE LoopAssumption DEF Init
<1>1. TimerInv
  BY DEF TimerInv, TimersInOrder
<1>2. NotifierInv
  BY Descriptors DEF NotifierInv, Listening, Serving
<1>3. LoopInv
  <2>1. 0 \in 0 .. Late /\ MaxOps \in 0 .. MaxOps
    OBVIOUS
  <2>2. WakesForTimer
    BY DEF WakesForTimer
  <2>3. ready \subseteq Fds /\ rev \subseteq Fds /\ at \in Places
    BY DEF Places
  <2>. QED BY <2>1, <2>2, <2>3 DEF LoopInv
<1>. QED BY <1>1, <1>2, <1>3 DEF Inv

-----------------------------------------------------------------------------
(* The steps, as far as the timers go: who starts, stops or serves one.    *)

LEMMA TimersAsOrdered == TimersInOrder <=> Ordered(list, left)
BY DEF TimersInOrder, Ordered

LEMMA TimersStep ==
  ASSUME TimerInv, LoopInv, [Next]_vars
  PROVE  TimerInv'
<1>0. /\ left \in [Timers -> Int] /\ list \in Seq(Timers) /\ Ordered(list, left)
      /\ DOMAIN list = 1 .. Len(list)
  BY TimersAsOrdered DEF TimerInv
<1>k. ASSUME UNCHANGED timerVars PROVE TimerInv'
  BY <1>k DEF TimerInv, TimersInOrder, timerVars
<1>o. ASSUME left' \in [Timers -> Int], list' \in Seq(Timers), Ordered(list', left') PROVE TimerInv'
  BY <1>o DEF TimerInv, TimersInOrder, Ordered
<1>1. ASSUME NEW t \in Timers, StartTimer(t) PROVE TimerInv'
  <2>1. Interval[t] \in Int
    BY LoopAssumption
  <2>2. left' = [left EXCEPT ![t] = Interval[t]] /\ list' = Insort(Without(t), t, Interval[t])
    BY <1>1 DEF StartTimer
  <2>3. PICK l : l = Without(t)
    OBVIOUS
  <2>4. l \in Seq(Timers) /\ Ordered(l, left) /\ \A k \in DOMAIN l : l[k] # t
    BY <1>0, <2>3, WithoutOrdered
  <2>5. list' \in Seq(Timers) /\ Ordered(list', left')
    BY <1>0, <2>1, <2>2, <2>3, <2>4, InsortOrdered
  <2>6. left' \in [Timers -> Int]
    BY <1>0, <2>1, <2>2
  <2>. QED BY <1>o, <2>5, <2>6
<1>2. ASSUME NEW t \in Timers, StopTimer(t) PROVE TimerInv'
  <2>1. left' = [left EXCEPT ![t] = 0]
    BY <1>2 DEF StopTimer
  <2>2. PICK l : l = Without(t)
    OBVIOUS
  <2>3. list' = l
    BY <1>2, <2>2 DEF StopTimer
  <2>4. l \in Seq(Timers) /\ Ordered(l, left) /\ \A k \in DOMAIN l : l[k] # t
    BY <1>0, <2>2, WithoutOrdered
  <2>5. \A k \in DOMAIN l : l[k] \in Timers /\ left'[l[k]] = left[l[k]]
    BY <1>0, <2>1, <2>4
  <2>6. Ordered(l, left')
    BY <2>4, <2>5 DEF Ordered
  <2>7. left' \in [Timers -> Int]
    BY <1>0, <2>1
  <2>. QED BY <1>o, <2>3, <2>4, <2>6, <2>7
<1>3. CASE ActivateTimer
  <2>1. list # <<>>
    BY <1>3 DEF ActivateTimer, ServeTimer, Due
  <2>2. PICK t \in Timers : t = Head(list) /\ t = list[1]
    BY <1>0, <2>1
  <2>a. /\ Tail(list) \in Seq(Timers) /\ Len(Tail(list)) = Len(list) - 1
        /\ \A k \in 1 .. Len(Tail(list)) : Tail(list)[k] = list[k + 1]
    BY <1>0, <2>1, HeadTailProperties
  <2>3. PICK l \in Seq(Timers) : l = Tail(list)
    BY <2>a
  <2>4. DOMAIN l = 1 .. Len(list) - 1 /\ \A k \in 1 .. Len(list) - 1 : l[k] = list[k + 1]
    BY <1>0, <2>a, <2>3
  <2>5. \A k \in DOMAIN l : l[k] \in Timers /\ l[k] # t
    <3>. SUFFICES ASSUME NEW k \in 1 .. Len(list) - 1 PROVE list[k + 1] \in Timers /\ list[k + 1] # list[1]
      BY <2>2, <2>4
    <3>1. PICK n \in 1 .. Len(list) : n = k + 1 /\ 1 \in 1 .. Len(list) /\ 1 < n
      BY <1>0
    <3>2. 1 \in DOMAIN list /\ n \in DOMAIN list
      BY <1>0, <3>1
    <3>3. list[1] # list[n]
      BY <1>0, <3>1, <3>2, Zenon DEF Ordered
    <3>4. list[n] \in Timers
      BY <1>0, <3>1
    <3>. QED BY <3>1, <3>3, <3>4
  <2>6. Ordered(l, left)
    <3>. SUFFICES ASSUME NEW j \in 1 .. Len(list) - 1, NEW k \in 1 .. Len(list) - 1, j < k
                  PROVE  list[j + 1] # list[k + 1] /\ left[list[j + 1]] <= left[list[k + 1]]
      BY <2>4 DEF Ordered
    <3>1. j + 1 \in 1 .. Len(list) /\ k + 1 \in 1 .. Len(list) /\ j + 1 < k + 1
      BY <1>0
    <3>. QED BY <1>0, <3>1 DEF Ordered
  <2>7. PICK when \in Int : when = left[t] + Interval[t]
    BY <1>0, LoopAssumption
  <2>8. /\ left' = [left EXCEPT ![t] = IF SingleShot[t] THEN 0 ELSE when]
        /\ list' = IF ~SingleShot[t] THEN Insort(l, t, when) ELSE l
    BY <1>3, <2>2, <2>3, <2>7 DEF ActivateTimer, ServeTimer
  <2>9. CASE SingleShot[t]
    <3>1. left' = [left EXCEPT ![t] = 0] /\ list' = l
      BY <2>8, <2>9
    <3>2. \A k \in DOMAIN l : left'[l[k]] = left[l[k]]
      BY <1>0, <2>5, <3>1
    <3>3. Ordered(l, left')
      BY <2>6, <3>2 DEF Ordered
    <3>. QED BY <1>0, <1>o, <3>1, <3>3
  <2>10. CASE ~SingleShot[t]
    <3>1. left' = [left EXCEPT ![t] = when] /\ list' = Insort(l, t, when)
      BY <2>8, <2>10
    <3>2. list' \in Seq(Timers) /\ Ordered(list', left')
      BY <1>0, <2>5, <2>6, <3>1, InsortOrdered
    <3>. QED BY <1>0, <1>o, <3>1, <3>2
  <2>. QED BY <2>9, <2>10
<1>4. CASE Tick
  <2>1. list' = list /\ left' = [t \in Timers |-> IF t \in Listed THEN left[t] - 1 ELSE left[t]]
    BY <1>4 DEF Tick
  <2>2. \A k \in 1 .. Len(list) : list[k] \in Timers /\ left[list[k]] \in Int /\ left'[list[k]] = left[list[k]] - 1
    BY <1>0, <2>1 DEF Listed
  <2>3. Ordered(list', left')
    <3>. SUFFICES ASSUME NEW i \in 1 .. Len(list), NEW k \in 1 .. Len(list), i < k
                  PROVE  list[i] # list[k] /\ left'[list[i]] <= left'[list[k]]
      BY <1>0, <2>1 DEF Ordered
    <3>1. list[i] # list[k] /\ left[list[i]] <= left[list[k]]
      BY <1>0 DEF Ordered
    <3>. QED BY <2>2, <3>1
  <2>4. left' \in [Timers -> Int]
    BY <1>0, <2>1
  <2>. QED BY <1>0, <1>o, <2>1, <2>3, <2>4
<1>5. CASE UNCHANGED vars
  BY <1>5, <1>k DEF vars
<1>6. ASSUME \/ RunCall \/ DoPoll \/ Iterate \/ EndTimerCallback \/ Poll \/ PollReturns
             \/ Activate \/ EndCallback \/ EndServe \/ Again \/ Signal
      PROVE  UNCHANGED timerVars
  BY <1>6, Zenon DEF RunCall, DoPoll, Iterate, IterateUntil, EndTimerCallback, Poll, EnterPoll,
     PollReturns, Activate, Serve, EndCallback, EndServe, Again, Signal
<1>7. ASSUME \/ \E n \in Notifiers : StartNotifier(n) \/ StopNotifier(n) \/ DropNotifier(n)
             \/ \E d \in Delays : CallLater(d)
             \/ \E f \in Fds : DataArrives(f)
      PROVE  UNCHANGED timerVars
  BY <1>7, Zenon DEF StartNotifier, StopNotifier, DropNotifier, CallLater, DataArrives, NotifierOp
<1>. QED BY <1>1, <1>2, <1>3, <1>4, <1>5, <1>6, <1>7, <1>k DEF Next, Loop, Callbacks

-----------------------------------------------------------------------------
(* The steps, as far as the notifiers go. *)

(* NotifierInv says nothing of the loop but whether it is in a callback,   *)
(* and whether poll() was asked in this round.                             *)
LEMMA NotifiersKept ==
  ASSUME NotifierInv, UNCHANGED snVars, inAct' = inAct,
         \/ at' = at
         \/ at = "polling" /\ at' = "serve"
         \/ at # "callback" /\ at' \notin Serving
  PROVE  NotifierInv'
<1>1. UNCHANGED <<sn, held, map, asked, fatal, inAct>>
  BY DEF snVars
<1>2. \A n \in Notifiers : Listening(n)' = Listening(n)
  BY <1>1 DEF Listening
<1>3. at = "polling" => at \in Serving /\ at # "callback"
  BY DEF Serving
<1>4. (at' = "callback") = (at = "callback") /\ (at' \in Serving => at \in Serving)
  BY <1>3 DEF Serving
<1>. QED BY <1>1, <1>2, <1>4 DEF NotifierInv

(* A notifier stops: nothing is left of it in the map, nor in what poll()  *)
(* was asked.                                                              *)
LEMMA Stopped ==
  ASSUME NotifierInv, NEW n \in Notifiers, NEW s \in {"none", "stopped"},
         sn' = [sn EXCEPT ![n] = s], map' = Cleared(map, n), asked' = Cleared(asked, n),
         fatal' = fatal, held' \subseteq Notifiers,
         \A k \in Notifiers \ {n} : k \in held \/ k = inAct => k \in held' \/ k = inAct',
         inAct' \in Notifiers \cup {None}, inAct' # None <=> at' = "callback",
         at' \in Serving => at \in Serving
  PROVE  NotifierInv'
<1>0. \A k \in Notifiers : Fd[k] \in Fds /\ k # None
  BY Descriptors, LoopAssumption
<1>1. /\ sn' \in [Notifiers -> {"none", "stopped", "added", "polled"}]
      /\ \A k \in Notifiers : sn'[k] = IF k = n THEN s ELSE sn[k]
  BY DEF NotifierInv
<1>2. \A k \in Notifiers : Listening(k)' <=> k # n /\ Listening(k)
  BY <1>1 DEF Listening
<1>3. /\ map' \in [Fds -> Notifiers \cup {None}]
      /\ \A f \in Fds : map'[f] = IF map[f] = n THEN None ELSE map[f]
  BY DEF NotifierInv, Cleared
<1>4. /\ asked' \in [Fds -> Notifiers \cup {None}]
      /\ \A f \in Fds : asked'[f] = IF asked[f] = n THEN None ELSE asked[f]
  BY DEF NotifierInv, Cleared
<1>5. \A f \in Fds : map'[f] # None => Fd[map'[f]] = f /\ sn'[map'[f]] \in {"added", "polled"}
  <2>. SUFFICES ASSUME NEW f \in Fds, map'[f] # None PROVE Fd[map'[f]] = f /\ sn'[map'[f]] \in {"added", "polled"}
    OBVIOUS
  <2>1. map'[f] = map[f] /\ map[f] # n /\ map[f] # None
    BY <1>3
  <2>2. PICK k \in Notifiers : k = map[f] /\ k = map'[f] /\ k # n
    BY <2>1 DEF NotifierInv
  <2>3. Fd[k] = f /\ Listening(k)
    BY <2>1, <2>2 DEF NotifierInv
  <2>4. sn'[k] \in {"added", "polled"}
    BY <1>1, <2>2, <2>3 DEF Listening
  <2>. QED BY <2>2, <2>3, <2>4
<1>6. \A k \in Notifiers : Listening(k)' => map'[Fd[k]] = k
  BY <1>0, <1>2, <1>3 DEF NotifierInv
<1>7. \A k \in Notifiers : Listening(k)' => k \in held' \/ k = inAct'
  BY <1>2 DEF NotifierInv
<1>8. at' \in Serving => \A k \in Notifiers : sn'[k] = "polled" => asked'[Fd[k]] = k
  BY <1>0, <1>1, <1>4 DEF NotifierInv
<1>9. fatal' = FALSE
  BY DEF NotifierInv
<1>. QED BY <1>1, <1>3, <1>4, <1>5, <1>6, <1>7, <1>8, <1>9 DEF NotifierInv, Listening

(* A notifier starts: its descriptor has no entry in the map, because who  *)
(* still listens to it is the one in whose callback it is, dropped by its  *)
(* owner, and that one is stopped first.                                   *)
LEMMA Started ==
  ASSUME NotifierInv, NEW n \in Notifiers, StartNotifier(n)
  PROVE  NotifierInv'
<1>0. \A k \in Notifiers : Fd[k] \in Fds /\ k # None
  BY Descriptors, LoopAssumption
<1>t. /\ sn \in [Notifiers -> {"none", "stopped", "added", "polled"}] /\ held \subseteq Notifiers
      /\ map \in [Fds -> Notifiers \cup {None}] /\ asked \in [Fds -> Notifiers \cup {None}]
      /\ inAct \in Notifiers \cup {None} /\ fatal = FALSE
  BY DEF NotifierInv
<1>1. /\ inAct' = inAct /\ at' = at /\ Free(n) /\ ~Listening(n)
      /\ held' \subseteq Notifiers /\ n \in held' /\ held \subseteq held'
      /\ \A k \in held' : k \in held \/ k = n
  BY <1>t DEF StartNotifier, NotifierOp, Op, Listening
<1>2. PICK gone : gone = IF inAct # None /\ inAct \notin held' THEN inAct ELSE None
  OBVIOUS
<1>3. PICK m : m = Cleared(map, gone)
  OBVIOUS
<1>4. /\ fatal' = (fatal \/ m[Fd[n]] # None)
      /\ map' = [m EXCEPT ![Fd[n]] = n]
      /\ sn' = [k \in Notifiers |-> IF k = n THEN "added"
                                    ELSE IF k = gone /\ sn[k] # "none" THEN "stopped" ELSE sn[k]]
      /\ asked' = Cleared(asked, gone)
  <2>1. Added(n)
    BY DEF StartNotifier
  <2>. QED BY <1>1, <1>2, <1>3, <2>1 DEF Added
<1>5. gone # n /\ (gone # None => gone = inAct /\ gone \notin held')
  BY <1>0, <1>1, <1>2
<1>6. /\ m \in [Fds -> Notifiers \cup {None}]
      /\ \A f \in Fds : m[f] = IF map[f] = gone THEN None ELSE map[f]
  BY <1>3, <1>t DEF Cleared
<1>7. m[Fd[n]] = None
  <2>. SUFFICES ASSUME m[Fd[n]] # None PROVE FALSE
    OBVIOUS
  <2>1. PICK k \in Notifiers : k = map[Fd[n]] /\ k # gone
    BY <1>0, <1>6, <1>t
  <2>2. Fd[k] = Fd[n] /\ Listening(k)
    BY <1>0, <2>1 DEF NotifierInv
  <2>3. k # n
    BY <1>1, <2>2
  <2>4. CASE k \in held
    BY <1>1, <2>2, <2>3, <2>4 DEF Free, Listening
  <2>5. CASE k = inAct /\ k \notin held
    BY <1>0, <1>1, <1>2, <2>1, <2>3, <2>5
  <2>. QED BY <2>2, <2>4, <2>5 DEF NotifierInv
<1>8. /\ sn' \in [Notifiers -> {"none", "stopped", "added", "polled"}]
      /\ sn'[n] = "added"
      /\ \A k \in Notifiers \ {n} : sn'[k] = IF k = gone /\ sn[k] # "none" THEN "stopped" ELSE sn[k]
  BY <1>4, <1>t
<1>9. \A k \in Notifiers : Listening(k)' <=> k = n \/ (k # gone /\ Listening(k))
  BY <1>1, <1>5, <1>8 DEF Listening
<1>10. /\ map' \in [Fds -> Notifiers \cup {None}]
       /\ map'[Fd[n]] = n
       /\ \A f \in Fds \ {Fd[n]} : map'[f] = IF map[f] = gone THEN None ELSE map[f]
  BY <1>0, <1>4, <1>6
<1>11. /\ asked' \in [Fds -> Notifiers \cup {None}]
       /\ \A f \in Fds : asked'[f] = IF asked[f] = gone THEN None ELSE asked[f]
  BY <1>4, <1>t DEF Cleared
<1>12. \A f \in Fds : map'[f] # None => Fd[map'[f]] = f /\ sn'[map'[f]] \in {"added", "polled"}
  <2>. SUFFICES ASSUME NEW f \in Fds, map'[f] # None PROVE Fd[map'[f]] = f /\ sn'[map'[f]] \in {"added", "polled"}
    OBVIOUS
  <2>1. CASE f = Fd[n]
    <3>. QED BY <1>8, <1>10, <2>1
  <2>2. CASE f # Fd[n]
    <3>1. PICK k \in Notifiers : k = map[f] /\ k = map'[f] /\ k # gone
      BY <1>10, <1>t, <2>2
    <3>2. Fd[k] = f /\ Listening(k)
      BY <1>0, <3>1 DEF NotifierInv, Listening
    <3>3. sn'[k] \in {"added", "polled"}
      BY <1>1, <1>8, <3>1, <3>2 DEF Listening
    <3>. QED BY <3>1, <3>2, <3>3
  <2>. QED BY <2>1, <2>2
<1>13. \A k \in Notifiers : Listening(k)' => map'[Fd[k]] = k
  <2>. SUFFICES ASSUME NEW k \in Notifiers, Listening(k)', k # n PROVE map'[Fd[k]] = k
    BY <1>10
  <2>1. k # gone /\ map[Fd[k]] = k
    BY <1>9 DEF NotifierInv
  <2>2. Fd[k] # Fd[n]
    BY <1>0, <1>6, <1>7, <2>1
  <2>. QED BY <1>0, <1>10, <2>1, <2>2
<1>14. \A k \in Notifiers : Listening(k)' => k \in held' \/ k = inAct'
  BY <1>1, <1>9 DEF NotifierInv
<1>15. at' \in Serving => \A k \in Notifiers : sn'[k] = "polled" => asked'[Fd[k]] = k
  <2>. SUFFICES ASSUME at \in Serving, NEW k \in Notifiers, sn'[k] = "polled" PROVE asked'[Fd[k]] = k
    BY <1>1
  <2>1. k # n /\ k # gone /\ sn[k] = "polled"
    BY <1>8
  <2>. QED BY <1>0, <1>11, <2>1 DEF NotifierInv
<1>16. fatal' = FALSE
  BY <1>4, <1>7, <1>t
<1>17. inAct' \in Notifiers \cup {None} /\ (inAct' # None <=> at' = "callback")
  BY <1>1 DEF NotifierInv
<1>. QED BY <1>1, <1>8, <1>10, <1>11, <1>12, <1>13, <1>14, <1>15, <1>16, <1>17 DEF NotifierInv, Listening

LEMMA NotifiersStep ==
  ASSUME NotifierInv, LoopInv, [Next]_vars
  PROVE  NotifierInv'
<1>t. /\ sn \in [Notifiers -> {"none", "stopped", "added", "polled"}] /\ held \subseteq Notifiers
      /\ map \in [Fds -> Notifiers \cup {None}] /\ asked \in [Fds -> Notifiers \cup {None}]
      /\ inAct \in Notifiers \cup {None} /\ fatal = FALSE
      /\ inAct # None <=> at = "callback"
  BY DEF NotifierInv
<1>1. ASSUME NEW n \in Notifiers, StopNotifier(n) PROVE NotifierInv'
  <2>1. /\ sn' = [sn EXCEPT ![n] = "stopped"] /\ map' = Cleared(map, n) /\ asked' = Cleared(asked, n)
        /\ held' = held /\ inAct' = inAct /\ at' = at /\ Listening(n)
        /\ fatal' = (fatal \/ map[Fd[n]] # n)
    BY <1>1 DEF StopNotifier, NotifierOp, Op, Listening
  <2>2. fatal' = fatal
    <3>1. map[Fd[n]] = n
      BY <2>1 DEF NotifierInv
    <3>. QED BY <1>t, <2>1, <3>1
  <2>. QED BY <1>t, <2>1, <2>2, Stopped
<1>2. ASSUME NEW n \in Notifiers, DropNotifier(n) PROVE NotifierInv'
  <2>1. held' = held \ {n} /\ inAct' = inAct /\ at' = at /\ fatal' = fatal
    BY <1>2 DEF DropNotifier, NotifierOp, Op
  <2>2. CASE n = inAct
    <3>1. UNCHANGED <<sn, map, asked>>
      BY <1>2, <2>2 DEF DropNotifier
    <3>2. \A k \in Notifiers : Listening(k)' = Listening(k)
      BY <3>1 DEF Listening
    <3>. QED BY <2>1, <2>2, <3>1, <3>2 DEF NotifierInv
  <2>3. CASE n # inAct
    <3>1. /\ sn' = [sn EXCEPT ![n] = "none"]
          /\ map' = Cleared(map, n) /\ asked' = Cleared(asked, n)
      BY <1>2, <2>3 DEF DropNotifier
    <3>. QED BY <1>t, <2>1, <3>1, Stopped
  <2>. QED BY <2>2, <2>3
<1>3. CASE EndCallback
  <2>1. /\ at = "callback" /\ at' = "serve" /\ inAct' = None /\ held' = held /\ fatal' = fatal
        /\ at \in Serving /\ inAct \in Notifiers
    BY <1>3, <1>t DEF EndCallback, Serving
  <2>2. CASE inAct \in held
    <3>1. UNCHANGED <<sn, map, asked>>
      BY <1>3, <2>2 DEF EndCallback
    <3>2. \A k \in Notifiers : Listening(k)' = Listening(k)
      BY <3>1 DEF Listening
    <3>. QED BY <2>1, <2>2, <3>1, <3>2 DEF NotifierInv
  <2>3. CASE inAct \notin held
    <3>1. /\ sn' = [sn EXCEPT ![inAct] = "none"]
          /\ map' = Cleared(map, inAct) /\ asked' = Cleared(asked, inAct)
      BY <1>3, <2>3 DEF EndCallback
    <3>2. PICK n \in Notifiers : n = inAct
      BY <2>1
    <3>3. /\ sn' = [sn EXCEPT ![n] = "none"]
          /\ map' = Cleared(map, n) /\ asked' = Cleared(asked, n)
      BY <3>1, <3>2
    <3>. QED BY <1>t, <2>1, <3>2, <3>3, Stopped
  <2>. QED BY <2>2, <2>3
<1>4. CASE Poll
  <2>1. /\ sn' = [n \in Notifiers |-> IF sn[n] = "added" THEN "polled" ELSE sn[n]]
        /\ asked' = map /\ UNCHANGED <<held, map, fatal, inAct>>
        /\ at = "timers" /\ at' = "polling"
    BY <1>4 DEF Poll, EnterPoll
  <2>2. \A k \in Notifiers : Listening(k)' = Listening(k)
    BY <1>t, <2>1 DEF Listening
  <2>3. \A k \in Notifiers : sn'[k] = "polled" => map[Fd[k]] = k
    BY <1>t, <2>1, <2>2 DEF NotifierInv, Listening
  <2>4. sn' \in [Notifiers -> {"none", "stopped", "added", "polled"}]
    BY <1>t, <2>1
  <2>. QED BY <1>t, <2>1, <2>2, <2>3, <2>4 DEF NotifierInv
<1>5. CASE Activate
  <2>1. UNCHANGED snVars /\ at = "serve" /\ inAct = None
    BY <1>5, <1>t DEF Activate, Serve
  <2>2. CASE UNCHANGED <<inAct, at>>
    BY <2>1, <2>2, NotifiersKept
  <2>3. CASE inAct' = map[First] /\ map[First] # None /\ at' = "callback"
    <3>1. rev \subseteq Fds /\ rev \ {Waker} # {}
      BY <1>5 DEF Activate, Serve, LoopInv
    <3>2. First \in Fds
      BY <3>1, FirstIsServed
    <3>3. inAct' \in Notifiers \cup {None} /\ inAct' # None
      BY <1>t, <2>3, <3>2
    <3>4. UNCHANGED <<sn, held, map, asked, fatal>>
      BY <2>1 DEF snVars
    <3>5. \A k \in Notifiers : Listening(k)' = Listening(k)
      BY <3>4 DEF Listening
    <3>6. \A k \in Notifiers : k # None
      BY LoopAssumption
    <3>. QED BY <2>1, <2>3, <3>3, <3>4, <3>5, <3>6 DEF NotifierInv, Serving
  <2>. QED BY <1>5, <2>2, <2>3 DEF Activate, Serve
<1>6. CASE Again
  <2>1. UNCHANGED <<sn, held, map, fatal, inAct>> /\ asked' = [f \in Fds |-> None] /\ at = "after"
        /\ at' \notin Serving /\ at' # "callback"
    BY <1>6 DEF Again, BackToReactor, Serving
  <2>2. \A k \in Notifiers : Listening(k)' = Listening(k)
    BY <2>1 DEF Listening
  <2>. QED BY <2>1, <2>2 DEF NotifierInv
<1>7. CASE UNCHANGED vars
  BY <1>7, NotifiersKept DEF vars
<1>9. ASSUME \/ RunCall \/ Tick
             \/ \E f \in Fds : DataArrives(f)
             \/ \E t \in Timers : StartTimer(t) \/ StopTimer(t)
             \/ \E d \in Delays : CallLater(d)
      PROVE  NotifierInv'
  <2>1. UNCHANGED snVars /\ inAct' = inAct /\ at' = at
    <3>1. CASE RunCall
      BY <3>1 DEF RunCall
    <3>2. CASE Tick
      BY <3>2 DEF Tick
    <3>3. CASE \E f \in Fds : DataArrives(f)
      BY <3>3 DEF DataArrives
    <3>4. CASE \E t \in Timers : StartTimer(t) \/ StopTimer(t)
      BY <3>4 DEF StartTimer, StopTimer, TimerOp, Op
    <3>5. CASE \E d \in Delays : CallLater(d)
      BY <3>5 DEF CallLater, Op
    <3>. QED BY <1>9, <3>1, <3>2, <3>3, <3>4, <3>5
  <2>. QED BY <2>1, NotifiersKept
<1>10. ASSUME \/ DoPoll \/ Iterate \/ ActivateTimer \/ EndTimerCallback \/ PollReturns
              \/ EndServe \/ Signal
       PROVE  NotifierInv'
  <2>1. UNCHANGED snVars /\ inAct' = inAct
    BY <1>10, Zenon DEF DoPoll, Iterate, IterateUntil, ActivateTimer, ServeTimer, EndTimerCallback,
       PollReturns, EndServe, Signal
  <2>2. \/ at = "polling" /\ at' = "serve"
        \/ at # "callback" /\ at' \notin Serving
    <3>1. CASE DoPoll
      BY <3>1 DEF DoPoll, Serving
    <3>2. CASE Iterate
      BY <3>2 DEF Iterate, IterateUntil, BackToReactor, Serving
    <3>3. CASE ActivateTimer
      BY <3>3 DEF ActivateTimer, ServeTimer, Serving
    <3>4. CASE EndTimerCallback
      BY <3>4 DEF EndTimerCallback, Serving
    <3>5. CASE PollReturns
      BY <3>5 DEF PollReturns, Serving
    <3>6. CASE EndServe
      BY <3>6 DEF EndServe, Serving
    <3>7. CASE Signal
      BY <3>7 DEF Signal, Serving
    <3>. QED BY <1>10, <3>1, <3>2, <3>3, <3>4, <3>5, <3>6, <3>7
  <2>. QED BY <2>1, <2>2, NotifiersKept
<1>. QED BY <1>1, <1>2, <1>3, <1>4, <1>5, <1>6, <1>7, <1>9, <1>10, Started DEF Next, Loop, Callbacks


-----------------------------------------------------------------------------
(* The steps of the loop itself. *)

(* What poll() is given is the time to the first timer or less, so by the  *)
(* order of the list it is no more than the time to any of them.           *)
LEMMA PollInTime ==
  ASSUME TimerInv, LoopInv, Poll
  PROVE  wait' \in Nat \cup {None} /\ WakesForTimer'
<1>0. /\ left \in [Timers -> Int] /\ list \in Seq(Timers) /\ limit \in Int \cup {None}
      /\ age \in Int /\ Ms \in Nat \ {0} /\ None \notin Int
  BY LoopAssumption DEF TimerInv, LoopInv
<1>1. PICK served, native, then, to :
        /\ served \in BOOLEAN
        /\ native = IF list # <<>> THEN (IF TimerTime > 0 THEN TimerTime ELSE 0)
                    ELSE IF served THEN 0 ELSE None
        /\ then = IF limit = None THEN 0 ELSE limit + age
        /\ to = IF then > 0 THEN Floor(then) ELSE 0
        /\ wait' = IF to > 0 /\ native # None /\ native > to THEN to ELSE native
  BY DEF Poll, EnterPoll
<1>2. list' = list /\ left' = left
  BY DEF Poll, EnterPoll, timerVars
<1>3. to \in Nat
  <2>1. CASE then > 0
    <3>1. then \in Int /\ then >= 0
      BY <1>0, <1>1, <2>1
    <3>2. to = (then \div Ms) * Ms
      BY <1>1, <2>1 DEF Floor
    <3>3. (then \div Ms) * Ms \in Int /\ (then \div Ms) * Ms >= 0
      BY <1>0, <3>1, Quotient
    <3>. QED BY <3>2, <3>3
  <2>. QED BY <1>1, <2>1
<1>4. CASE list = <<>>
  <2>1. Listed' = {}
    BY <1>2, <1>4 DEF Listed
  <2>2. wait' \in Nat \cup {None}
    BY <1>0, <1>1, <1>3, <1>4
  <2>. QED BY <2>1, <2>2 DEF WakesForTimer
<1>5. CASE list # <<>>
  <2>1. Head(list) \in Timers /\ Head(list) = list[1] /\ left[Head(list)] \in Int /\ Len(list) \in Nat \ {0}
    BY <1>0, <1>5
  <2>2. TimerTime \in Int /\ TimerTime <= left[Head(list)]
    BY <1>0, <2>1, Quotient DEF TimerTime, Floor
  <2>3. native \in Nat /\ (native = 0 \/ native <= left[Head(list)])
    BY <1>1, <1>5, <2>1, <2>2
  <2>4. wait' \in Nat /\ (wait' = 0 \/ wait' <= left[Head(list)])
    <3>1. wait' = native \/ (wait' = to /\ to > 0 /\ native > to)
      BY <1>1
    <3>. QED BY <1>3, <2>1, <2>3, <3>1
  <2>5. wait' # None
    BY <1>0, <2>4
  <2>6. ASSUME NEW t \in Listed PROVE left[t] \in Int /\ left[Head(list)] <= left[t]
    <3>1. PICK i \in 1 .. Len(list) : t = list[i]
      BY <1>0, <2>6 DEF Listed
    <3>2. list[i] \in Timers
      BY <1>0
    <3>3. left[list[1]] <= left[list[i]]
      <4>1. CASE i = 1
        BY <2>1, <4>1
      <4>2. CASE i # 1
        <5>1. 1 \in DOMAIN list /\ i \in DOMAIN list /\ 1 < i
          BY <1>0, <2>1, <4>2
        <5>. QED BY <5>1 DEF TimerInv, TimersInOrder
      <4>. QED BY <4>1, <4>2
    <3>. QED BY <1>0, <2>1, <3>1, <3>2, <3>3
  <2>7. \A t \in Listed : wait' = 0 \/ wait' <= left[t]
    BY <2>1, <2>4, <2>6
  <2>8. Listed' = Listed
    BY <1>2 DEF Listed
  <2>9. WakesForTimer'
    BY <1>2, <2>5, <2>7, <2>8 DEF WakesForTimer
  <2>. QED BY <2>4, <2>9
<1>. QED BY <1>4, <1>5

(* While poll() sleeps, its timeout and the timers age together.           *)
LEMMA SleepInTime ==
  ASSUME TimerInv, LoopInv, Tick
  PROVE  wait' \in Nat \cup {None} /\ WakesForTimer'
<1>0. /\ left \in [Timers -> Int] /\ list \in Seq(Timers) /\ wait \in Nat \cup {None}
      /\ None \notin Int
  BY LoopAssumption DEF TimerInv, LoopInv
<1>1. /\ wait' = Older(wait, 0) /\ list' = list /\ at' = at
      /\ left' = [t \in Timers |-> IF t \in Listed THEN left[t] - 1 ELSE left[t]]
  BY DEF Tick
<1>2. /\ wait = None => wait' = None
      /\ wait # None => wait' \in Nat /\ (wait' = 0 \/ wait' = wait - 1) /\ (wait = 0 => wait' = 0)
  BY <1>0, <1>1 DEF Older
<1>3. Listed' = Listed /\ \A t \in Listed : t \in Timers /\ left[t] \in Int /\ left'[t] = left[t] - 1
  <2>1. Listed' = Listed /\ Listed \subseteq Timers
    BY <1>0, <1>1 DEF Listed
  <2>. QED BY <1>0, <1>1, <2>1
<1>4. ASSUME at' = "polling", NEW t \in Listed PROVE wait' # None /\ (wait' = 0 \/ wait' <= left'[t])
  <2>1. wait # None /\ (wait = 0 \/ wait <= left[t])
    BY <1>1, <1>4 DEF LoopInv, WakesForTimer
  <2>2. wait \in Nat /\ wait' \in Nat /\ wait' # None
    BY <1>0, <1>2, <2>1
  <2>3. wait' = 0 \/ wait' <= left[t] - 1
    BY <1>2, <1>3, <2>1, <2>2
  <2>. QED BY <1>3, <2>2, <2>3
<1>. QED BY <1>2, <1>3, <1>4 DEF WakesForTimer

LEMMA LoopStep ==
  ASSUME TimerInv, NotifierInv, LoopInv, [Next]_vars
  PROVE  LoopInv'
<1>t. /\ ready \subseteq Fds /\ rev \subseteq Fds
      /\ at \in Places /\ age \in 0 .. Late
      /\ wait \in Nat \cup {None} /\ limit \in Int \cup {None}
      /\ reason \in {"none", "timeout", "signal", "res"}
      /\ call \in Int \cup {None} /\ intr \in BOOLEAN /\ ops \in 0 .. MaxOps
  BY DEF LoopInv
<1>a. /\ Late \in Nat /\ MaxOps \in Nat /\ Ms \in Nat \ {0} /\ Delays \subseteq Nat
      /\ 0 \in 0 .. Late /\ 0 \in 0 .. MaxOps /\ MaxOps \in 0 .. MaxOps /\ None \notin Int
  BY LoopAssumption
<1>w. ASSUME at' # "polling" PROVE WakesForTimer'
  BY <1>w DEF WakesForTimer
<1>o. ASSUME Op, call' \in Int \cup {None}, intr' \in BOOLEAN PROVE LoopInv'
  <2>1. UNCHANGED <<pollVars, ready, at, age>> /\ ops > 0 /\ ops' = ops - 1 /\ at # "polling"
    BY <1>o DEF Op, Running
  <2>2. ops' \in 0 .. MaxOps
    BY <1>t, <1>a, <2>1
  <2>3. WakesForTimer'
    BY <1>w, <2>1
  <2>. QED BY <1>t, <1>o, <2>1, <2>2, <2>3 DEF LoopInv, pollVars
<1>1. ASSUME \/ \E t \in Timers : StartTimer(t) \/ StopTimer(t)
             \/ \E n \in Notifiers : StartNotifier(n) \/ StopNotifier(n) \/ DropNotifier(n)
      PROVE  LoopInv'
  <2>1. Op /\ UNCHANGED twisted
    BY <1>1, Zenon DEF StartTimer, StopTimer, StartNotifier, StopNotifier, DropNotifier, TimerOp, NotifierOp
  <2>. QED BY <1>t, <1>o, <2>1 DEF twisted
<1>2. ASSUME NEW d \in Delays, CallLater(d) PROVE LoopInv'
  <2>1. Op /\ call' = d /\ intr' = TRUE /\ d \in Int
    BY <1>a, <1>2 DEF CallLater
  <2>. QED BY <1>o, <2>1
<1>3. CASE RunCall
  BY <1>3, <1>t, <1>a, <1>w DEF RunCall, LoopInv, pollVars
<1>4. CASE DoPoll
  <2>1. limit' \in Int \cup {None}
    <3>1. limit' = None \/ (call \in Int /\ limit' = (call \div Ms) * Ms)
      BY <1>4, <1>t DEF DoPoll
    <3>. QED BY <1>a, <3>1, Quotient
  <2>. QED BY <1>4, <1>t, <1>a, <1>w, <2>1 DEF DoPoll, LoopInv, twisted, Places
<1>5. CASE Iterate
  <2>1. /\ at' \in {"reactor", "timers"} /\ age' \in 0 .. Late
        /\ reason' \in {"none", "timeout", "signal", "res"} /\ ops' \in 0 .. MaxOps
        /\ limit' \in Int \cup {None} /\ intr' = FALSE
        /\ UNCHANGED <<rev, wait, call, ready>>
    BY <1>5, <1>t, <1>a DEF Iterate, IterateUntil, BackToReactor
  <2>. QED BY <1>t, <1>w, <2>1 DEF LoopInv, Places
<1>6. CASE ActivateTimer \/ EndTimerCallback
  <2>1. /\ at' \in {"timers", "timerCallback"} /\ ops' \in 0 .. MaxOps
        /\ UNCHANGED <<pollVars, twisted, ready, age>>
    BY <1>6, <1>a DEF ActivateTimer, ServeTimer, EndTimerCallback
  <2>. QED BY <1>t, <1>w, <2>1 DEF LoopInv, Places, pollVars, twisted
<1>7. CASE Poll
  <2>1. wait' \in Nat \cup {None} /\ WakesForTimer'
    BY <1>7, PollInTime
  <2>2. /\ at' = "polling" /\ age' = 0 /\ rev' = {} /\ reason' \in {"none", "timeout"}
        /\ UNCHANGED <<limit, twisted, ready, ops>>
    BY <1>7 DEF Poll, EnterPoll
  <2>. QED BY <1>t, <1>a, <2>1, <2>2 DEF LoopInv, Places, twisted
<1>8. CASE PollReturns \/ Signal
  <2>1. /\ at' \in {"serve", "after"} /\ wait' = None /\ rev' \subseteq Fds
        /\ reason' \in {"none", "timeout", "signal", "res"}
        /\ UNCHANGED <<limit, twisted, ready, age, ops>>
    BY <1>8, <1>t DEF PollReturns, Signal
  <2>. QED BY <1>t, <1>w, <2>1 DEF LoopInv, Places, twisted
<1>9. CASE Activate
  <2>1. /\ at' \in {"serve", "callback"} /\ ops' \in 0 .. MaxOps
        /\ ready' \subseteq Fds /\ rev' \subseteq Fds
        /\ UNCHANGED <<wait, limit, reason, twisted, age>>
    <3>1. CASE UNCHANGED <<inAct, at, ops, ready>>
      BY <1>9, <1>t, <3>1 DEF Activate, Serve
    <3>2. CASE at' = "callback" /\ ops' = MaxOps /\ ready' = ready \ {First}
      BY <1>9, <1>t, <1>a, <3>2 DEF Activate, Serve
    <3>. QED BY <1>9, <3>1, <3>2 DEF Activate, Serve
  <2>. QED BY <1>t, <1>w, <2>1 DEF LoopInv, Places, twisted
<1>10. CASE EndCallback
  BY <1>10, <1>t, <1>a, <1>w DEF EndCallback, LoopInv, Places, pollVars, twisted
<1>11. CASE EndServe
  BY <1>11, <1>t, <1>w DEF EndServe, LoopInv, Places, twisted
<1>12. CASE Again
  <2>1. /\ at' \in {"iterate", "reactor"} /\ ops' \in 0 .. MaxOps /\ limit' \in Int \cup {None}
        /\ reason' = "none" /\ age' = 0 /\ UNCHANGED <<rev, wait, twisted, ready>>
    BY <1>12, <1>t, <1>a DEF Again, BackToReactor
  <2>. QED BY <1>t, <1>a, <1>w, <2>1 DEF LoopInv, Places, twisted
<1>13. CASE Tick
  <2>1. wait' \in Nat \cup {None} /\ WakesForTimer'
    BY <1>13, SleepInTime
  <2>2. /\ limit' = Older(limit, -Late) /\ call' = Older(call, 0)
        /\ UNCHANGED <<rev, reason, intr, ready, at, ops>>
    BY <1>13 DEF Tick
  <2>3. limit' \in Int \cup {None} /\ call' \in Int \cup {None}
    BY <1>t, <1>a, <2>2, LoopAssumption DEF Older
  <2>4. age' \in 0 .. Late
    BY <1>13, <1>t, <1>a DEF Tick
  <2>. QED BY <1>t, <2>1, <2>2, <2>3, <2>4 DEF LoopInv
<1>14. ASSUME NEW f \in Fds, DataArrives(f) PROVE LoopInv'
  <2>1. /\ ready' \subseteq Fds /\ UNCHANGED <<timerVars, pollVars, twisted, at, age, ops>>
    BY <1>14, <1>t DEF DataArrives
  <2>2. WakesForTimer' = WakesForTimer
    BY <2>1 DEF WakesForTimer, Listed, timerVars, pollVars
  <2>. QED BY <1>t, <2>1, <2>2 DEF LoopInv, pollVars, twisted
<1>15. CASE UNCHANGED vars
  <2>1. WakesForTimer' = WakesForTimer
    BY <1>15 DEF WakesForTimer, Listed, vars, timerVars, pollVars
  <2>. QED BY <1>15, <1>t, <2>1 DEF LoopInv, vars, pollVars, twisted
<1>. QED BY <1>1, <1>2, <1>3, <1>4, <1>5, <1>6, <1>7, <1>8, <1>9, <1>10, <1>11, <1>12, <1>13, <1>14,
            <1>15 DEF Next, Loop, Callbacks

LEMMA LoopInvariance == Spec => []Inv
<1>1. Inv /\ [Next]_vars => Inv'
  BY TimersStep, NotifiersStep, LoopStep DEF Inv
<1>. QED BY <1>1, InvInit, PTL DEF Spec

-----------------------------------------------------------------------------
(* Every variable of the loop keeps its type. *)
THEOREM LoopTypes == Spec => []TypeOK
<1>1. Inv => TypeOK
  BY DEF Inv, TimerInv, NotifierInv, LoopInv, TypeOK
<1>. QED BY <1>1, LoopInvariance, PTL

(* The timer list holds no timer twice and is sorted by the times the      *)
(* timers are due, whatever the callbacks start and stop, for any number   *)
(* of timers and any intervals.                                            *)
THEOREM TimersSorted == Spec => []TimersInOrder
<1>1. Inv => TimersInOrder
  BY DEF Inv, TimerInv
<1>. QED BY <1>1, LoopInvariance, PTL

(* poll() is never given a timeout that sleeps past a timer (ebase.cpp     *)
(* 204-217), for any number of timers.                                     *)
THEOREM PollWakesForTimers == Spec => []WakesForTimer
<1>1. Inv => WakesForTimer
  BY DEF Inv, LoopInv
<1>. QED BY <1>1, LoopInvariance, PTL

(* Neither the ASSERT of addSocketNotifier() nor the eFatal of             *)
(* removeSocketNotifier() is ever hit, as long as a descriptor has one     *)
(* owner at a time, also when a notifier is dropped in its own callback.   *)
THEOREM NeverFatal == Spec => []NoFatal
<1>1. Inv => NoFatal
  BY DEF Inv, NotifierInv, NoFatal
<1>. QED BY <1>1, LoopInvariance, PTL

(* The callback that runs is that of the notifier poll() was asked about:  *)
(* not one that was stopped since, and not one that has taken over the     *)
(* descriptor of another.                                                  *)
LEMMA ActivatesAsked ==
  ASSUME Inv, [Next]_vars, inAct = None, inAct' # None
  PROVE  inAct' = asked[First]
<1>1. Activate
  <2>1. CASE UNCHANGED vars
    BY <2>1 DEF vars
  <2>2. CASE Tick \/ Signal \/ \E f \in Fds : DataArrives(f)
    BY <2>2 DEF Tick, Signal, DataArrives
  <2>3. CASE Callbacks
    BY <2>3 DEF Callbacks, StartTimer, StopTimer, StartNotifier, StopNotifier, DropNotifier, CallLater,
       TimerOp, NotifierOp, Op
  <2>4. CASE Loop /\ ~Activate
    BY <2>4 DEF Loop, RunCall, DoPoll, Iterate, IterateUntil, ActivateTimer, ServeTimer, EndTimerCallback,
       Poll, EnterPoll, PollReturns, EndCallback, EndServe, Again
  <2>. QED BY <2>1, <2>2, <2>3, <2>4 DEF Next
<1>2. at = "serve" /\ rev \ {Waker} # {} /\ at \in Serving
  BY <1>1 DEF Activate, Serve, Serving
<1>3. First \in Fds
  BY <1>2, FirstIsServed DEF Inv, LoopInv
<1>4. inAct' = map[First] /\ map[First] # None /\ sn[map[First]] = "polled"
  BY <1>1 DEF Activate, Serve
<1>5. PICK n \in Notifiers : n = map[First]
  BY <1>3, <1>4 DEF Inv, NotifierInv
<1>6. Fd[n] = First /\ asked[Fd[n]] = n
  BY <1>2, <1>3, <1>4, <1>5 DEF Inv, NotifierInv
<1>. QED BY <1>4, <1>5, <1>6

THEOREM CallbacksAreAsked == Spec => NoStaleCallback
<1>1. Inv /\ [Next]_vars => [inAct = None /\ inAct' # None => inAct' = asked[First]]_vars
  BY ActivatesAsked
<1>. QED BY <1>1, LoopInvariance, PTL DEF Spec, NoStaleCallback

-----------------------------------------------------------------------------
(* The message pump. *)

At(label) == {s \in Senders : pc[s] = label}
Handling == IF rpc = "handle" THEN 1 ELSE 0
Owning == IF owned THEN 1 ELSE 0

(* Every reference is the owner's, or that of an event not yet handled. *)
RefBalance ==
  ref = Owning + Cardinality(At("referenced")) + Len(queue) + Handling

(* Every event not yet handled has its eventfd write: still to be done,    *)
(* done and unread, or read and counted.                                   *)
TriggerBalance ==
  Len(queue) + Handling = Cardinality(At("pushed")) + eventfd + count

PumpInv ==
  /\ PumpTypeOK
  /\ RefBalance
  /\ TriggerBalance
  /\ alive <=> ref > 0
  /\ rpc = "poll" <=> count = 0
  /\ rpc = "handle" <=> msg # NoEvent
  /\ \A s \in Senders : pc[s] # "idle" => owned
  /\ \A s \in Senders : pc[s] = "referenced" => sent[s] > 0

-----------------------------------------------------------------------------
(* Counting the senders at a label of sendEvent() when one of them moves. *)

LEMMA CountsAreNaturals ==
  ASSUME NEW label PROVE Cardinality(At(label)) \in Nat /\ IsFiniteSet(At(label))
BY MessagePumpAssumption, FS_Subset, FS_CardinalityType DEF At

LEMMA Arrive ==
  ASSUME NEW s \in Senders, NEW to, pc \in [Senders -> {"idle", "referenced", "pushed"}],
         pc[s] # to, pc' = [pc EXCEPT ![s] = to]
  PROVE  Cardinality(At(to))' = Cardinality(At(to)) + 1
<1>1. At(to)' = At(to) \cup {s} /\ s \notin At(to)
  BY DEF At
<1>. QED BY <1>1, CountsAreNaturals, FS_AddElement

LEMMA Leave ==
  ASSUME NEW s \in Senders, NEW from, NEW to,
         pc \in [Senders -> {"idle", "referenced", "pushed"}],
         pc[s] = from, from # to, pc' = [pc EXCEPT ![s] = to]
  PROVE  Cardinality(At(from))' = Cardinality(At(from)) - 1
<1>1. At(from)' = At(from) \ {s} /\ s \in At(from)
  BY DEF At
<1>. QED BY <1>1, CountsAreNaturals, FS_RemoveElement

LEMMA Elsewhere ==
  ASSUME NEW s \in Senders, NEW from, NEW to, NEW label,
         pc \in [Senders -> {"idle", "referenced", "pushed"}],
         pc[s] = from, label # from, label # to, pc' = [pc EXCEPT ![s] = to]
  PROVE  Cardinality(At(label))' = Cardinality(At(label))
<1>1. At(label)' = At(label)
  BY DEF At
<1>. QED BY <1>1

LEMMA Nobody ==
  ASSUME NEW label, \A s \in Senders : pc[s] # label
  PROVE  Cardinality(At(label)) = 0
<1>1. At(label) = {}
  BY DEF At
<1>. QED BY <1>1, FS_EmptySet

LEMMA Somebody ==
  ASSUME NEW s \in Senders
  PROVE  Cardinality(At(pc[s])) > 0
<1>1. At(pc[s]) # {}
  BY DEF At
<1>. QED BY <1>1, CountsAreNaturals, FS_EmptySet

-----------------------------------------------------------------------------
THEOREM PumpInvInit == PumpInit => PumpInv
<1>. SUFFICES ASSUME PumpInit PROVE PumpInv
  OBVIOUS
<1>1. Cardinality(At("referenced")) = 0 /\ Cardinality(At("pushed")) = 0
  BY Nobody DEF PumpInit
<1>2. Len(queue) = 0
  BY DEF PumpInit
<1>3. PumpTypeOK
  BY MessagePumpAssumption DEF PumpInit, PumpTypeOK, NoEvent
<1>. QED BY <1>1, <1>2, <1>3 DEF PumpInit, PumpInv, RefBalance, TriggerBalance, Owning, Handling, NoEvent

THEOREM PumpInvStep == PumpInv /\ [PumpNext]_pumpVars => PumpInv'
<1>. SUFFICES ASSUME PumpInv, [PumpNext]_pumpVars PROVE PumpInv'
  OBVIOUS
<1>. USE DEF PumpInv
<1>t. PumpTypeOK /\ pc \in [Senders -> {"idle", "referenced", "pushed"}]
  BY DEF PumpTypeOK
<1>q. Len(queue) \in Nat /\ ref \in Nat /\ eventfd \in Nat /\ count \in Nat
  BY DEF PumpTypeOK
<1>c. Cardinality(At("referenced")) \in Nat /\ Cardinality(At("pushed")) \in Nat
  BY CountsAreNaturals
<1>1. ASSUME NEW s \in Senders, TakeReference(s) PROVE PumpInv'
  <2>1. Cardinality(At("referenced"))' = Cardinality(At("referenced")) + 1
    BY <1>1, <1>t, Arrive DEF TakeReference
  <2>2. Cardinality(At("pushed"))' = Cardinality(At("pushed"))
    BY <1>1, <1>t, Elsewhere DEF TakeReference
  <2>3. PumpTypeOK'
    BY <1>1, <1>t, MessagePumpAssumption DEF TakeReference, PumpTypeOK, recvVars
  <2>4. RefBalance' /\ TriggerBalance'
    BY <1>1, <1>q, <1>c, <2>1, <2>2
       DEF TakeReference, RefBalance, TriggerBalance, Owning, Handling, recvVars
  <2>5. \A r \in Senders : pc'[r] = "referenced" => sent'[r] > 0
    BY <1>1, <1>t DEF TakeReference, PumpTypeOK
  <2>6. \A r \in Senders : pc'[r] # "idle" => owned'
    BY <1>1 DEF TakeReference
  <2>7. alive' <=> ref' > 0
    <3>1. ref > 0
      BY <1>1, <1>q, <1>c DEF TakeReference, RefBalance, Owning, Handling
    <3>. QED BY <1>1, <1>q, <3>1 DEF TakeReference
  <2>. QED BY <1>1, <2>3, <2>4, <2>5, <2>6, <2>7 DEF TakeReference, recvVars
<1>2. ASSUME NEW s \in Senders, Push(s) PROVE PumpInv'
  <2>1. Cardinality(At("referenced"))' = Cardinality(At("referenced")) - 1
    BY <1>2, <1>t, Leave DEF Push
  <2>2. Cardinality(At("pushed"))' = Cardinality(At("pushed")) + 1
    BY <1>2, <1>t, Arrive DEF Push
  <2>3. <<s, sent[s]>> \in Event
    BY <1>2, <1>t DEF Push, PumpTypeOK, Event
  <2>4. queue' \in Seq(Event)
    BY <1>2, <1>t, <2>3 DEF Push, PumpTypeOK
  <2>n. Len(queue') = Len(queue) + 1
    BY <1>2, <1>t, <2>3 DEF Push, PumpTypeOK
  <2>5. PumpTypeOK'
    <3>1. pc' \in [Senders -> {"idle", "referenced", "pushed"}]
      BY <1>2, <1>t DEF Push
    <3>. QED BY <1>2, <1>t, <2>4, <3>1 DEF Push, PumpTypeOK, recvVars
  <2>6. RefBalance' /\ TriggerBalance'
    <3>1. eventfd' = eventfd /\ count' = count /\ ref' = ref
      BY <1>2 DEF Push, recvVars
    <3>2. Owning' = Owning /\ Handling' = Handling /\ Owning \in Nat /\ Handling \in Nat
      BY <1>2 DEF Push, recvVars, Owning, Handling
    <3>3. RefBalance'
      BY <1>q, <1>c, <2>1, <2>n, <3>1, <3>2 DEF RefBalance
    <3>4. TriggerBalance'
      BY <1>q, <1>c, <2>2, <2>n, <3>1, <3>2 DEF TriggerBalance
    <3>. QED BY <3>3, <3>4
  <2>. QED BY <1>2, <1>t, <2>5, <2>6 DEF Push, recvVars, PumpTypeOK
<1>3. ASSUME NEW s \in Senders, TriggerEvent(s) PROVE PumpInv'
  <2>1. Cardinality(At("pushed"))' = Cardinality(At("pushed")) - 1
    BY <1>3, <1>t, Leave DEF TriggerEvent
  <2>2. Cardinality(At("referenced"))' = Cardinality(At("referenced"))
    BY <1>3, <1>t, Elsewhere DEF TriggerEvent
  <2>3. PumpTypeOK'
    BY <1>3, <1>t DEF TriggerEvent, PumpTypeOK, recvVars
  <2>4. RefBalance' /\ TriggerBalance'
    BY <1>3, <1>q, <1>c, <2>1, <2>2
       DEF TriggerEvent, RefBalance, TriggerBalance, Owning, Handling, recvVars
  <2>. QED BY <1>3, <1>t, <2>3, <2>4 DEF TriggerEvent, recvVars, PumpTypeOK
<1>4. CASE ReadEventfd
  <2>1. At("referenced")' = At("referenced") /\ At("pushed")' = At("pushed")
    BY <1>4 DEF ReadEventfd, sendVars, At
  <2>2. PumpTypeOK'
    BY <1>4, <1>t DEF ReadEventfd, PumpTypeOK, sendVars
  <2>3. RefBalance' /\ TriggerBalance'
    BY <1>4, <1>q, <1>c, <2>1
       DEF ReadEventfd, RefBalance, TriggerBalance, Owning, Handling, sendVars
  <2>. QED BY <1>4, <1>q, <2>2, <2>3 DEF ReadEventfd, sendVars
<1>5. CASE PopEvent
  <2>1. At("referenced")' = At("referenced") /\ At("pushed")' = At("pushed")
    BY <1>5 DEF PopEvent, sendVars, At
  <2>2. Head(queue) \in Event /\ Tail(queue) \in Seq(Event) /\ Len(queue') = Len(queue) - 1
    BY <1>5, <1>t DEF PopEvent, PumpTypeOK
  <2>3. PumpTypeOK'
    BY <1>5, <1>t, <2>2 DEF PopEvent, PumpTypeOK, sendVars
  <2>4. Head(queue) # NoEvent
    BY <2>2 DEF Event, NoEvent
  <2>5. RefBalance' /\ TriggerBalance'
    BY <1>5, <1>q, <1>c, <2>1, <2>2
       DEF PopEvent, RefBalance, TriggerBalance, Owning, Handling, sendVars
  <2>. QED BY <1>5, <1>q, <2>3, <2>4, <2>5 DEF PopEvent, sendVars
<1>6. CASE ReleaseEvent
  <2>1. At("referenced")' = At("referenced") /\ At("pushed")' = At("pushed")
    BY <1>6 DEF ReleaseEvent, sendVars, At
  <2>2. ref > 0 /\ count > 0
    BY <1>6, <1>q, <1>c DEF ReleaseEvent, RefBalance, Owning, Handling
  <2>3. PumpTypeOK'
    <3>1. alive' \in BOOLEAN
      BY <1>6 DEF ReleaseEvent
    <3>2. ref' \in Nat /\ count' \in Nat /\ rpc' \in {"poll", "pop", "handle"}
      BY <1>6, <1>q, <2>2 DEF ReleaseEvent
    <3>3. UNCHANGED <<queue, eventfd, pc, sent, owned>> /\ msg' = NoEvent
      BY <1>6 DEF ReleaseEvent, sendVars
    <3>. QED BY <1>t, <3>1, <3>2, <3>3 DEF PumpTypeOK
  <2>4. RefBalance' /\ TriggerBalance'
    <3>1. queue' = queue /\ eventfd' = eventfd /\ count' = count - 1 /\ ref' = ref - 1
      BY <1>6 DEF ReleaseEvent
    <3>2. Owning' = Owning /\ Owning \in Nat /\ Handling = 1 /\ Handling' = 0
      BY <1>6 DEF ReleaseEvent, Owning, Handling
    <3>. QED BY <1>q, <1>c, <2>1, <2>2, <3>1, <3>2 DEF RefBalance, TriggerBalance
  <2>5. alive' <=> ref' > 0
    <3>1. alive' <=> ref # 1
      BY <1>6 DEF ReleaseEvent
    <3>2. ref' > 0 <=> ref # 1
      BY <1>6, <1>q, <2>2 DEF ReleaseEvent
    <3>. QED BY <3>1, <3>2
  <2>6. (rpc' = "poll" <=> count' = 0) /\ rpc' # "handle" /\ msg' = NoEvent
    BY <1>6, <1>q, <2>2 DEF ReleaseEvent
  <2>7. UNCHANGED <<pc, sent, owned>>
    BY <1>6 DEF ReleaseEvent, sendVars
  <2>. QED BY <2>3, <2>4, <2>5, <2>6, <2>7
<1>7. CASE OwnerRelease
  <2>1. At("referenced")' = At("referenced") /\ At("pushed")' = At("pushed")
    BY <1>7 DEF OwnerRelease, sendVars, At
  <2>2. ref > 0
    BY <1>7, <1>q, <1>c DEF OwnerRelease, RefBalance, Owning, Handling
  <2>3. PumpTypeOK'
    <3>1. alive' \in BOOLEAN
      BY <1>7 DEF OwnerRelease
    <3>2. ref' \in Nat
      BY <1>7, <1>q, <2>2 DEF OwnerRelease
    <3>3. UNCHANGED <<queue, eventfd, pc, sent, rpc, count, msg>> /\ owned' = FALSE
      BY <1>7 DEF OwnerRelease, sendVars, recvVars
    <3>. QED BY <1>t, <3>1, <3>2, <3>3 DEF PumpTypeOK
  <2>4. RefBalance' /\ TriggerBalance'
    <3>1. queue' = queue /\ eventfd' = eventfd /\ count' = count /\ ref' = ref - 1
      BY <1>7 DEF OwnerRelease, recvVars
    <3>2. Handling' = Handling /\ Handling \in Nat /\ Owning = 1 /\ Owning' = 0
      BY <1>7 DEF OwnerRelease, recvVars, Owning, Handling
    <3>. QED BY <1>q, <1>c, <2>1, <2>2, <3>1, <3>2 DEF RefBalance, TriggerBalance
  <2>5. alive' <=> ref' > 0
    <3>1. alive' <=> ref # 1
      BY <1>7 DEF OwnerRelease
    <3>2. ref' > 0 <=> ref # 1
      BY <1>7, <1>q, <2>2 DEF OwnerRelease
    <3>. QED BY <3>1, <3>2
  <2>6. \A s \in Senders : pc'[s] = "idle"
    BY <1>7 DEF OwnerRelease, sendVars
  <2>. QED BY <1>7, <2>3, <2>4, <2>5, <2>6 DEF OwnerRelease, sendVars, recvVars
<1>8. CASE UNCHANGED pumpVars
  <2>1. At("referenced")' = At("referenced") /\ At("pushed")' = At("pushed")
    BY <1>8 DEF pumpVars, At
  <2>. QED BY <1>8, <2>1 DEF pumpVars, PumpTypeOK, RefBalance, TriggerBalance, Owning, Handling
<1>. QED BY <1>1, <1>2, <1>3, <1>4, <1>5, <1>6, <1>7, <1>8 DEF PumpNext, SenderStep, MainLoopStep

LEMMA PumpInvariance == PumpSpec => []PumpInv
BY PumpInvInit, PumpInvStep, PTL DEF PumpSpec

-----------------------------------------------------------------------------
(* PumpTypeOK, NoEmptyPop and NoUseAfterDelete follow from the balances. *)

LEMMA InvNoEmptyPop == PumpInv => NoEmptyPop
<1>. SUFFICES ASSUME PumpInv, rpc = "pop", queue = <<>> PROVE FALSE
  BY DEF NoEmptyPop
<1>1. Len(queue) = 0 /\ Handling = 0
  BY DEF Handling
<1>2. count # 0 /\ count \in Nat /\ eventfd \in Nat
  BY DEF PumpInv, PumpTypeOK
<1>. QED BY <1>1, <1>2, CountsAreNaturals DEF PumpInv, TriggerBalance

LEMMA InvNoUseAfterDelete == PumpInv => NoUseAfterDelete
<1>. SUFFICES ASSUME PumpInv, ~alive
              PROVE /\ \A s \in Senders : pc[s] = "idle"
                    /\ queue = <<>> /\ eventfd = 0 /\ rpc = "poll"
  BY DEF NoUseAfterDelete
<1>1. ref = 0
  BY DEF PumpInv, PumpTypeOK
<1>2. Len(queue) \in Nat /\ Cardinality(At("referenced")) \in Nat /\ Cardinality(At("pushed")) \in Nat
  BY CountsAreNaturals DEF PumpInv, PumpTypeOK
<1>3. ~owned /\ Len(queue) = 0 /\ Handling = 0
  BY <1>1, <1>2 DEF PumpInv, RefBalance, Owning, Handling
<1>4. eventfd = 0 /\ count = 0
  BY <1>2, <1>3 DEF PumpInv, PumpTypeOK, TriggerBalance
<1>5. queue = <<>>
  BY <1>3 DEF PumpInv, PumpTypeOK
<1>. QED BY <1>3, <1>4, <1>5 DEF PumpInv

(* The queue is never empty when do_recv() pops, the object is never used  *)
(* after its deletion, and every variable keeps its type, in every         *)
(* behaviour, with any number of senders and of posts.                     *)
THEOREM Safety == PumpSpec => [](PumpTypeOK /\ NoEmptyPop /\ NoUseAfterDelete)
<1>1. PumpInv => PumpTypeOK
  BY DEF PumpInv
<1>. QED BY <1>1, PumpInvariance, InvNoEmptyPop, InvNoUseAfterDelete, PTL

-----------------------------------------------------------------------------
(* The pump implements the channel: a push is a Send, a release is a       *)
(* Receive (with a Close when it drops the last reference), and every      *)
(* other step leaves the channel as it is.                                 *)

Pending == (IF rpc = "handle" THEN <<msg>> ELSE <<>>) \o queue

LEMMA StepImplements ==
  ASSUME PumpInv, PumpInv', [PumpNext]_pumpVars
  PROVE  [Channel!ChanNext]_(Channel!chanVars)
<1>. USE DEF Channel!ChanNext, Channel!chanVars, Channel!Send, Channel!Receive,
             Channel!Close, Channel!ReceiveAndClose
<1>t. /\ queue \in Seq(Event) /\ msg \in Event \cup {NoEvent}
      /\ rpc = "handle" => msg \in Event
  BY DEF PumpInv, PumpTypeOK
<1>t2. /\ queue' \in Seq(Event)
       /\ rpc' = "handle" => msg' \in Event
  BY DEF PumpInv, PumpTypeOK
<1>1. ASSUME NEW s \in Senders, TakeReference(s) PROVE UNCHANGED Channel!chanVars
  BY <1>1 DEF TakeReference, recvVars
<1>2. ASSUME NEW s \in Senders, Push(s) PROVE Channel!ChanNext
  <2>1. <<s, sent[s]>> \in Event
    BY <1>2 DEF Push, PumpInv, PumpTypeOK, Event
  <2>2. alive
    <3>1. ref > 0
      BY <1>2, Somebody, CountsAreNaturals DEF Push, PumpInv, PumpTypeOK, RefBalance, Owning, Handling
    <3>. QED BY <3>1 DEF PumpInv
  <2>3. alive' = alive
    BY <1>2 DEF Push
  <2>4. Pending' = Append(Pending, <<s, sent[s]>>)
    BY <1>2, <1>t, <2>1 DEF Push, Pending, recvVars
  <2>. QED BY <2>1, <2>2, <2>3, <2>4 DEF Pending
<1>3. ASSUME NEW s \in Senders, TriggerEvent(s) PROVE UNCHANGED Channel!chanVars
  BY <1>3 DEF TriggerEvent, recvVars
<1>4. CASE ReadEventfd
  <2>1. Pending' = Pending /\ alive' = alive
    BY <1>4 DEF ReadEventfd, Pending
  <2>. QED BY <2>1 DEF Pending
<1>5. CASE PopEvent
  <2>1. Pending' = Pending /\ alive' = alive
    BY <1>5, <1>t DEF PopEvent, Pending
  <2>. QED BY <2>1 DEF Pending
<1>6. CASE ReleaseEvent
  <2>1. ref > 0
    BY CountsAreNaturals, <1>6 DEF ReleaseEvent, PumpInv, PumpTypeOK, RefBalance, Owning, Handling
  <2>2. alive /\ msg \in Event
    BY <1>6, <1>t, <2>1 DEF ReleaseEvent, PumpInv
  <2>3. Pending = <<msg>> \o queue /\ Pending' = queue
    BY <1>6, <1>t DEF ReleaseEvent, Pending
  <2>4. Pending # <<>> /\ msg = Head(Pending) /\ Pending' = Tail(Pending)
    BY <1>t, <2>2, <2>3
  <2>5. CASE ref # 1
    <3>1. alive' = alive
      BY <1>6, <2>2, <2>5 DEF ReleaseEvent
    <3>. QED BY <2>2, <2>4, <3>1 DEF Pending
  <2>6. CASE ref = 1
    <3>1. alive' = FALSE
      BY <1>6, <2>6 DEF ReleaseEvent
    <3>2. Len(queue) = 0
      BY <1>6, <2>6, CountsAreNaturals DEF ReleaseEvent, PumpInv, PumpTypeOK, RefBalance, Owning, Handling
    <3>3. queue = <<>>
      BY <1>t, <3>2
    <3>4. Pending = <<msg>> /\ Pending' = <<>>
      BY <2>3, <3>3
    <3>. QED BY <2>2, <3>1, <3>4 DEF Pending
  <2>. QED BY <2>5, <2>6
<1>7. CASE OwnerRelease
  <2>1. Pending' = Pending
    BY <1>7 DEF OwnerRelease, Pending, recvVars
  <2>2. ref > 0
    BY CountsAreNaturals, <1>7 DEF OwnerRelease, PumpInv, PumpTypeOK, RefBalance, Owning, Handling
  <2>3. alive
    BY <2>2 DEF PumpInv
  <2>4. CASE ref # 1
    <3>1. alive' = alive
      BY <1>7, <2>3, <2>4 DEF OwnerRelease
    <3>. QED BY <2>1, <3>1 DEF Pending
  <2>5. CASE ref = 1
    <3>1. alive' = FALSE
      BY <1>7, <2>5 DEF OwnerRelease
    <3>2. Len(queue) = 0 /\ rpc # "handle"
      BY <1>7, <2>5, CountsAreNaturals DEF OwnerRelease, PumpInv, PumpTypeOK, RefBalance, Owning, Handling
    <3>3. queue = <<>>
      BY <1>t, <3>2
    <3>4. Pending = <<>>
      BY <3>2, <3>3 DEF Pending
    <3>. QED BY <2>1, <2>3, <3>1, <3>4 DEF Pending
  <2>. QED BY <2>4, <2>5
<1>8. CASE UNCHANGED pumpVars
  BY <1>8 DEF pumpVars
<1>. QED BY <1>1, <1>2, <1>3, <1>4, <1>5, <1>6, <1>7, <1>8 DEF PumpNext, SenderStep, MainLoopStep

(* The pump delivers every event once and in order, and is deleted only    *)
(* when it holds none: it implements EventChannel.                         *)
THEOREM Refinement == PumpSpec => ImplementsChannel
<1>1. PumpInit => Channel!ChanInit
  BY DEF PumpInit, Channel!ChanInit
<1>2. PumpInv /\ PumpInv' /\ [PumpNext]_pumpVars => [Channel!ChanNext]_(Channel!chanVars)
  BY StepImplements
<1>. QED BY <1>1, <1>2, PumpInvariance, PTL DEF PumpSpec, ImplementsChannel, Channel!ChanSpec
=============================================================================
