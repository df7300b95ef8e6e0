------------------------- MODULE RecordTimerProofs -------------------------
(***************************************************************************)
(* The recording timers, in memory and in their file, for every set of     *)
(* timers and every value of the constants of RecordTimer and TimerStore:  *)
(* in which list an entry is, who owns a recorder, that no entry is late,  *)
(* and what a restart brings back.                                         *)
(*                                                                         *)
(* Whatever a handler does, it makes r of the fields of one entry and      *)
(* hands it to one of three operators (AddTimerEntry, TimeChanged,         *)
(* Settle).  So there are two sorts of lemmas: what these three do to the  *)
(* lists and carry over of r, and, handler by handler, what r is.          *)
(***************************************************************************)
EXTENDS TimerStore, TLAPS, FiniteSetTheorems, SequenceTheorems

Distinct(s) == \A i, j \in 1 .. Len(s) : i # j => s[i] # s[j]

Typed == now \in Int /\ entry \in [Timers -> Entry] /\ live \in [Timers -> Int]

Bounded ==
  /\ now \in 0 .. MaxTime /\ last \in 0 .. MaxTime
  /\ alarm \in 0 .. MaxWaitTime
  /\ loop \in {"idle", "calc", "warp", "processing"}
  /\ recordings \in Nat
  /\ removing \in Timers \cup {NoTimer}
  /\ edits \in 0 .. MaxEdits /\ clockSets \in 0 .. MaxClockSets

(* Each list holds timers, each once.  Entries wait in `warping' only while *)
(* the processed ones are re-evaluated.                                    *)
Lists ==
  /\ list \in Seq(Timers) /\ processed \in Seq(Timers) /\ warping \in Seq(Timers)
  /\ Distinct(list) /\ Distinct(processed) /\ Distinct(warping)
  /\ warping # <<>> => loop = "warp"

(* An entry is in one list: in timer_list if and only if it has neither    *)
(* ended nor yet to be recorded, and a new one is in none.                 *)
Placed(e) ==
  /\ Contains(list, e) => /\ entry[e].state # Ended
                          /\ ~Contains(processed, e) /\ ~Contains(warping, e)
  /\ Contains(processed, e) => ~Contains(warping, e)
  /\ \/ Contains(list, e) \/ entry[e].state = Ended
     \/ entry[e] = NewEntry(e) /\ ~Contains(processed, e) /\ ~Contains(warping, e)

(* Nobody disables an entry. *)
Enabled == "disable" \notin Events

(* No stream that repeats is disabled while it is recorded.  One that is   *)
(* becomes a processed timer, and when it ends it is put among these once  *)
(* more (GstRecordEnded): only without that is an entry in one place.      *)
Steady == Enabled \/ Streams \cap Repeated = {}

(* What calcNextActivation() activates. *)
Chosen(w) == Activates(w) /\ DoActivate(w, entry[w])

(* An entry r with n recorders: it can be started once it is prepared; it  *)
(* has the one it holds; and where nobody disables it, that is the only    *)
(* one, until it has ended.                                                *)
Startable(e, r) ==
  r.state = Prepared /\ e \notin JustPlay /\ ~r.cancelled /\ ~r.failed => r.recorder = "ready"

Holding(r, n) == n \in Nat /\ (r.recorder # "none" => n > 0)

Owning(r, n) ==
  /\ ~r.disabled
  /\ r.recorder # "none" => r.state \in {Prepared, Running}
  /\ n = IF r.recorder = "none" THEN 0 ELSE 1

(* An entry that records runs, and one that runs is not disabled, unless   *)
(* it repeats.                                                             *)
Lasting(e, r) ==
  /\ e \notin Repeated => ~r.repeats
  /\ Enabled \/ e \notin Repeated => /\ r.recorder = "recording" => r.state = Running
                                     /\ r.state = Running => ~r.disabled

Sound(e, r, n) ==
  Startable(e, r) /\ Holding(r, n) /\ Lasting(e, r) /\ (Enabled => Owning(r, n))

TimerInv ==
  /\ Steady /\ Typed /\ Bounded /\ Lists
  /\ \A e \in Timers : Placed(e) /\ Sound(e, entry[e], live[e])

(* What the lists do to an entry r: it may only be put aside or woken up.  *)
Carries(r, q) ==
  /\ q.recorder = r.recorder /\ q.failed = r.failed /\ q.cancelled = r.cancelled
  /\ q.repeats = r.repeats /\ (q.disabled => r.disabled)
  /\ \/ q.state = r.state
     \/ q.state \in {Waiting, Ended} /\ (r.state \in {Waiting, Ended} \/ r.disabled)

(* A handler has changed e to r; the lists have carried it and the others. *)
Moved(e, r) ==
  /\ entry' \in [Timers -> Entry]
  /\ Carries(r, entry'[e])
  /\ \A x \in Timers \ {e} : Carries(entry[x], entry'[x])

(* It has taken e from where it was, if it was anywhere, and put it into   *)
(* the one list or the other; of the others, only processed ones may have  *)
(* changed, or gone because they are old.                                  *)
Relisted(e) ==
  /\ list' \in Seq(Timers) /\ processed' \in Seq(Timers)
  /\ Distinct(list') /\ Distinct(processed')
  /\ \A x \in Timers \ {e} :
        /\ Contains(list', x) <=> Contains(list, x)
        /\ Contains(processed', x) => Contains(processed, x)
        /\ Contains(processed, x) => Contains(processed', x) \/ ~Kept(entry'[x])
        /\ \/ entry'[x] = entry[x]
           \/ /\ Contains(processed, x) /\ entry'[x].state = entry[x].state
              /\ ~entry[x].repeats
  /\ IF Contains(list', e) THEN ~Contains(processed', e) /\ entry'[e].state # Ended
     ELSE Contains(processed', e) /\ entry'[e].state = Ended

-----------------------------------------------------------------------------
(* Sequences *)

(* The entries of s are entries of r, in the same order.                   *)
Within(s, r) ==
  \A i, j \in 1 .. Len(s) : i < j =>
     \E k, l \in 1 .. Len(r) : k < l /\ s[i] = r[k] /\ s[j] = r[l]

(* t is s, with e put in at p. *)
Inserted(s, p, e, t) ==
  /\ t \in Seq(Timers) /\ Len(t) = Len(s) + 1
  /\ t[p] = e
  /\ \A i \in 1 .. Len(s) : IF i < p THEN t[i] = s[i] ELSE t[i + 1] = s[i]

LEMMA InsertAtPuts ==
  ASSUME NEW s \in Seq(Timers), NEW e \in Timers, NEW p \in 1 .. Len(s) + 1
  PROVE  Inserted(s, p, e, InsertAt(s, p, e))
<1> DEFINE a == SubSeq(s, 1, p - 1)
           b == SubSeq(s, p, Len(s))
<1>1. Len(s) \in Nat /\ p \in Int /\ \A i \in 1 .. Len(s) : s[i] \in Timers
  BY LenProperties, ElementOfSeq
<1>2. /\ a \in Seq(Timers) /\ Len(a) = p - 1
      /\ \A i \in 1 .. p - 1 : a[i] = s[i]
  <2>1. 1 \in Int /\ p - 1 \in Int /\ \A i \in 1 .. p - 1 : s[i] \in Timers
    BY <1>1
  <2> QED BY <1>1, <2>1, SubSeqProperties
<1>3. /\ b \in Seq(Timers) /\ Len(b) = Len(s) - p + 1
      /\ \A i \in 1 .. Len(s) - p + 1 : b[i] = s[p + i - 1]
  <2>1. p \in Int /\ Len(s) \in Int /\ \A i \in p .. Len(s) : s[i] \in Timers
    BY <1>1
  <2> QED BY <1>1, <2>1, SubSeqProperties
<1> HIDE DEF a, b
<1>4. /\ <<e>> \in Seq(Timers) /\ Len(<<e>>) = 1 /\ <<e>>[1] = e
  OBVIOUS
<1> DEFINE c == a \o <<e>>
<1>5. /\ c \in Seq(Timers) /\ Len(c) = p
      /\ \A i \in 1 .. p : c[i] = IF i <= p - 1 THEN s[i] ELSE e
  <2>1. /\ c \in Seq(Timers) /\ Len(c) = Len(a) + Len(<<e>>)
        /\ \A i \in 1 .. Len(a) + Len(<<e>>) : c[i] = IF i <= Len(a) THEN a[i] ELSE <<e>>[i - Len(a)]
    BY <1>2, <1>4, ConcatProperties
  <2> QED BY <1>1, <1>2, <1>4, <2>1
<1> HIDE DEF c
<1> DEFINE t == c \o b
<1>6. /\ t \in Seq(Timers) /\ Len(t) = Len(c) + Len(b)
      /\ \A i \in 1 .. Len(c) + Len(b) : t[i] = IF i <= Len(c) THEN c[i] ELSE b[i - Len(c)]
  BY <1>3, <1>5, ConcatProperties
<1>7. InsertAt(s, p, e) = t
  BY DEF InsertAt, a, b, c
<1> HIDE DEF t
<1>8. Len(t) = Len(s) + 1
  BY <1>1, <1>3, <1>5, <1>6
<1>9. t[p] = e
  BY <1>1, <1>3, <1>5, <1>6
<1>10. ASSUME NEW i \in 1 .. Len(s) PROVE IF i < p THEN t[i] = s[i] ELSE t[i + 1] = s[i]
  <2>1. CASE i < p
    BY <1>1, <1>3, <1>5, <1>6, <2>1
  <2>2. CASE ~(i < p)
    <3>1. i + 1 - p \in 1 .. Len(s) - p + 1 /\ p + (i + 1 - p) - 1 = i
      BY <1>1, <2>2
    <3>2. t[i + 1] = b[i + 1 - p]
      BY <1>1, <1>3, <1>5, <1>6, <2>2
    <3> QED BY <1>3, <2>2, <3>1, <3>2
  <2> QED BY <2>1, <2>2
<1> QED
  BY <1>6, <1>7, <1>8, <1>9, <1>10 DEF Inserted

(* Taking the first e out of a list in which nothing is twice.             *)
LEMMA RemoveFirstTakes ==
  ASSUME NEW s \in Seq(Timers), NEW e, Distinct(s)
  PROVE  LET t == RemoveFirst(s, e)
         IN  /\ t \in Seq(Timers) /\ Distinct(t) /\ Within(t, s)
             /\ \A x : Contains(t, x) <=> Contains(s, x) /\ x # e
<1>1. Len(s) \in Nat /\ \A i \in 1 .. Len(s) : s[i] \in Timers
  BY LenProperties, ElementOfSeq
<1>2. CASE ~\E i \in 1 .. Len(s) : s[i] = e
  <2>1. RemoveFirst(s, e) = s
    BY <1>2 DEF RemoveFirst
  <2> QED BY <1>1, <1>2, <2>1 DEF Within, Contains
<1>3. CASE \E i \in 1 .. Len(s) : s[i] = e
  <2>1. PICK n \in 1 .. Len(s) : s[n] = e
    BY <1>3
  <2>2. SelectInSeq(s, LAMBDA v : v = e) = n
    <3> DEFINE I == {i \in 1 .. Len(s) : s[i] = e}
    <3>1. I = {n}
      BY <2>1 DEF Distinct
    <3> QED
      BY <1>1, <3>1 DEF SelectInSeq, Min
  <2> DEFINE a == SubSeq(s, 1, n - 1)
             b == SubSeq(s, n + 1, Len(s))
             t == a \o b
  <2>3. RemoveFirst(s, e) = t
    BY <1>3, <2>2 DEF RemoveFirst, RemoveAt
  <2>4. /\ a \in Seq(Timers) /\ Len(a) = n - 1
        /\ \A i \in 1 .. n - 1 : a[i] = s[i]
    <3>1. 1 \in Int /\ n - 1 \in Int /\ \A i \in 1 .. n - 1 : s[i] \in Timers
      BY <1>1
    <3> QED BY <1>1, <3>1, SubSeqProperties
  <2>5. /\ b \in Seq(Timers) /\ Len(b) = Len(s) - n
        /\ \A i \in 1 .. Len(s) - n : b[i] = s[n + i]
    <3>1. n + 1 \in Int /\ Len(s) \in Int /\ \A i \in n + 1 .. Len(s) : s[i] \in Timers
      BY <1>1
    <3>2. /\ b \in Seq(Timers) /\ Len(b) = IF n + 1 <= Len(s) THEN Len(s) - (n + 1) + 1 ELSE 0
          /\ \A i \in 1 .. Len(s) - (n + 1) + 1 : b[i] = s[(n + 1) + i - 1]
      BY <3>1, SubSeqProperties
    <3>3. \A i \in 1 .. Len(s) - n : (n + 1) + i - 1 = n + i /\ i \in 1 .. Len(s) - (n + 1) + 1
      BY <1>1
    <3> HIDE DEF b
    <3> QED BY <1>1, <3>2, <3>3
  <2> HIDE DEF a, b
  <2>6. /\ t \in Seq(Timers) /\ Len(t) = Len(s) - 1
        /\ \A i \in 1 .. Len(s) - 1 : t[i] = IF i < n THEN s[i] ELSE s[i + 1]
    <3>1. /\ t \in Seq(Timers) /\ Len(t) = Len(a) + Len(b)
          /\ \A i \in 1 .. Len(a) + Len(b) : t[i] = IF i <= Len(a) THEN a[i] ELSE b[i - Len(a)]
      BY <2>4, <2>5, ConcatProperties
    <3> HIDE DEF t
    <3>2. ASSUME NEW i \in 1 .. Len(s) - 1, ~(i < n) PROVE t[i] = s[i + 1]
      <4>1. i - (n - 1) \in 1 .. Len(s) - n /\ n + (i - (n - 1)) = i + 1
        BY <1>1, <3>2
      <4>2. t[i] = b[i - (n - 1)]
        BY <1>1, <2>4, <2>5, <3>1, <3>2
      <4>3. b[i - (n - 1)] = s[n + (i - (n - 1))]
        BY <2>5, <4>1
      <4> QED BY <4>1, <4>2, <4>3
    <3>3. ASSUME NEW i \in 1 .. Len(s) - 1, i < n PROVE t[i] = s[i]
      <4>1. i \in 1 .. n - 1 /\ i \in 1 .. Len(a) + Len(b) /\ i <= Len(a)
        BY <1>1, <2>4, <2>5, <3>3
      <4> QED BY <2>4, <3>1, <4>1
    <3>4. Len(t) = Len(s) - 1
      BY <1>1, <2>4, <2>5, <3>1
    <3> QED BY <3>1, <3>2, <3>3, <3>4
  <2> HIDE DEF t
  <2> DEFINE f(i) == IF i < n THEN i ELSE i + 1
  <2>7. \A i \in 1 .. Len(t) : f(i) \in 1 .. Len(s) /\ f(i) # n /\ t[i] = s[f(i)]
    BY <1>1, <2>6
  <2>8. \A i, j \in 1 .. Len(t) : i < j => f(i) < f(j)
    BY <1>1, <2>6
  <2>9. \A k \in 1 .. Len(s) : k # n => \E i \in 1 .. Len(t) : f(i) = k
    <3> SUFFICES ASSUME NEW k \in 1 .. Len(s), k # n
                 PROVE  \E i \in 1 .. Len(t) : f(i) = k
      OBVIOUS
    <3>1. CASE k < n
      BY <1>1, <2>6, <3>1
    <3>2. CASE k > n
      <4>1. k - 1 \in 1 .. Len(t) /\ f(k - 1) = k
        BY <1>1, <2>6, <3>2
      <4> QED BY <4>1
    <3> QED BY <1>1, <3>1, <3>2
  <2> HIDE DEF f
  <2>10. Within(t, s)
    BY <2>7, <2>8 DEF Within
  <2>11. Distinct(t)
    <3> SUFFICES ASSUME NEW i \in 1 .. Len(t), NEW j \in 1 .. Len(t), i # j PROVE t[i] # t[j]
      BY DEF Distinct
    <3>1. f(i) # f(j)
      BY <1>1, <2>6, <2>7, <2>8
    <3> QED BY <2>7, <3>1 DEF Distinct
  <2>12. ASSUME NEW x PROVE Contains(t, x) <=> Contains(s, x) /\ x # e
    <3>1. Contains(t, x) => Contains(s, x) /\ x # e
      BY <2>1, <2>7 DEF Contains, Distinct
    <3>2. Contains(s, x) /\ x # e => Contains(t, x)
      BY <2>1, <2>7, <2>9 DEF Contains
    <3> QED BY <3>1, <3>2
  <2> QED BY <2>3, <2>6, <2>10, <2>11, <2>12
<1> QED
  BY <1>2, <1>3

LEMMA AppendPuts ==
  ASSUME NEW s \in Seq(Timers), NEW e \in Timers, Distinct(s), ~Contains(s, e)
  PROVE  /\ Append(s, e) \in Seq(Timers) /\ Distinct(Append(s, e))
         /\ \A x : Contains(Append(s, e), x) <=> Contains(s, x) \/ x = e
<1> DEFINE t == Append(s, e)
<1>1. /\ t \in Seq(Timers) /\ Len(t) = Len(s) + 1 /\ Len(s) \in Nat
      /\ \A i \in 1 .. Len(s) : t[i] = s[i]
      /\ t[Len(s) + 1] = e
  BY AppendProperties, LenProperties
<1> HIDE DEF t
<1>2. Distinct(t)
  BY <1>1 DEF Distinct, Contains
<1>3. ASSUME NEW x PROVE Contains(t, x) <=> Contains(s, x) \/ x = e
  BY <1>1 DEF Contains
<1> QED BY <1>1, <1>2, <1>3 DEF t

LEMMA TailDrops ==
  ASSUME NEW s \in Seq(Timers), Distinct(s), s # <<>>
  PROVE  /\ Head(s) \in Timers /\ Tail(s) \in Seq(Timers) /\ Distinct(Tail(s))
         /\ \A x : Contains(Tail(s), x) <=> Contains(s, x) /\ x # Head(s)
         /\ Contains(s, Head(s))
<1>1. /\ Head(s) \in Timers /\ Tail(s) \in Seq(Timers)
      /\ Len(Tail(s)) = Len(s) - 1
      /\ \A i \in 1 .. Len(Tail(s)) : Tail(s)[i] = s[i + 1]
  BY HeadTailProperties
<1>2. Len(s) \in Nat \ {0} /\ Head(s) = s[1]
  BY EmptySeq
<1> DEFINE t == Tail(s)
<1> HIDE DEF t
<1>3. Distinct(t)
  BY <1>1, <1>2 DEF Distinct, t
<1>4. ASSUME NEW x PROVE Contains(t, x) <=> Contains(s, x) /\ x # Head(s)
  <2>1. Contains(t, x) => Contains(s, x) /\ x # Head(s)
    BY <1>1, <1>2 DEF Contains, Distinct, t
  <2>2. ASSUME Contains(s, x), x # Head(s) PROVE Contains(t, x)
    <3>1. PICK k \in 1 .. Len(s) : s[k] = x
      BY <2>2 DEF Contains
    <3>2. k - 1 \in 1 .. Len(t) /\ t[k - 1] = x
      BY <1>1, <1>2, <2>2, <3>1 DEF t
    <3> QED BY <3>2 DEF Contains
  <2> QED BY <2>1, <2>2
<1> QED BY <1>1, <1>2, <1>3, <1>4 DEF t, Contains

(* Only() drops entries and keeps the others as they are: there is an nth  *)
(* kept position for each n, as the positions up to a kept one are counted *)
(* differently for each; and each that is kept is the nth for one.         *)
LEMMA OnlyKeeps ==
  ASSUME NEW s \in Seq(Timers), NEW S, Distinct(s)
  PROVE  LET t == Only(s, S)
         IN  /\ t \in Seq(Timers) /\ Distinct(t)
             /\ \A x : Contains(t, x) <=> Contains(s, x) /\ x \in S
<1> DEFINE kept == {i \in DOMAIN s : s[i] \in S}
           Rank(i) == Cardinality({j \in kept : j <= i})
           Nth(n) == CHOOSE i \in kept : Rank(i) = n
           c == Cardinality(kept)
           t == Only(s, S)
<1>1. /\ Len(s) \in Nat /\ DOMAIN s = 1 .. Len(s)
      /\ \A i \in 1 .. Len(s) : s[i] \in Timers
  BY LenProperties, ElementOfSeq
<1>2. t = [n \in 1 .. c |-> s[Nth(n)]]
  BY DEF Only
<1>3. kept \subseteq 1 .. Len(s) /\ IsFiniteSet(kept) /\ c \in Nat
  <2>1. IsFiniteSet(1 .. Len(s))
    BY <1>1, FS_Interval
  <2> QED BY <1>1, <2>1, FS_Subset, FS_CardinalityType
<1> HIDE DEF kept
<1>4. ASSUME NEW i \in kept PROVE Rank(i) \in 1 .. c
  <2>1. {j \in kept : j <= i} \subseteq kept /\ i \in {j \in kept : j <= i}
    BY <1>1, <1>3
  <2>2. IsFiniteSet({j \in kept : j <= i}) /\ Rank(i) <= c /\ Rank(i) \in Nat
    BY <1>3, <2>1, FS_Subset, FS_CardinalityType
  <2>3. Rank(i) # 0
    BY <2>1, <2>2, FS_EmptySet
  <2> HIDE DEF Rank
  <2> QED BY <1>3, <2>2, <2>3
<1>5. ASSUME NEW i \in kept, NEW j \in kept, i < j PROVE Rank(i) < Rank(j)
  <2>1. /\ {k \in kept : k <= i} \subseteq {k \in kept : k <= j}
        /\ j \in {k \in kept : k <= j} /\ j \notin {k \in kept : k <= i}
    <3>1. i \in Int /\ j \in Int /\ \A k \in kept : k \in Int
      BY <1>3
    <3> HIDE DEF kept
    <3>2. \A k \in kept : k <= i => k <= j
      BY <1>5, <3>1
    <3>3. j <= j /\ ~(j <= i)
      BY <1>5, <3>1
    <3> QED BY <3>2, <3>3
  <2>2. IsFiniteSet({k \in kept : k <= j})
    BY <1>3, FS_Subset
  <2>3. Rank(i) \in Nat /\ Rank(j) \in Nat /\ Rank(i) <= Rank(j)
        /\ (Rank(i) = Rank(j) => {k \in kept : k <= i} = {k \in kept : k <= j})
    BY <2>1, <2>2, FS_Subset, FS_CardinalityType
  <2> HIDE DEF Rank
  <2> QED BY <2>1, <2>3
<1> HIDE DEF Rank
<1>6. ASSUME NEW n \in 1 .. c PROVE \E i \in kept : Rank(i) = n
  <2> SUFFICES ASSUME \A i \in kept : Rank(i) # n PROVE FALSE
    OBVIOUS
  <2> DEFINE g == [i \in kept |-> Rank(i)]
             T == (1 .. c) \ {n}
  <2>1. IsFiniteSet(T) /\ Cardinality(T) < Cardinality(kept)
    <3>1. IsFiniteSet(1 .. c) /\ Cardinality(1 .. c) = c
      BY <1>3, FS_Interval
    <3>2. IsFiniteSet(T) /\ Cardinality(T) = Cardinality(1 .. c) - 1
      BY <3>1, FS_RemoveElement
    <3> HIDE DEF T
    <3> QED BY <1>3, <3>1, <3>2
  <2>2. g \in [kept -> T]
    BY <1>4
  <2>3. \E x, y \in kept : x # y /\ g[x] = g[y]
    <3> HIDE DEF g, T
    <3> QED BY <1>3, <2>1, <2>2, FS_PigeonHole
  <2>4. PICK x \in kept, y \in kept : x # y /\ Rank(x) = Rank(y)
    BY <2>3
  <2>5. Rank(x) \in Int /\ Rank(y) \in Int /\ (x < y \/ y < x)
    BY <1>3, <1>4, <2>4
  <2> QED BY <1>5, <2>4, <2>5
<1>7. \A n \in 1 .. c : Nth(n) \in kept /\ Rank(Nth(n)) = n
  BY <1>6
<1>12. ASSUME NEW i \in kept PROVE Rank(i) \in 1 .. c /\ Nth(Rank(i)) = i
  <2>1. Rank(i) \in 1 .. c
    BY <1>4
  <2>2. PICK j \in kept : j = Nth(Rank(i)) /\ Rank(j) = Rank(i)
    BY <1>7, <2>1
  <2>3. i \in Int /\ j \in Int /\ Rank(i) \in Int
    BY <1>3, <2>1
  <2>4. ~(i < j) /\ ~(j < i)
    BY <1>5, <2>2, <2>3
  <2> QED BY <2>1, <2>2, <2>3, <2>4
<1> HIDE DEF Nth
<1>8. t \in Seq(Timers) /\ Len(t) = c
  <2>1. \A n \in 1 .. c : s[Nth(n)] \in Timers
    BY <1>1, <1>3, <1>7
  <2> HIDE DEF t
  <2> QED BY <1>2, <1>3, <2>1
<1>9. \A n \in 1 .. c : t[n] = s[Nth(n)]
  <2> HIDE DEF t
  <2> QED BY <1>2
<1> HIDE DEF t, c
<1>10. Distinct(t)
  <2> SUFFICES ASSUME NEW m \in 1 .. c, NEW n \in 1 .. c, m # n PROVE t[m] # t[n]
    BY <1>8 DEF Distinct
  <2>1. Nth(m) # Nth(n) /\ Nth(m) \in 1 .. Len(s) /\ Nth(n) \in 1 .. Len(s)
    BY <1>3, <1>7
  <2> QED BY <1>9, <2>1 DEF Distinct
<1>11. \A x : Contains(t, x) => Contains(s, x) /\ x \in S
  <2>1. \A n \in 1 .. c : Nth(n) \in 1 .. Len(s) /\ s[Nth(n)] \in S
    BY <1>3, <1>7 DEF kept
  <2> QED BY <1>8, <1>9, <2>1 DEF Contains
<1>13. ASSUME NEW x, Contains(s, x), x \in S PROVE Contains(t, x)
  <2>1. PICK i \in 1 .. Len(s) : s[i] = x
    BY <1>13 DEF Contains
  <2>2. i \in kept
    BY <1>1, <1>13, <2>1 DEF kept
  <2>3. Rank(i) \in 1 .. c /\ t[Rank(i)] = x
    BY <1>9, <1>12, <2>1, <2>2
  <2> QED BY <1>8, <2>3 DEF Contains
<1> QED BY <1>8, <1>10, <1>11, <1>13 DEF t

LEMMA CleanupKeeps ==
  ASSUME NEW s \in Seq(Timers), NEW f, Distinct(s)
  PROVE  LET t == CleanupDaily(s, f)
         IN  /\ t \in Seq(Timers) /\ Distinct(t)
             /\ \A x : Contains(t, x) => Contains(s, x)
             /\ \A x : Contains(s, x) => Contains(t, x) \/ ~Kept(f[x])
<1> DEFINE S == {e \in Timers : Kept(f[e])}
           t == Only(s, S)
<1>1. t \in Seq(Timers) /\ Distinct(t) /\ \A x : Contains(t, x) <=> Contains(s, x) /\ x \in S
  BY OnlyKeeps
<1>2. \A x : Contains(s, x) => x \in Timers
  BY ElementOfSeq DEF Contains
<1>3. CleanupDaily(s, f) = t
  BY DEF CleanupDaily
<1> HIDE DEF t
<1> QED BY <1>1, <1>2, <1>3
-----------------------------------------------------------------------------
(* One entry *)

(* A change of two fields keeps the record a record of fields.             *)
LEMMA MovedType ==
  ASSUME NEW r \in Entry, NEW b \in Int, NEW c \in Int
  PROVE  [r EXCEPT !.begin = b, !.end = c] \in Entry
BY DEF Entry

LEMMA PreparedType ==
  ASSUME NEW r \in Entry, NEW b \in Int, NEW c \in 0 .. MaxBackoff
  PROVE  [r EXCEPT !.prep = b, !.backoff = c] \in Entry
BY DEF Entry

(* A change of the state changes nothing else.                             *)
LEMMA StateType ==
  ASSUME NEW r \in Entry, NEW s \in Waiting .. Ended
  PROVE  LET q == [r EXCEPT !.state = s]
         IN  /\ q \in Entry /\ q.state = s /\ q.recorder = r.recorder
             /\ q.disabled = r.disabled /\ q.failed = r.failed /\ q.cancelled = r.cancelled
             /\ q.repeats = r.repeats
<1>1. [r EXCEPT !.state = s] \in Entry
  BY DEF Entry
<1> QED BY <1>1 DEF Entry

LEMMA EachState ==
  {Waiting, Prepared, Running, Ended} \subseteq Waiting .. Ended
BY DEF Waiting, Prepared, Running, Ended

(* An entry that has ended is woken up.                                    *)
LEMMA WokenCarries ==
  ASSUME NEW r \in Entry, NEW q \in Entry, Carries(r, q), r.state = Ended, q.state = Ended
  PROVE  [q EXCEPT !.state = Waiting] \in Entry /\ Carries(r, [q EXCEPT !.state = Waiting])
<1>1. [q EXCEPT !.state = Waiting] \in Entry
  BY DEF Entry, Waiting, Ended
<1> QED
  BY <1>1 DEF Carries, Entry

(* The changes of one entry keep the type and everything Carries() names.  *)
LEMMA TimesSetCarries ==
  ASSUME NEW r \in Entry
  PROVE  TimesSet(r) \in Entry /\ Carries(r, TimesSet(r)) /\ TimesSet(r).state = r.state
<1>1. r.begin - PrepareTime \in Int /\ 0 \in 0 .. MaxBackoff
  BY RecordTimerAssumption DEF Entry
<1>2. TimesSet(r) \in Entry
  BY <1>1, PreparedType, Zenon DEF TimesSet
<1> QED
  BY <1>2 DEF Entry, TimesSet, Carries

(* A day count is an integer, for a day of any length.                     *)
LEMMA DaysAheadType ==
  ASSUME NEW time \in Int, now \in Int
  PROVE  DaysAhead(time) \in Int /\ Day * DaysAhead(time) \in Int
<1>1. Day \in Nat \ {0}
  BY RecordTimerAssumption
<1>2. DaysAhead(time) \in Int
  BY <1>1 DEF DaysAhead
<1> QED
  BY <1>1, <1>2

(* A repeated entry is moved, and nothing else.                            *)
LEMMA RepeatedCarries ==
  ASSUME NEW r \in Entry, NEW b \in BOOLEAN, now \in Int
  PROVE  /\ ProcessRepeated(r, b) \in Entry /\ Carries(r, ProcessRepeated(r, b))
         /\ ProcessRepeated(r, b).state = r.state
<1> DEFINE shift == Day * DaysAhead(IF b THEN r.end ELSE r.begin)
           moved == [r EXCEPT !.begin = @ + shift, !.end = @ + shift]
<1>1. shift \in Int
  BY DaysAheadType DEF Entry
<1>2. moved \in Entry /\ Carries(r, moved) /\ moved.state = r.state
  <2>1. r.begin + shift \in Int /\ r.end + shift \in Int
    BY <1>1 DEF Entry
  <2> HIDE DEF shift
  <2>2. [r EXCEPT !.begin = r.begin + shift, !.end = r.end + shift] \in Entry
    BY <2>1, MovedType
  <2> QED BY <2>2 DEF Entry, Carries
<1>3. TimesSet(moved) \in Entry /\ Carries(moved, TimesSet(moved)) /\ TimesSet(moved).state = r.state
  <2> HIDE DEF moved
  <2> QED BY <1>2, TimesSetCarries
<1>4. CASE ~r.repeats
  BY <1>4 DEF ProcessRepeated, Carries
<1>5. CASE r.repeats
  <2>1. ProcessRepeated(r, b) = TimesSet(moved)
    BY <1>5 DEF ProcessRepeated
  <2> HIDE DEF moved
  <2> QED BY <1>2, <1>3, <2>1 DEF Carries
<1> QED
  BY <1>4, <1>5

(* A skipped entry only loses its disabled flag.                           *)
LEMMA SkipCarries ==
  ASSUME NEW r \in Entry
  PROVE  /\ SkipChecked(r) \in Entry /\ Carries(r, SkipChecked(r))
         /\ SkipChecked(r).state = r.state
         /\ r.repeats => SkipChecked(r) = r
BY DEF Entry, SkipChecked, Carries

-----------------------------------------------------------------------------
(* The lists *)

(* l is in the order of the next activations in f. *)
SortedAs(l, f) ==
  \A i, j \in 1 .. Len(l) : i < j => NextActivation(f[l[i]]) <= NextActivation(f[l[j]])

(* The order is kept, and calcNextActivation() follows where e is queued.  *)
Queued(e) ==
  /\ SortedAs(list, entry) => SortedAs(list', entry')
  /\ loop' \in {loop, "calc"}
  /\ loop' = "idle" => ~Contains(list', e)

(* l and p are timer_list and processed_timers without e. *)
Taken(e, l, p) ==
  /\ l \in Seq(Timers) /\ p \in Seq(Timers) /\ Distinct(l) /\ Distinct(p)
  /\ ~Contains(l, e) /\ ~Contains(p, e)
  /\ \A x \in Timers \ {e} : /\ Contains(l, x) <=> Contains(list, x)
                             /\ Contains(p, x) <=> Contains(processed, x)
  /\ Within(l, list)

LEMMA ActivationType ==
  ASSUME NEW r \in Entry
  PROVE  NextActivation(r) \in Int
BY DEF Entry, NextActivation

(* insort() puts the entry somewhere. *)
LEMMA InsortPuts ==
  ASSUME NEW l \in Seq(Timers), NEW e \in Timers, NEW r, Distinct(l), ~Contains(l, e),
         Insort(l, e, r)
  PROVE  /\ list' \in Seq(Timers) /\ Distinct(list')
         /\ \A x : Contains(list', x) <=> Contains(l, x) \/ x = e
<1>1. PICK p \in 1 .. Len(l) + 1 : list' = InsertAt(l, p, e)
  BY DEF Insort
<1>2. Inserted(l, p, e, list')
  BY <1>1, InsertAtPuts
<1> DEFINE t == list'
<1> HIDE DEF t
<1>3. /\ t \in Seq(Timers) /\ Len(t) = Len(l) + 1 /\ Len(l) \in Nat /\ t[p] = e
      /\ \A i \in 1 .. Len(l) : IF i < p THEN t[i] = l[i] ELSE t[i + 1] = l[i]
  BY <1>2, LenProperties DEF Inserted, t
<1> DEFINE g(k) == IF k < p THEN k ELSE k - 1
<1>4. \A k \in 1 .. Len(t) : k # p => g(k) \in 1 .. Len(l) /\ t[k] = l[g(k)]
  <2> SUFFICES ASSUME NEW k \in 1 .. Len(t), k # p PROVE g(k) \in 1 .. Len(l) /\ t[k] = l[g(k)]
    OBVIOUS
  <2>1. CASE k < p
    BY <1>3, <2>1
  <2>2. CASE k > p
    <3>1. k - 1 \in 1 .. Len(l) /\ ~(k - 1 < p) /\ (k - 1) + 1 = k
      BY <1>3, <2>2
    <3> QED BY <1>3, <2>2, <3>1
  <2> QED BY <1>3, <2>1, <2>2
<1>5. \A k, m \in 1 .. Len(t) : k # p /\ m # p /\ k # m => g(k) # g(m)
  BY <1>3
<1> HIDE DEF g
<1>6. Distinct(t)
  <2> SUFFICES ASSUME NEW k \in 1 .. Len(t), NEW m \in 1 .. Len(t), k # m PROVE t[k] # t[m]
    BY DEF Distinct
  <2>1. CASE k # p /\ m # p
    BY <1>4, <1>5, <2>1 DEF Distinct
  <2>2. CASE k = p
    BY <1>3, <1>4, <2>2 DEF Contains
  <2>3. CASE m = p
    BY <1>3, <1>4, <2>3 DEF Contains
  <2> QED BY <2>1, <2>2, <2>3
<1>7. ASSUME NEW x PROVE Contains(t, x) <=> Contains(l, x) \/ x = e
  <2>1. Contains(t, x) => Contains(l, x) \/ x = e
    BY <1>3, <1>4 DEF Contains
  <2>2. x = e => Contains(t, x)
    BY <1>3 DEF Contains
  <2>3. ASSUME Contains(l, x) PROVE Contains(t, x)
    <3>1. PICK i \in 1 .. Len(l) : l[i] = x
      BY <2>3 DEF Contains
    <3>2. i \in 1 .. Len(t) /\ i + 1 \in 1 .. Len(t) /\ (t[i] = x \/ t[i + 1] = x)
      BY <1>3, <3>1
    <3> QED BY <3>2 DEF Contains
  <2> QED BY <2>1, <2>2, <2>3
<1> QED BY <1>3, <1>6, <1>7 DEF t

(* ... behind those that are not later, and so a sorted list stays sorted. *)
LEMMA InsortSorts ==
  ASSUME Typed, NEW l \in Seq(Timers), NEW e \in Timers, NEW r \in Entry, ~Contains(l, e),
         Insort(l, e, r), SortedAs(l, entry),
         entry'[e] = r, \A x \in Timers : Contains(l, x) => entry'[x] = entry[x]
  PROVE  SortedAs(list', entry')
<1> DEFINE f == entry'
<1> HIDE DEF f
<1>0. f[e] = r /\ \A x \in Timers : Contains(l, x) => f[x] = entry[x]
  BY DEF f
<1> DEFINE N(x) == NextActivation(entry[x])
<1>1. PICK p \in 1 .. Len(l) + 1 :
         /\ p > 1 => N(l[p - 1]) <= NextActivation(r)
         /\ p <= Len(l) => NextActivation(r) < N(l[p])
         /\ list' = InsertAt(l, p, e)
  BY DEF Insort
<1>2. Inserted(l, p, e, list')
  BY <1>1, InsertAtPuts
<1>3. \A x \in Timers : N(x) \in Int
  BY ActivationType DEF Typed
<1>4. NextActivation(r) \in Int
  BY ActivationType
<1>5. \A i \in 1 .. Len(l) : l[i] \in Timers /\ f[l[i]] = entry[l[i]]
  BY <1>0, ElementOfSeq DEF Contains
<1>6. \A i, j \in 1 .. Len(l) : i < j => N(l[i]) <= N(l[j])
  BY DEF SortedAs
<1> HIDE DEF N
<1> DEFINE t == list'
<1> HIDE DEF t
<1>7. /\ Len(t) = Len(l) + 1 /\ Len(l) \in Nat /\ t[p] = e
      /\ \A i \in 1 .. Len(l) : IF i < p THEN t[i] = l[i] ELSE t[i + 1] = l[i]
  BY <1>2, LenProperties DEF Inserted, t
<1> DEFINE M(k) == IF k = p THEN NextActivation(r) ELSE IF k < p THEN N(l[k]) ELSE N(l[k - 1])
<1>8. ASSUME NEW k \in 1 .. Len(t) PROVE NextActivation(f[t[k]]) = M(k)
  <2>1. CASE k = p
    BY <1>0, <1>7, <2>1
  <2>2. CASE k < p
    <3>1. k \in 1 .. Len(l) /\ t[k] = l[k]
      BY <1>7, <2>2
    <3> QED BY <1>5, <2>2, <3>1 DEF N
  <2>3. CASE k > p
    <3>1. k - 1 \in 1 .. Len(l) /\ ~(k - 1 < p) /\ (k - 1) + 1 = k
      BY <1>7, <2>3
    <3>2. t[k] = l[k - 1]
      BY <1>7, <3>1
    <3>3. f[l[k - 1]] = entry[l[k - 1]]
      BY <1>5, <3>1
    <3> QED BY <2>3, <3>2, <3>3 DEF N
  <2> QED BY <1>7, <2>1, <2>2, <2>3
<1>9. ASSUME NEW i \in 1 .. Len(t), NEW j \in 1 .. Len(t), i < j PROVE M(i) <= M(j)
  <2>1. \A k \in 1 .. Len(l) : N(l[k]) \in Int
    BY <1>3, <1>5
  <2>2. \A k \in 1 .. Len(l) : k < p => N(l[k]) <= NextActivation(r)
    <3> SUFFICES ASSUME NEW k \in 1 .. Len(l), k < p PROVE N(l[k]) <= NextActivation(r)
      OBVIOUS
    <3>1. p > 1 /\ p - 1 \in 1 .. Len(l) /\ (k = p - 1 \/ k < p - 1)
      BY <1>7
    <3>2. N(l[k]) <= N(l[p - 1])
      BY <1>6, <2>1, <3>1
    <3> QED BY <1>1, <1>4, <2>1, <3>1, <3>2
  <2>3. \A k \in 1 .. Len(l) : k >= p => NextActivation(r) <= N(l[k])
    <3> SUFFICES ASSUME NEW k \in 1 .. Len(l), k >= p PROVE NextActivation(r) <= N(l[k])
      OBVIOUS
    <3>1. p <= Len(l) /\ p \in 1 .. Len(l) /\ (k = p \/ p < k)
      BY <1>7
    <3>2. N(l[p]) <= N(l[k])
      BY <1>6, <2>1, <3>1
    <3> QED BY <1>1, <1>4, <2>1, <3>1, <3>2
  <2>4. CASE i = p
    <3>1. j - 1 \in 1 .. Len(l) /\ j - 1 >= p /\ j > p
      BY <1>7, <1>9, <2>4
    <3> QED BY <2>3, <2>4, <3>1
  <2>5. CASE j = p
    <3>1. i \in 1 .. Len(l) /\ i < p
      BY <1>7, <1>9, <2>5
    <3> QED BY <2>2, <2>5, <3>1
  <2>6. CASE i < p /\ j < p
    BY <1>6, <1>7, <1>9, <2>6
  <2>7. CASE i < p /\ j > p
    <3>1. i \in 1 .. Len(l) /\ j - 1 \in 1 .. Len(l)
      BY <1>7, <1>9, <2>7
    <3> QED BY <1>4, <2>1, <2>2, <2>3, <2>7, <3>1
  <2>8. CASE i > p /\ j > p
    <3>1. i - 1 \in 1 .. Len(l) /\ j - 1 \in 1 .. Len(l) /\ i - 1 < j - 1
      BY <1>7, <1>9, <2>8
    <3> QED BY <1>6, <2>8, <3>1
  <2> QED BY <1>7, <1>9, <2>4, <2>5, <2>6, <2>7, <2>8
<1> QED BY <1>8, <1>9 DEF SortedAs, t, f

LEMMA WithinSorted ==
  ASSUME NEW s \in Seq(Timers), NEW l \in Seq(Timers), Within(s, l), NEW f, SortedAs(l, f)
  PROVE  SortedAs(s, f)
<1> SUFFICES ASSUME NEW i \in 1 .. Len(s), NEW j \in 1 .. Len(s), i < j
             PROVE  NextActivation(f[s[i]]) <= NextActivation(f[s[j]])
  BY DEF SortedAs
<1>1. PICK k \in 1 .. Len(l), m \in 1 .. Len(l) : k < m /\ s[i] = l[k] /\ s[j] = l[m]
  BY DEF Within
<1> QED BY <1>1 DEF SortedAs

(* addTimerEntry() *)
LEMMA AddMoves ==
  ASSUME Typed, list \in Seq(Timers), NEW e \in Timers, NEW r \in Entry, NEW l, NEW p,
         NEW recalc \in BOOLEAN, recalc \/ loop # "idle",
         Taken(e, l, p), AddTimerEntry(e, r, l, p, recalc)
  PROVE  Moved(e, r) /\ Relisted(e) /\ Queued(e)
<1> DEFINE q == ProcessRepeated(r, TRUE)
           s == [SkipChecked(q) EXCEPT !.state = Ended]
<1>1. q \in Entry /\ Carries(r, q) /\ q.state = r.state
  BY RepeatedCarries DEF Typed
<1>2. SkipChecked(q) \in Entry /\ Carries(q, SkipChecked(q)) /\ SkipChecked(q).state = q.state
  <2> HIDE DEF q
  <2> QED BY <1>1, SkipCarries
<1>3. /\ l \in Seq(Timers) /\ p \in Seq(Timers) /\ Distinct(l) /\ Distinct(p)
      /\ ~Contains(l, e) /\ ~Contains(p, e)
      /\ \A x \in Timers \ {e} : /\ Contains(l, x) <=> Contains(list, x)
                                 /\ Contains(p, x) <=> Contains(processed, x)
  BY DEF Taken
<1>4. Within(l, list)
  BY DEF Taken
<1>5. CASE ShouldSkip(q) \/ q.state = Ended
  <2>1. entry' = [entry EXCEPT ![e] = s] /\ list' = l /\ processed' = Append(p, e) /\ loop' = loop
    BY <1>5 DEF AddTimerEntry
  <2> HIDE DEF q
  <2>2. s \in Entry /\ s.state = Ended
    BY <1>2, StateType, EachState
  <2>3. q.state \in {Waiting, Ended} \/ q.disabled
    BY <1>5 DEF ShouldSkip
  <2>4. Carries(r, s)
    BY <1>1, <1>2, <2>2, <2>3 DEF Carries, Entry
  <2> HIDE DEF s
  <2>5. Moved(e, r)
    BY <2>1, <2>2, <2>4 DEF Moved, Typed, Carries
  <2>6. entry'[e] = s /\ \A x \in Timers \ {e} : entry'[x] = entry[x]
    BY <2>1 DEF Typed
  <2>7. /\ processed' \in Seq(Timers) /\ Distinct(processed')
        /\ \A x : Contains(processed', x) <=> Contains(p, x) \/ x = e
    BY <1>3, <2>1, AppendPuts
  <2>8. Relisted(e)
    BY <1>3, <2>1, <2>2, <2>6, <2>7 DEF Relisted
  <2>9. ASSUME SortedAs(list, entry) PROVE SortedAs(list', entry')
    <3>1. SortedAs(l, entry)
      BY <1>3, <1>4, <2>9, WithinSorted
    <3>2. \A i \in 1 .. Len(l) : entry'[l[i]] = entry[l[i]]
      BY <1>3, <2>6, ElementOfSeq DEF Contains
    <3> QED BY <2>1, <3>1, <3>2 DEF SortedAs
  <2> QED BY <1>3, <2>1, <2>5, <2>8, <2>9 DEF Queued
<1>6. CASE ~(ShouldSkip(q) \/ q.state = Ended)
  <2>1. /\ entry' = [entry EXCEPT ![e] = q] /\ Insort(l, e, q) /\ processed' = p
        /\ loop' = IF recalc THEN "calc" ELSE loop
    BY <1>6 DEF AddTimerEntry
  <2>2. q.state # Ended
    BY <1>6
  <2> HIDE DEF q
  <2>3. Moved(e, r)
    BY <1>1, <2>1 DEF Moved, Typed, Carries
  <2>4. entry'[e] = q /\ \A x \in Timers \ {e} : entry'[x] = entry[x]
    BY <2>1 DEF Typed
  <2>5. /\ list' \in Seq(Timers) /\ Distinct(list')
        /\ \A x : Contains(list', x) <=> Contains(l, x) \/ x = e
    BY <1>3, <2>1, InsortPuts
  <2>6. Relisted(e)
    BY <1>3, <2>1, <2>2, <2>4, <2>5 DEF Relisted
  <2>7. ASSUME SortedAs(list, entry) PROVE SortedAs(list', entry')
    <3>1. SortedAs(l, entry)
      BY <1>3, <1>4, <2>7, WithinSorted
    <3>2. \A x \in Timers : Contains(l, x) => entry'[x] = entry[x]
      BY <1>3, <2>4
    <3>3. ~Contains(l, e) /\ Insort(l, e, q)
      BY <1>3, <2>1
    <3> QED BY <1>1, <1>3, <2>4, <3>1, <3>2, <3>3, InsortSorts
  <2> QED BY <1>3, <2>1, <2>3, <2>6, <2>7 DEF Queued
<1> QED
  BY <1>5, <1>6

(* What carries over in two moves carries over in both: an entry that is   *)
(* woken up to be put into the list is one that had ended.                 *)
LEMMA MovedFrom ==
  ASSUME Typed, NEW e \in Timers, NEW r \in Entry, NEW q \in Entry,
         Carries(r, q), Moved(e, q)
  PROVE  Moved(e, r)
BY DEF Moved, Carries, Entry

(* timeChanged() of an entry that is in one of the lists: what it calls    *)
(* remove() on is there.                                                   *)
LEMMA TimeChangedMoves ==
  ASSUME Typed, Lists, NEW e \in Timers, Placed(e), Known(e),
         NEW r \in Entry, r.state = entry[e].state, TimeChanged(e, r)
  PROVE  Moved(e, r) /\ Relisted(e) /\ Queued(e)
<1> DEFINE q == TimesSet(r)
           woken == [q EXCEPT !.state = Waiting]
<1>1. q \in Entry /\ Carries(r, q) /\ q.state = r.state
  BY TimesSetCarries
<1>2. Within(list, list)
  BY DEF Within
<1>3. CASE r.state = Ended
  <2>1. AddTimerEntry(e, woken, list, RemoveFirst(processed, e), TRUE)
    BY <1>3 DEF TimeChanged
  <2> HIDE DEF q
  <2>2. woken \in Entry /\ Carries(r, woken)
    BY <1>1, <1>3, WokenCarries
  <2> HIDE DEF woken
  <2>3. ~Contains(list, e)
    BY <1>3 DEF Placed
  <2>4. Taken(e, list, RemoveFirst(processed, e))
    BY <1>2, <2>3, RemoveFirstTakes DEF Lists, Taken
  <2>5. PICK b \in BOOLEAN : b /\ AddTimerEntry(e, woken, list, RemoveFirst(processed, e), b)
    BY <2>1
  <2> QED BY <2>2, <2>4, <2>5, AddMoves, MovedFrom DEF Lists
<1>4. CASE r.state # Ended
  <2>1. Contains(list, e) /\ ~Contains(processed, e)
    BY <1>4 DEF Placed, Known
  <2>2. AddTimerEntry(e, q, RemoveFirst(list, e), processed, TRUE)
    BY <1>4, <2>1 DEF TimeChanged
  <2> HIDE DEF q
  <2>3. Taken(e, RemoveFirst(list, e), processed)
    BY <2>1, RemoveFirstTakes DEF Lists, Taken
  <2>4. PICK b \in BOOLEAN : b /\ AddTimerEntry(e, q, RemoveFirst(list, e), processed, b)
    BY <2>2
  <2> QED BY <1>1, <2>3, <2>4, AddMoves, MovedFrom DEF Lists
<1> QED
  BY <1>3, <1>4

(* doActivate() of an entry of the list, after activate(). *)
LEMMA SettleMoves ==
  ASSUME Typed, Lists, \A x \in Timers : Placed(x), NEW w \in Timers, Contains(list, w),
         NEW r \in Entry, loop # "idle" \/ r.state = Ended, Settle(w, r)
  PROVE  Moved(w, r) /\ Relisted(w) /\ Queued(w)
<1> DEFINE l == RemoveFirst(list, w)
           woken == [ProcessRepeated(r, TRUE) EXCEPT !.state = Waiting]
           checked == [x \in Timers |->
             IF x = w THEN r
             ELSE IF Contains(processed, x) THEN SkipChecked(entry[x]) ELSE entry[x]]
<1>1. ~Contains(processed, w)
  BY DEF Placed
<1>2. Taken(w, l, processed)
  BY <1>1, RemoveFirstTakes DEF Lists, Taken
<1>3. /\ l \in Seq(Timers) /\ Distinct(l) /\ Within(l, list)
      /\ \A x : Contains(l, x) <=> Contains(list, x) /\ x # w
  BY RemoveFirstTakes DEF Lists
<1>4. CASE r.state < Ended
  <2>1. r.state # Ended
    BY <1>4 DEF Ended
  <2>2. /\ entry' = [entry EXCEPT ![w] = r] /\ Insort(l, w, r)
        /\ processed' = processed /\ loop' = loop
    BY <1>4, <2>1, Zenon DEF Settle
  <2> HIDE DEF l
  <2>3. Moved(w, r)
    BY <2>2 DEF Moved, Typed, Carries
  <2>4. entry'[w] = r /\ \A x \in Timers \ {w} : entry'[x] = entry[x]
    BY <2>2 DEF Typed
  <2>5. /\ list' \in Seq(Timers) /\ Distinct(list')
        /\ \A x : Contains(list', x) <=> Contains(l, x) \/ x = w
    BY <1>3, <2>2, InsortPuts
  <2>6. Relisted(w)
    BY <1>1, <1>3, <2>1, <2>2, <2>4, <2>5 DEF Relisted, Lists
  <2>7. ASSUME SortedAs(list, entry) PROVE SortedAs(list', entry')
    <3>1. SortedAs(l, entry)
      BY <1>3, <2>7, WithinSorted DEF Lists
    <3>2. \A x \in Timers : Contains(l, x) => entry'[x] = entry[x]
      BY <1>3, <2>4
    <3>3. ~Contains(l, w)
      BY <1>3
    <3> QED BY <1>3, <2>2, <2>4, <3>1, <3>2, <3>3, InsortSorts
  <2> QED BY <2>1, <2>2, <2>3, <2>6, <2>7 DEF Queued
<1>5. CASE r.state = Ended /\ r.repeats
  <2>1. ~(r.state < Ended)
    BY <1>5 DEF Ended
  <2>2. AddTimerEntry(w, woken, l, processed, TRUE)
    BY <1>5, <2>1, Zenon DEF Settle
  <2>3. /\ ProcessRepeated(r, TRUE) \in Entry
        /\ Carries(r, ProcessRepeated(r, TRUE))
        /\ ProcessRepeated(r, TRUE).state = r.state
    BY RepeatedCarries DEF Typed
  <2>4. woken \in Entry /\ Carries(r, woken)
    BY <1>5, <2>3, WokenCarries
  <2> HIDE DEF woken, l
  <2>5. PICK b \in BOOLEAN : b /\ AddTimerEntry(w, woken, l, processed, b)
    BY <2>2
  <2> QED BY <1>2, <2>4, <2>5, AddMoves, MovedFrom DEF Lists
<1>6. CASE r.state = Ended /\ ~r.repeats
  <2>1. /\ entry' = checked /\ loop' = loop /\ list' = l
        /\ processed' = Append(CleanupDaily(processed, checked), w)
    BY <1>6 DEF Settle, Ended
  <2>2. ASSUME NEW x \in Timers \ {w}
        PROVE  /\ checked[x] \in Entry /\ Carries(entry[x], checked[x])
               /\ checked[x].state = entry[x].state
               /\ entry[x].repeats => checked[x] = entry[x]
    <3>1. entry[x] \in Entry
      BY DEF Typed
    <3>2. /\ SkipChecked(entry[x]) \in Entry /\ Carries(entry[x], SkipChecked(entry[x]))
          /\ SkipChecked(entry[x]).state = entry[x].state
          /\ entry[x].repeats => SkipChecked(entry[x]) = entry[x]
      BY <3>1, SkipCarries
    <3>3. Carries(entry[x], entry[x])
      BY DEF Carries
    <3> QED BY <3>1, <3>2, <3>3
  <2>3. checked[w] = r /\ Carries(r, checked[w])
    BY DEF Carries
  <2>4. \A x \in Timers \ {w} : ~Contains(processed, x) => checked[x] = entry[x]
    OBVIOUS
  <2>5. checked \in [Timers -> Entry]
    BY <2>2, <2>3
  <2> HIDE DEF checked, l
  <2>6. Moved(w, r)
    BY <2>1, <2>2, <2>3, <2>5 DEF Moved
  <2> DEFINE p == CleanupDaily(processed, checked)
  <2>7. /\ p \in Seq(Timers) /\ Distinct(p)
        /\ \A x : Contains(p, x) => Contains(processed, x)
        /\ \A x : Contains(processed, x) => Contains(p, x) \/ ~Kept(checked[x])
    BY CleanupKeeps DEF Lists
  <2> HIDE DEF p
  <2>8. /\ processed' \in Seq(Timers) /\ Distinct(processed')
        /\ \A x : Contains(processed', x) <=> Contains(p, x) \/ x = w
    BY <1>1, <2>1, <2>7, AppendPuts DEF p
  <2>9. Relisted(w)
    BY <1>3, <1>6, <2>1, <2>2, <2>3, <2>4, <2>7, <2>8 DEF Relisted
  <2>10. ASSUME SortedAs(list, entry) PROVE SortedAs(list', entry')
    <3>1. SortedAs(l, entry)
      BY <1>3, <2>10, WithinSorted DEF Lists
    <3>2. \A i \in 1 .. Len(l) : entry'[l[i]] = entry[l[i]]
      <4>1. \A i \in 1 .. Len(l) : l[i] \in Timers /\ Contains(l, l[i])
        BY <1>3, ElementOfSeq DEF Contains
      <4> QED BY <1>3, <2>1, <2>4, <2>10, <4>1 DEF Placed
    <3> QED BY <2>1, <3>1, <3>2 DEF SortedAs
  <2> QED BY <1>3, <2>1, <2>6, <2>9, <2>10 DEF Queued
<1> QED
  <2>1. r.state \in Waiting .. Ended
    BY DEF Entry
  <2> QED BY <1>4, <1>5, <1>6, <2>1 DEF Waiting, Ended

-----------------------------------------------------------------------------
(* Handlers: what a handler makes of its entry is sound, and the lists     *)
(* carry that.                                                             *)

Made(e, r) ==
  /\ r \in Entry
  /\ live' \in [Timers -> Int] /\ \A x \in Timers \ {e} : live'[x] = live[x]
  /\ Sound(e, r, live'[e])

Handled(e) == \E r : Made(e, r) /\ Moved(e, r) /\ Relisted(e) /\ Queued(e)

LEMMA CarriedIsSound ==
  ASSUME NEW e \in Timers, NEW r \in Entry, NEW q \in Entry, NEW n,
         Carries(r, q), Sound(e, r, n)
  PROVE  Sound(e, q, n)
<1>1. Startable(e, q)
  BY DEF Sound, Startable, Carries, Waiting, Prepared, Ended
<1>2. Enabled => Owning(q, n)
  BY DEF Sound, Owning, Carries, Waiting, Prepared, Running, Ended, Entry
<1>3. Holding(q, n)
  BY DEF Sound, Holding, Carries
<1>4. Lasting(e, q)
  BY DEF Sound, Lasting, Carries, Waiting, Running, Ended
<1> QED
  BY <1>1, <1>2, <1>3, <1>4 DEF Sound

LEMMA OneEntry ==
  ASSUME TimerInv, NEW e \in Timers
  PROVE  /\ entry[e] \in Entry /\ Placed(e) /\ Sound(e, entry[e], live[e])
         /\ now \in Int /\ live \in [Timers -> Int] /\ live[e] \in Nat
BY DEF TimerInv, Typed, Sound, Holding

LEMMA UntouchedMakes ==
  ASSUME TimerInv, NEW e \in Timers, NEW r \in Entry, Sound(e, r, live[e]), UNCHANGED live
  PROVE  Made(e, r)
<1>1. live' = live /\ live \in [Timers -> Int]
  BY DEF TimerInv, Typed
<1>2. Sound(e, r, live'[e])
  BY <1>1
<1> QED BY <1>1, <1>2 DEF Made

(* stopping the recorder it has *)
LEMMA ReleasedMakes ==
  ASSUME TimerInv, NEW e \in Timers, Released(e)
  PROVE  /\ live' \in [Timers -> Int] /\ \A x \in Timers \ {e} : live'[x] = live[x]
         /\ live'[e] = IF entry[e].recorder = "none" THEN live[e] ELSE live[e] - 1
         /\ live'[e] \in Nat
<1>1. live \in [Timers -> Int] /\ live[e] \in Nat /\ (entry[e].recorder # "none" => live[e] > 0)
  BY DEF TimerInv, Typed, Sound, Holding
<1> QED BY <1>1 DEF Released

LEMMA SettledIsHandled ==
  ASSUME TimerInv, NEW w \in Timers, NEW r, Made(w, r), Settle(w, r), Contains(list, w),
         loop # "idle" \/ r.state = Ended
  PROVE  Handled(w)
<1>1. Typed /\ Lists /\ (\A x \in Timers : Placed(x)) /\ r \in Entry
  BY DEF TimerInv, Made
<1>2. Moved(w, r) /\ Relisted(w) /\ Queued(w)
  BY <1>1, SettleMoves
<1> QED BY <1>2 DEF Handled

LEMMA ChangedIsHandled ==
  ASSUME TimerInv, NEW e \in Timers, NEW r, Made(e, r), TimeChanged(e, r), Known(e),
         r.state = entry[e].state
  PROVE  Handled(e)
<1>1. Typed /\ Lists /\ Placed(e) /\ r \in Entry
  BY DEF TimerInv, Made
<1>2. Moved(e, r) /\ Relisted(e) /\ Queued(e)
  BY <1>1, TimeChangedMoves
<1> QED BY <1>2 DEF Handled

(* An entry that is in no list has ended, or is new. *)
LEMMA KnownOrNot ==
  ASSUME TimerInv, NEW e \in Timers, entry[e].state # Ended,
         entry[e].state # Waiting \/ entry[e].recorder # "none"
  PROVE  Contains(list, e) /\ ~Contains(processed, e)
<1>1. Placed(e)
  BY OneEntry
<1>2. entry[e] # NewEntry(e)
  BY DEF NewEntry
<1> QED BY <1>1, <1>2 DEF Placed

-----------------------------------------------------------------------------
(* activate(), case by case *)

(* The numbers a handler computes are integers, and a backoff has a limit. *)
LEMMA Numbers ==
  /\ \A c \in {RetryDelay, Length} : c \in Nat
  /\ \A r \in Entry : NextBackoff(r) \in 0 .. MaxBackoff
  /\ 0 \in Int /\ 0 \in 0 .. MaxBackoff /\ 0 \in 0 .. MountRetries
<1>1. MinBackoff \in Nat /\ MaxBackoff \in Nat /\ MinBackoff <= MaxBackoff /\ MountRetries \in Nat
  BY RecordTimerAssumption
<1>2. ASSUME NEW r \in Entry PROVE NextBackoff(r) \in 0 .. MaxBackoff
  <2>1. r.backoff \in 0 .. MaxBackoff
    BY DEF Entry
  <2> QED BY <1>1, <2>1 DEF NextBackoff
<1>3. RetryDelay \in Nat /\ Length \in Nat
  BY RecordTimerAssumption
<1> QED BY <1>1, <1>2, <1>3

LEMMA GivenUpType ==
  ASSUME NEW r \in Entry, now \in Int
  PROVE  /\ GivenUp(r) \in Entry
         /\ GivenUp(r).state = r.state /\ GivenUp(r).recorder = r.recorder
         /\ GivenUp(r).disabled = r.disabled /\ GivenUp(r).failed
         /\ GivenUp(r).repeats = r.repeats
<1>1. now + RetryDelay \in Int /\ r.end \in Int /\ 0 \in 0 .. MaxBackoff
  BY Numbers DEF Entry
<1>2. ASSUME NEW a \in Int, NEW b \in Int, NEW c \in 0 .. MaxBackoff, NEW f \in BOOLEAN
      PROVE  [r EXCEPT !.failed = f, !.lastend = a, !.end = b, !.backoff = c] \in Entry
  BY DEF Entry
<1>3. GivenUp(r) \in Entry
  BY <1>1, <1>2, Zenon DEF GivenUp
<1>4. GivenUp(r).state = r.state /\ GivenUp(r).recorder = r.recorder
  BY DEF GivenUp, Entry
<1>5. GivenUp(r).disabled = r.disabled /\ GivenUp(r).repeats = r.repeats
  BY DEF GivenUp, Entry
<1>6. GivenUp(r).failed
  BY DEF GivenUp, Entry
<1> QED
  BY <1>3, <1>4, <1>5, <1>6

LEMMA FinishedType ==
  ASSUME NEW r \in Entry
  PROVE  /\ Finished(r) \in Entry
         /\ Finished(r).state = Ended /\ Finished(r).recorder = "none"
         /\ Finished(r).disabled = r.disabled /\ Finished(r).repeats = r.repeats
<1>1. ASSUME NEW i \in Int, NEW s \in Waiting .. Ended, NEW o \in {"none", "ready", "recording"}
      PROVE  [r EXCEPT !.state = s, !.recorder = o, !.end = i] \in Entry
  BY DEF Entry
<1>2. (IF r.lastend # 0 /\ r.failed THEN r.lastend ELSE r.end) \in Int
  BY DEF Entry
<1>3. Finished(r) \in Entry
  BY <1>1, <1>2, EachState, Zenon DEF Finished
<1> QED
  BY <1>3 DEF Finished, Entry

(* doActivate() keeps the recorders owned, whatever activate() returns.    *)
LEMMA ActivateStep ==
  ASSUME TimerInv, NEW w \in Timers, Chosen(w)
  PROVE  Handled(w)
<1> DEFINE o == entry[w]
<1>1. /\ o \in Entry /\ Sound(w, o, live[w])
      /\ now \in Int /\ live \in [Timers -> Int] /\ live[w] \in Nat
  BY OneEntry
<1>2. Contains(list, w) /\ loop = "processing"
  <2>1. loop = "processing" /\ list # <<>> /\ w = Head(list)
    BY DEF Chosen, DoActivate, Skip, DiskNotReady, DiskFull, Prepare, PrepareFails, PrepareRefused,
           PassStart, ZapRefused, StartRecording, StartFails, End, Starts, Activated, Activates, FirstIsDue
  <2> QED BY <2>1, TailDrops DEF TimerInv, Lists
<1> HIDE DEF o
<1>3. ASSUME NEW r \in Entry, Settle(w, r), UNCHANGED live, Sound(w, r, live[w])
      PROVE  Handled(w)
  <2>1. Made(w, r)
    BY <1>3, UntouchedMakes
  <2> QED BY <1>2, <1>3, <2>1, SettledIsHandled
<1>4. ASSUME NEW r \in Entry, Settle(w, r), Made(w, r)
      PROVE  Handled(w)
  BY <1>2, <1>4, SettledIsHandled
<1>5. CASE Skip(w, o)
  <2> DEFINE k == SkipChecked(o)
             r == [k EXCEPT !.state = Ended]
  <2>1. k \in Entry /\ Carries(o, k) /\ k.state = o.state
    BY <1>1, SkipCarries
  <2> HIDE DEF k
  <2>2. /\ r \in Entry /\ r.state = Ended /\ r.recorder = k.recorder /\ r.disabled = k.disabled
        /\ r.repeats = k.repeats
    BY <2>1, StateType, EachState
  <2>3. Settle(w, r) /\ UNCHANGED live /\ ShouldSkip(o)
    BY <1>5 DEF Skip, recVars, o, k
  <2> HIDE DEF r
  <2>4. Startable(w, r)
    BY <2>2 DEF Startable, Prepared, Ended
  <2>5. Enabled => Owning(r, live[w])
    BY <1>1, <2>1, <2>2, <2>3 DEF Sound, Owning, Carries, ShouldSkip, Waiting, Prepared, Running
  <2>6. Holding(r, live[w])
    BY <1>1, <2>1, <2>2 DEF Sound, Holding, Carries
  <2>7. Lasting(w, r)
    BY <1>1, <2>1, <2>2, <2>3 DEF Sound, Lasting, Carries, ShouldSkip, Waiting, Running, Ended
  <2> QED BY <1>3, <2>2, <2>3, <2>4, <2>5, <2>6, <2>7 DEF Sound
<1>6. CASE DiskNotReady(w, o)
  <2> DEFINE r == [o EXCEPT !.retries = @ + 1, !.prep = now + RetryDelay]
  <2>0. o.retries < MountRetries
    BY <1>6 DEF DiskNotReady, o
  <2>1. o.retries + 1 \in 0 .. MountRetries /\ now + RetryDelay \in Int
    BY <1>1, <2>0, Numbers, RecordTimerAssumption DEF Entry
  <2>2. ASSUME NEW a \in 0 .. MountRetries, NEW b \in Int
        PROVE  [o EXCEPT !.retries = a, !.prep = b] \in Entry
    BY <1>1 DEF Entry
  <2>3. r \in Entry
    BY <2>1, <2>2, Zenon
  <2>4. Carries(o, r)
    BY <1>1 DEF Carries, Entry
  <2>5. Settle(w, r) /\ UNCHANGED live
    BY <1>6 DEF DiskNotReady, recVars, o
  <2> HIDE DEF r
  <2> QED BY <1>1, <1>3, <2>3, <2>4, <2>5, CarriedIsSound
<1>7. CASE DiskFull(w, o)
  <2> DEFINE g == GivenUp(o)
             r == [g EXCEPT !.state = Prepared]
  <2>1. /\ g \in Entry /\ g.recorder = o.recorder /\ g.disabled = o.disabled /\ g.failed
        /\ g.repeats = o.repeats
    BY <1>1, GivenUpType
  <2> HIDE DEF g
  <2>2. /\ r \in Entry /\ r.state = Prepared /\ r.recorder = o.recorder
        /\ r.disabled = o.disabled /\ r.failed /\ r.repeats = o.repeats
    BY <2>1, StateType, EachState
  <2>4. Settle(w, r) /\ UNCHANGED live /\ o.state = Waiting
    BY <1>7 DEF DiskFull, Activated, recVars, o, g
  <2> HIDE DEF r
  <2>5. Sound(w, r, live[w])
    BY <1>1, <2>2, <2>4 DEF Sound, Startable, Holding, Owning, Lasting, Waiting, Prepared, Running
  <2> QED BY <1>3, <2>2, <2>4, <2>5
<1>8. CASE Prepare(w, o)
  <2> DEFINE p == [o EXCEPT !.state = Prepared, !.backoff = 0]
             r == [p EXCEPT !.retries = 0, !.recorder = "ready"]
  <2>1. ASSUME NEW s \in Waiting .. Ended, NEW i \in 0 .. MaxBackoff
        PROVE  [o EXCEPT !.state = s, !.backoff = i] \in Entry
    BY <1>1 DEF Entry
  <2>2. p \in Entry
    BY <2>1, EachState, Numbers, Zenon
  <2>3. /\ p.state = Prepared /\ p.recorder = o.recorder /\ p.disabled = o.disabled
        /\ p.repeats = o.repeats
    BY <1>1 DEF Entry
  <2>4. o.state = Waiting
    BY <1>8 DEF Prepare, Activated, o
  <2>5. CASE w \in JustPlay
    <3>1. Settle(w, p) /\ UNCHANGED live
      BY <1>8, <2>5 DEF Prepare, o, p
    <3> HIDE DEF p
    <3>2. Sound(w, p, live[w])
      BY <1>1, <2>3, <2>4, <2>5
         DEF Sound, Startable, Holding, Owning, Lasting, Waiting, Prepared, Running
    <3> QED BY <1>3, <2>2, <3>1, <3>2
  <2>6. CASE w \notin JustPlay
    <3>1. Settle(w, r) /\ live' = [live EXCEPT ![w] = @ + 1]
      BY <1>8, <2>6 DEF Prepare, o, p
    <3> HIDE DEF p
    <3>2. ASSUME NEW i \in 0 .. MountRetries, NEW k \in {"none", "ready", "recording"}
          PROVE  [p EXCEPT !.retries = i, !.recorder = k] \in Entry
      BY <2>2 DEF Entry
    <3>3. r \in Entry
      BY <3>2, Numbers, Zenon
    <3>4. /\ r.state = Prepared /\ r.recorder = "ready" /\ r.disabled = p.disabled
          /\ r.repeats = o.repeats
      BY <2>2, <2>3 DEF Entry
    <3>5. live' \in [Timers -> Int] /\ live'[w] = live[w] + 1
          /\ \A x \in Timers \ {w} : live'[x] = live[x]
      BY <1>1, <3>1
    <3> HIDE DEF r
    <3>6. Sound(w, r, live'[w])
      <4>1. Startable(w, r)
        BY <3>4 DEF Startable
      <4>2. Enabled => Owning(r, live'[w])
        BY <1>1, <2>3, <2>4, <3>4, <3>5 DEF Sound, Owning, Waiting, Prepared, Running
      <4>3. Holding(r, live'[w])
        BY <1>1, <3>5 DEF Holding
      <4>4. Lasting(w, r)
        BY <1>1, <3>4 DEF Sound, Lasting, Prepared, Running
      <4> QED BY <4>1, <4>2, <4>3, <4>4 DEF Sound
    <3>7. Made(w, r)
      BY <3>3, <3>5, <3>6 DEF Made
    <3> QED BY <1>4, <3>1, <3>3, <3>7
  <2> QED BY <2>5, <2>6
<1>9. CASE PrepareFails(w, o)
  <2> DEFINE r == [o EXCEPT !.retries = 0, !.recorder = "none",
                     !.backoff = NextBackoff(o), !.prep = now + NextBackoff(o)]
  <2>1. NextBackoff(o) \in 0 .. MaxBackoff /\ now + NextBackoff(o) \in Int
    BY <1>1, Numbers
  <2>2. ASSUME NEW i \in 0 .. MountRetries, NEW b \in 0 .. MaxBackoff, NEW c \in Int,
               NEW k \in {"none", "ready", "recording"}
        PROVE  [o EXCEPT !.retries = i, !.recorder = k, !.backoff = b, !.prep = c] \in Entry
    BY <1>1 DEF Entry
  <2>3. r \in Entry
    BY <2>1, <2>2, Numbers, Zenon
  <2>4. /\ r.state = o.state /\ r.recorder = "none" /\ r.disabled = o.disabled
        /\ r.repeats = o.repeats
    BY <1>1, <2>1 DEF Entry
  <2>5. Settle(w, r) /\ UNCHANGED live /\ o.state = Waiting
    BY <1>9 DEF PrepareFails, Activated, recVars, o
  <2> HIDE DEF r
  <2>6. Sound(w, r, live[w])
    BY <1>1, <2>4, <2>5 DEF Sound, Startable, Holding, Owning, Lasting, Waiting, Prepared, Running
  <2> QED BY <1>3, <2>3, <2>5, <2>6
<1>10. CASE PrepareRefused(w, o)
  <2> DEFINE r == [o EXCEPT !.retries = 0, !.recorder = "none"]
  <2>1. ASSUME NEW i \in 0 .. MountRetries, NEW k \in {"none", "ready", "recording"}
        PROVE  [o EXCEPT !.retries = i, !.recorder = k] \in Entry
    BY <1>1 DEF Entry
  <2>2. r \in Entry
    BY <2>1, Numbers, Zenon
  <2>3. /\ r.state = o.state /\ r.recorder = "none" /\ r.disabled = o.disabled
        /\ r.repeats = o.repeats
    BY <1>1 DEF Entry
  <2>4. Settle(w, r) /\ UNCHANGED live /\ o.state = Waiting
    BY <1>10 DEF PrepareRefused, Activated, recVars, o
  <2> HIDE DEF r
  <2>5. Sound(w, r, live[w])
    BY <1>1, <2>3, <2>4 DEF Sound, Startable, Holding, Owning, Lasting, Waiting, Prepared, Running
  <2> QED BY <1>3, <2>2, <2>4, <2>5
<1>11. CASE PassStart(w, o)
  <2> DEFINE r == [o EXCEPT !.state = Running]
  <2>1. /\ r \in Entry /\ r.state = Running /\ r.recorder = o.recorder
        /\ r.disabled = o.disabled /\ r.repeats = o.repeats
    BY <1>1, StateType, EachState
  <2>2. Settle(w, r) /\ UNCHANGED live /\ ~o.disabled
    BY <1>11 DEF PassStart, Activated, ShouldSkip, recVars, o
  <2> HIDE DEF r
  <2>3. Sound(w, r, live[w])
    BY <1>1, <2>1, <2>2 DEF Sound, Startable, Holding, Owning, Lasting, Prepared, Running
  <2> QED BY <1>3, <2>1, <2>2, <2>3
<1>15. CASE ZapRefused(w, o)
  <2>1. Settle(w, o) /\ UNCHANGED live
    BY <1>15 DEF ZapRefused, recVars
  <2> QED BY <1>1, <1>3, <2>1
<1>12. CASE StartRecording(w, o)
  <2> DEFINE r == [o EXCEPT !.state = Running, !.recorder = "recording"]
  <2>1. ASSUME NEW s \in Waiting .. Ended, NEW k \in {"none", "ready", "recording"}
        PROVE  [o EXCEPT !.state = s, !.recorder = k] \in Entry
    BY <1>1 DEF Entry
  <2>2. r \in Entry
    BY <2>1, EachState, Zenon
  <2>3. /\ r.state = Running /\ r.recorder = "recording" /\ r.disabled = o.disabled
        /\ r.repeats = o.repeats
    BY <1>1 DEF Entry
  <2>4. Settle(w, r) /\ UNCHANGED live /\ o.recorder = "ready" /\ ~o.disabled
    BY <1>1, <1>12 DEF StartRecording, Starts, Activated, ShouldSkip, Sound, Startable, o
  <2> HIDE DEF r
  <2>5. Sound(w, r, live[w])
    BY <1>1, <2>3, <2>4 DEF Sound, Startable, Holding, Owning, Lasting, Prepared, Running
  <2> QED BY <1>3, <2>2, <2>4, <2>5
<1>13. CASE StartFails(w, o)
  <2> DEFINE r == [o EXCEPT !.backoff = NextBackoff(o), !.begin = now + NextBackoff(o)]
  <2>1. NextBackoff(o) \in 0 .. MaxBackoff /\ now + NextBackoff(o) \in Int
    BY <1>1, Numbers
  <2>2. ASSUME NEW b \in 0 .. MaxBackoff, NEW c \in Int
        PROVE  [o EXCEPT !.backoff = b, !.begin = c] \in Entry
    BY <1>1 DEF Entry
  <2>3. r \in Entry
    BY <2>1, <2>2, Zenon
  <2>4. Carries(o, r)
    BY <1>1, <2>1 DEF Carries, Entry
  <2>5. Settle(w, r) /\ UNCHANGED live
    BY <1>13 DEF StartFails, o
  <2> HIDE DEF r
  <2> QED BY <1>1, <1>3, <2>3, <2>4, <2>5, CarriedIsSound
<1>14. CASE End(w, o)
  <2>1. Settle(w, Finished(o)) /\ Released(w)
    BY <1>14 DEF End, o
  <2>2. /\ Finished(o) \in Entry /\ Finished(o).state = Ended
        /\ Finished(o).recorder = "none" /\ Finished(o).disabled = o.disabled
        /\ Finished(o).repeats = o.repeats
    BY <1>1, FinishedType
  <2>3. /\ live' \in [Timers -> Int]
        /\ live'[w] = IF o.recorder = "none" THEN live[w] ELSE live[w] - 1
        /\ \A x \in Timers \ {w} : live'[x] = live[x]
        /\ live'[w] \in Nat
    BY <2>1, ReleasedMakes DEF o
  <2>4. Sound(w, Finished(o), live'[w])
    BY <1>1, <2>2, <2>3 DEF Sound, Startable, Holding, Owning, Lasting, Prepared, Running, Ended
  <2>5. Made(w, Finished(o))
    BY <2>2, <2>3, <2>4 DEF Made
  <2> QED BY <1>4, <2>1, <2>2, <2>5
<1> QED
  BY <1>5, <1>6, <1>7, <1>8, <1>9, <1>10, <1>11, <1>12, <1>13, <1>14, <1>15
     DEF Chosen, DoActivate, o

-----------------------------------------------------------------------------
(* The other handlers *)

(* Two of them change an entry where it is: what is aborted when it has    *)
(* ended, and what a write error has stopped.                              *)
InPlace(e) ==
  /\ \E r : Made(e, r) /\ r.state = entry[e].state /\ entry' = [entry EXCEPT ![e] = r]
  /\ UNCHANGED <<list, processed, loop>>
  /\ Contains(list, e) \/ entry[e].state = Ended

LEMMA NewType ==
  ASSUME NEW e \in Timers
  PROVE  /\ NewEntry(e) \in Entry
         /\ NewEntry(e).state = Waiting /\ NewEntry(e).recorder = "none"
         /\ ~NewEntry(e).disabled /\ (NewEntry(e).repeats <=> e \in Repeated)
<1>1. 0 \in 0 .. MaxBackoff /\ 0 \in 0 .. MountRetries
  BY Numbers
<1>2. NewEntry(e).repeats <=> e \in Repeated
  BY Zenon DEF NewEntry
<1>3. NewEntry(e).state = Waiting /\ NewEntry(e).recorder = "none" /\ ~NewEntry(e).disabled
  BY DEF NewEntry
<1>4. (e \in Repeated) \in BOOLEAN
  OBVIOUS
<1>5. NewEntry(e) \in Entry
  BY <1>1, <1>4 DEF NewEntry, Entry, Waiting, Ended
<1> QED BY <1>2, <1>3, <1>5

LEMMA NewCarries ==
  ASSUME NEW e \in Timers, NEW i \in Int, NEW j \in Int
  PROVE  LET r == TimesSet([NewEntry(e) EXCEPT !.begin = i, !.end = j])
         IN  r \in Entry /\ Carries(NewEntry(e), r)
<1> DEFINE m == [NewEntry(e) EXCEPT !.begin = i, !.end = j]
<1>1. m \in Entry /\ Carries(NewEntry(e), m)
  BY NewType, MovedType DEF Carries, Entry
<1> HIDE DEF m
<1>2. TimesSet(m) \in Entry /\ Carries(m, TimesSet(m))
  BY <1>1, TimesSetCarries
<1>3. Carries(NewEntry(e), TimesSet(m))
  BY NewType, <1>1, <1>2 DEF Carries
<1> QED
  BY <1>2, <1>3 DEF m

(* record() of a new entry r, that of the user or of a file. *)
LEMMA AddedIsHandled ==
  ASSUME TimerInv, NEW e \in Timers, NEW r, ~Known(e), Made(e, r),
         AddTimerEntry(e, r, list, processed, TRUE)
  PROVE  Handled(e) /\ entry'[e].recorder = r.recorder
<1>1. Within(list, list)
  BY DEF Within
<1>2. Taken(e, list, processed)
  BY <1>1 DEF TimerInv, Lists, Taken, Known
<1>3. PICK b \in BOOLEAN : b /\ AddTimerEntry(e, r, list, processed, b)
  OBVIOUS
<1>4. r \in Entry /\ Typed /\ list \in Seq(Timers)
  BY DEF TimerInv, Lists, Made
<1>5. Moved(e, r) /\ Relisted(e) /\ Queued(e)
  BY <1>2, <1>3, <1>4, AddMoves
<1> QED BY <1>5 DEF Handled, Moved, Carries

LEMMA RecordStep ==
  ASSUME TimerInv, NEW e \in Timers, NEW b \in Begins, Record(e, b)
  PROVE  Handled(e) /\ entry'[e].recorder = "none"
<1> DEFINE r == TimesSet([NewEntry(e) EXCEPT !.begin = b, !.end = b + Length])
<1>1. b \in Int /\ b + Length \in Int
  BY RecordTimerAssumption
<1>2. r \in Entry /\ NewEntry(e) \in Entry /\ Carries(NewEntry(e), r)
  BY <1>1, NewType, NewCarries
<1>3. entry[e] = NewEntry(e) /\ AddTimerEntry(e, r, list, processed, TRUE)
      /\ UNCHANGED <<clockVars, live>> /\ ~Known(e)
  BY DEF Record, Undisturbed, recVars
<1> HIDE DEF r
<1>4. Sound(e, r, live[e])
  BY <1>2, <1>3, OneEntry, CarriedIsSound
<1>5. Made(e, r)
  BY <1>2, <1>3, <1>4, UntouchedMakes
<1>6. r.recorder = "none"
  BY <1>2, NewType DEF Carries
<1> QED
  BY <1>3, <1>5, <1>6, AddedIsHandled

LEMMA EditStep ==
  ASSUME TimerInv, NEW e \in Timers, NEW b \in Begins, Edit(e, b)
  PROVE  Handled(e)
<1> DEFINE o == entry[e]
           r == IF o.state = Running THEN [o EXCEPT !.end = b + Length]
                ELSE [o EXCEPT !.begin = b, !.end = b + Length]
<1>1. o \in Entry /\ Sound(e, o, live[e])
  BY OneEntry
<1>2. b \in Int /\ b + Length \in Int
  BY RecordTimerAssumption
<1>3. TimeChanged(e, r) /\ UNCHANGED live /\ Known(e)
  BY DEF Edit, Undisturbed, recVars
<1> HIDE DEF o
<1>4. r \in Entry /\ Carries(o, r) /\ r.state = o.state
  <2>1. ASSUME NEW c \in Int
        PROVE  /\ [o EXCEPT !.end = c] \in Entry /\ Carries(o, [o EXCEPT !.end = c])
               /\ [o EXCEPT !.end = c].state = o.state
    BY <1>1 DEF Entry, Carries
  <2>2. ASSUME NEW c \in Int
        PROVE  /\ [o EXCEPT !.begin = b, !.end = c] \in Entry
               /\ Carries(o, [o EXCEPT !.begin = b, !.end = c])
               /\ [o EXCEPT !.begin = b, !.end = c].state = o.state
    BY <1>1, <1>2, MovedType DEF Entry, Carries
  <2> QED BY <1>2, <2>1, <2>2, Zenon
<1> HIDE DEF r
<1>5. Made(e, r)
  BY <1>1, <1>3, <1>4, CarriedIsSound, UntouchedMakes
<1> QED
  BY <1>3, <1>4, <1>5, ChangedIsHandled DEF o

LEMMA DisableStep ==
  ASSUME TimerInv, NEW e \in Timers, Disable(e) \/ Enable(e)
  PROVE  Handled(e)
<1> DEFINE o == entry[e]
           r(d) == [o EXCEPT !.disabled = d]
<1>1. o \in Entry /\ Sound(e, o, live[e])
  BY OneEntry
<1>2. PICK d \in BOOLEAN : TimeChanged(e, r(d)) /\ (Enabled => ~d)
                            /\ (o.state = Running /\ d => o.repeats)
  BY DEF Disable, Enable, Enabled
<1>3. UNCHANGED live /\ Known(e)
  BY DEF Disable, Enable, Undisturbed, recVars
<1> HIDE DEF o
<1>4. r(d) \in Entry
  BY <1>1 DEF Entry
<1>5. /\ r(d).state = o.state /\ r(d).recorder = o.recorder
      /\ r(d).failed = o.failed /\ r(d).cancelled = o.cancelled
  BY <1>1 DEF Entry
<1>6. r(d).disabled = d /\ r(d).repeats = o.repeats
  BY <1>1 DEF Entry
<1> HIDE DEF r
<1>7. Sound(e, r(d), live[e])
  BY <1>1, <1>2, <1>5, <1>6 DEF Sound, Startable, Holding, Owning, Lasting
<1>8. Made(e, r(d))
  BY <1>3, <1>4, <1>7, UntouchedMakes
<1> QED
  BY <1>2, <1>3, <1>5, <1>8, ChangedIsHandled DEF o

(* An aborted entry is not started any more: it may be in any state.       *)
LEMMA AbortStep ==
  ASSUME TimerInv, NEW e \in Timers, AbortEntry(e), Known(e) \/ entry[e].recorder # "none"
  PROVE  Handled(e) \/ (InPlace(e) /\ ~Contains(list, e))
<1> DEFINE o == entry[e]
           begin == IF o.begin > now THEN now ELSE o.begin
           r == [o EXCEPT !.repeats = FALSE, !.cancelled = TRUE, !.end = now, !.begin = begin]
<1>1. o \in Entry /\ Sound(e, o, live[e]) /\ now \in Int
  BY OneEntry
<1>2. begin \in Int
  BY <1>1 DEF Entry
<1>3. /\ IF r.state = Ended
          THEN entry' = [entry EXCEPT ![e] = r] /\ UNCHANGED <<list, processed, loop>>
          ELSE TimeChanged(e, r)
      /\ UNCHANGED live
  BY DEF AbortEntry, recVars
<1> HIDE DEF o, begin
<1>4. ASSUME NEW f \in BOOLEAN, NEW g \in BOOLEAN, NEW i \in Int, NEW j \in Int
      PROVE  [o EXCEPT !.repeats = f, !.cancelled = g, !.end = i, !.begin = j] \in Entry
  BY <1>1 DEF Entry
<1>5. r \in Entry
  BY <1>1, <1>2, <1>4, Zenon
<1>6. r.state = o.state /\ r.recorder = o.recorder /\ r.disabled = o.disabled
  BY <1>1 DEF Entry
<1>7. r.cancelled /\ ~r.repeats
  BY <1>1 DEF Entry
<1> HIDE DEF r
<1>8. Sound(e, r, live[e])
  BY <1>1, <1>6, <1>7 DEF Sound, Startable, Holding, Owning, Lasting
<1>9. Made(e, r)
  BY <1>3, <1>5, <1>8, UntouchedMakes
<1>10. CASE r.state = Ended
  <2>1. ~Contains(list, e)
    BY <1>6, <1>10, OneEntry DEF Placed, o
  <2> QED BY <1>3, <1>6, <1>9, <1>10, <2>1 DEF InPlace, o
<1>11. CASE r.state # Ended
  <2>1. r.state = entry[e].state
    BY <1>6 DEF o
  <2>2. Known(e)
    BY <1>11, <2>1, KnownOrNot DEF Known
  <2>3. TimeChanged(e, r)
    BY <1>3, <1>11
  <2>4. PICK q : Made(e, q) /\ TimeChanged(e, q) /\ q.state = entry[e].state
    BY <1>9, <2>1, <2>3
  <2> QED BY <2>2, <2>4, ChangedIsHandled
<1> QED
  BY <1>10, <1>11

(* With the clock set back, a processed entry is woken up as it is: it may *)
(* own a recorder then, but it is not prepared.                            *)
LEMMA ReevaluateStep ==
  ASSUME TimerInv, Reevaluate
  PROVE  Head(warping) \in Timers /\ Handled(Head(warping))
<1> DEFINE e == Head(warping)
           o == entry[e]
           w == [o EXCEPT !.state = Waiting, !.cancelled = FALSE]
           r == TimesSet(w)
<1>0. warping \in Seq(Timers) /\ Distinct(warping) /\ warping # <<>>
  BY DEF TimerInv, Lists, Reevaluate
<1>1. e \in Timers /\ Contains(warping, e)
  BY <1>0, TailDrops
<1>2. o \in Entry /\ Sound(e, o, live[e]) /\ Placed(e)
  BY <1>1, OneEntry
<1>3. AddTimerEntry(e, r, list, processed, FALSE) /\ UNCHANGED live /\ loop = "warp"
  BY DEF Reevaluate, recVars
<1>4. ~Contains(list, e) /\ ~Contains(processed, e) /\ o.state = Ended
  BY <1>1, <1>2 DEF Placed
<1> HIDE DEF e, o
<1>5. ASSUME NEW s \in Waiting .. Ended, NEW c \in BOOLEAN
      PROVE  [o EXCEPT !.state = s, !.cancelled = c] \in Entry
  BY <1>2 DEF Entry
<1>6. w \in Entry
  BY <1>5, EachState, Zenon
<1>7. /\ w.state = Waiting /\ w.recorder = o.recorder /\ w.disabled = o.disabled
      /\ w.repeats = o.repeats
  BY <1>2 DEF Entry
<1> HIDE DEF w
<1>8. /\ r \in Entry /\ r.state = Waiting /\ r.recorder = o.recorder
      /\ (r.disabled => o.disabled) /\ r.repeats = o.repeats
  BY <1>6, <1>7, TimesSetCarries DEF Carries
<1> HIDE DEF r
<1>9. Sound(e, r, live[e])
  BY <1>2, <1>4, <1>8
     DEF Sound, Startable, Holding, Owning, Lasting, Waiting, Prepared, Running, Ended, Entry
<1>10. Made(e, r)
  BY <1>1, <1>3, <1>8, <1>9, UntouchedMakes
<1>11. Within(list, list)
  BY DEF Within
<1>12. Taken(e, list, processed)
  BY <1>4, <1>11 DEF TimerInv, Lists, Taken
<1>13. PICK b \in BOOLEAN : AddTimerEntry(e, r, list, processed, b)
  BY <1>3
<1>14. Typed /\ list \in Seq(Timers)
  BY DEF TimerInv, Lists
<1>15. Moved(e, r) /\ Relisted(e) /\ Queued(e)
  BY <1>1, <1>3, <1>8, <1>12, <1>13, <1>14, AddMoves
<1> QED
  BY <1>1, <1>10, <1>15 DEF Handled, e

LEMMA WriteErrorStep ==
  ASSUME TimerInv, NEW e \in Timers, WriteError(e)
  PROVE  InPlace(e)
<1> DEFINE o == entry[e]
           g == GivenUp(o)
           r == [g EXCEPT !.recorder = "none"]
<1>1. /\ o \in Entry /\ Sound(e, o, live[e]) /\ now \in Int
      /\ live \in [Timers -> Int]
  BY OneEntry
<1>2. /\ entry' = [entry EXCEPT ![e] = r] /\ Released(e) /\ o.recorder = "recording"
      /\ UNCHANGED <<list, processed, loop>>
  BY DEF WriteError
<1>3. g \in Entry /\ g.state = o.state /\ g.disabled = o.disabled /\ g.failed /\ g.repeats = o.repeats
  BY <1>1, GivenUpType
<1>4. /\ live' \in [Timers -> Int] /\ live'[e] = live[e] - 1 /\ live'[e] \in Nat
      /\ \A x \in Timers \ {e} : live'[x] = live[x]
  BY <1>1, <1>2, ReleasedMakes
<1>5. Contains(list, e) \/ o.state = Ended
  BY <1>2, KnownOrNot
<1> HIDE DEF o, g
<1>6. r \in Entry
  BY <1>3 DEF Entry
<1>7. r.state = o.state /\ r.recorder = "none"
  BY <1>3 DEF Entry
<1>8. r.disabled = o.disabled /\ r.failed /\ r.repeats = o.repeats
  BY <1>3 DEF Entry
<1> HIDE DEF r
<1>9. Sound(e, r, live'[e])
  BY <1>1, <1>2, <1>4, <1>7, <1>8 DEF Sound, Startable, Holding, Owning, Lasting
<1>10. Made(e, r)
  BY <1>4, <1>6, <1>9 DEF Made
<1> QED
  BY <1>2, <1>5, <1>7, <1>10 DEF InPlace, o

(* A stream that ends is one that runs, and is not skipped: whatever state  *)
(* doActivate() would find, it finds this one.                             *)
StreamOf(e) == [ProcessRepeated(entry[e], FALSE) EXCEPT !.recorder = "over"]

LEMMA StreamRuns ==
  ASSUME TimerInv, NEW e \in Timers, GstRecordEnded(e)
  PROVE  /\ entry[e].recorder = "recording" /\ entry[e].state = Running
         /\ ~entry[e].disabled /\ Contains(list, e)
         /\ StreamOf(e) \in Entry /\ StreamOf(e).recorder = "over"
         /\ StreamOf(e).state = Running /\ ~StreamOf(e).disabled
         /\ StreamOf(e).repeats = entry[e].repeats
         /\ End(e, StreamOf(e)) /\ ~ShouldSkip(StreamOf(e))
         /\ loop = "idle" /\ removing = NoTimer
<1> DEFINE o == entry[e]
           p == ProcessRepeated(o, FALSE)
           q == [p EXCEPT !.recorder = "over"]
<1>1. o \in Entry /\ Lasting(e, o) /\ now \in Int /\ Steady
  BY OneEntry DEF Sound, TimerInv
<1>2. /\ loop = "idle" /\ removing = NoTimer /\ e \in Streams /\ o.recorder = "recording"
      /\ DoActivate(e, q)
  BY DEF GstRecordEnded, Idle
<1>3. o.state = Running /\ ~o.disabled
  BY <1>1, <1>2 DEF Lasting, Steady
<1>4. p \in Entry /\ Carries(o, p) /\ p.state = o.state
  BY <1>1, RepeatedCarries
<1>5. Contains(list, e)
  BY <1>2, <1>3, KnownOrNot DEF Running, Ended
<1> HIDE DEF o, p
<1>6. /\ q \in Entry /\ q.recorder = "over" /\ q.state = Running /\ ~q.disabled
      /\ q.repeats = o.repeats
  BY <1>3, <1>4 DEF Entry, Carries
<1>7. StreamOf(e) = q
  BY DEF StreamOf, o, p
<1> HIDE DEF q
<1>8. ~ShouldSkip(q)
  BY <1>6 DEF ShouldSkip, Waiting, Running
<1>9. End(e, q)
  BY <1>2, <1>6, <1>8
     DEF DoActivate, Skip, DiskNotReady, DiskFull, Prepare, PrepareFails, PrepareRefused,
         PassStart, ZapRefused, StartRecording, StartFails, Starts, Activated, Waiting, Prepared, Running
<1> QED
  BY <1>2, <1>3, <1>5, <1>6, <1>7, <1>8, <1>9 DEF o

LEMMA StreamKeeps ==
  ASSUME NEW e \in Timers, GstRecordEnded(e)
  PROVE  loop = "idle" /\ removing = NoTimer /\ Quiet
BY DEF GstRecordEnded, Idle, DoActivate, Skip, DiskNotReady, DiskFull, Prepare, PrepareFails,
       PrepareRefused, PassStart, ZapRefused, StartRecording, StartFails, End

LEMMA GstRecordEndedStep ==
  ASSUME TimerInv, NEW e \in Timers, GstRecordEnded(e)
  PROVE  Handled(e)
<1> DEFINE o == entry[e]
           p == StreamOf(e)
<1>1. /\ o \in Entry /\ Sound(e, o, live[e]) /\ now \in Int
      /\ live \in [Timers -> Int]
  BY OneEntry
<1>2. /\ Settle(e, Finished(p)) /\ Released(e)
      /\ o.recorder = "recording" /\ o.state = Running /\ ~o.disabled
  BY StreamRuns DEF End
<1>3. p \in Entry /\ ~p.disabled /\ p.repeats = o.repeats /\ Contains(list, e)
  BY StreamRuns
<1>4. /\ live' \in [Timers -> Int] /\ live'[e] = live[e] - 1 /\ live'[e] \in Nat
      /\ \A x \in Timers \ {e} : live'[x] = live[x]
  BY <1>1, <1>2, ReleasedMakes
<1> HIDE DEF o, p
<1>6. /\ Finished(p) \in Entry /\ Finished(p).state = Ended
      /\ Finished(p).recorder = "none" /\ Finished(p).disabled = p.disabled
      /\ Finished(p).repeats = p.repeats
  BY <1>3, FinishedType
<1>7. Sound(e, Finished(p), live'[e])
  BY <1>1, <1>2, <1>3, <1>4, <1>6
     DEF Sound, Startable, Holding, Owning, Lasting, Prepared, Running, Ended
<1>8. Made(e, Finished(p))
  BY <1>4, <1>6, <1>7 DEF Made
<1> QED
  BY <1>2, <1>3, <1>6, <1>8, SettledIsHandled

-----------------------------------------------------------------------------
(* The specification *)

(* The program has started; from Init, or once more. *)
Fresh ==
  /\ now \in 0 .. MaxTime /\ last \in 0 .. MaxTime /\ alarm = MaxWaitTime /\ loop = "idle"
  /\ list = <<>> /\ processed = <<>> /\ warping = <<>>
  /\ entry = [e \in Timers |-> NewEntry(e)]
  /\ live = [e \in Timers |-> 0] /\ recordings = 0 /\ removing = NoTimer
  /\ edits \in 0 .. MaxEdits /\ clockSets \in 0 .. MaxClockSets

LEMMA FreshInv == Steady /\ Fresh => TimerInv
<1> SUFFICES ASSUME Steady, Fresh PROVE TimerInv
  OBVIOUS
<1>1. ASSUME NEW e \in Timers
      PROVE  /\ NewEntry(e) \in Entry
             /\ NewEntry(e).state = Waiting /\ NewEntry(e).recorder = "none"
             /\ ~NewEntry(e).disabled /\ (NewEntry(e).repeats <=> e \in Repeated)
  BY NewType
<1>2. Typed
  BY <1>1 DEF Fresh, Typed
<1>3. Bounded
  BY RecordTimerAssumption DEF Fresh, Bounded
<1>4. Lists
  BY DEF Fresh, Lists, Distinct
<1>5. ASSUME NEW e \in Timers PROVE Placed(e) /\ Sound(e, entry[e], live[e])
  <2>1. entry[e] = NewEntry(e) /\ live[e] = 0
    BY DEF Fresh
  <2>2. ~Contains(list, e) /\ ~Contains(processed, e) /\ ~Contains(warping, e)
    BY DEF Fresh, Contains
  <2>3. Placed(e)
    BY <2>1, <2>2 DEF Placed
  <2>4. Sound(e, entry[e], live[e])
    BY <1>1, <2>1 DEF Sound, Startable, Holding, Owning, Lasting, Waiting, Prepared
  <2> QED BY <2>3, <2>4
<1> QED
  BY <1>2, <1>3, <1>4, <1>5 DEF TimerInv

LEMMA TimerInit ==
  ASSUME Steady
  PROVE  Init => TimerInv
<1>1. Init => Fresh
  BY RecordTimerAssumption DEF Init, Fresh
<1> QED BY <1>1, FreshInv

(* Only e has moved. *)
LEMMA HandledKeeps ==
  ASSUME TimerInv, NEW e \in Timers, Handled(e), now' = now, Bounded',
         warping' \in Seq(Timers), Distinct(warping'), ~Contains(warping', e),
         \A x \in Timers : Contains(warping', x) => Contains(warping, x),
         warping' # <<>> => loop' = "warp"
  PROVE  TimerInv'
<1>1. PICK r : Made(e, r) /\ Moved(e, r)
  BY DEF Handled
<1>2. Relisted(e)
  BY DEF Handled
<1>3. Typed'
  BY <1>1 DEF TimerInv, Typed, Made, Moved
<1>4. Lists'
  BY <1>2 DEF Lists, Relisted
<1>5. ASSUME NEW x \in Timers PROVE Placed(x)'
  <2>1. CASE x = e
    BY <1>2, <2>1 DEF Placed, Relisted
  <2>2. CASE x # e
    <3>1. Placed(x)
      BY OneEntry
    <3>2. /\ Contains(list', x) <=> Contains(list, x)
          /\ Contains(processed', x) => Contains(processed, x)
          /\ Contains(warping', x) => Contains(warping, x)
          /\ \/ entry'[x] = entry[x]
             \/ Contains(processed, x) /\ entry'[x].state = entry[x].state
      BY <1>2, <2>2 DEF Relisted
    <3>3. NewEntry(x)' = NewEntry(x)
      BY DEF NewEntry
    <3> QED BY <3>1, <3>2, <3>3 DEF Placed
  <2> QED BY <2>1, <2>2
<1>6. ASSUME NEW x \in Timers PROVE Sound(x, entry'[x], live'[x])
  <2>1. entry[x] \in Entry /\ entry'[x] \in Entry /\ r \in Entry
    BY <1>1, OneEntry DEF Moved, Made
  <2>2. CASE x = e
    BY <1>1, <2>1, <2>2, CarriedIsSound DEF Moved, Made
  <2>3. CASE x # e
    <3>1. Carries(entry[x], entry'[x]) /\ Sound(x, entry[x], live'[x])
      BY <1>1, <2>3, OneEntry DEF Moved, Made
    <3> QED BY <2>1, <3>1, CarriedIsSound
  <2> QED BY <2>2, <2>3
<1>7. ASSUME NEW x \in Timers PROVE Sound(x, entry[x], live[x])'
  BY <1>6 DEF Sound, Startable, Holding, Owning, Lasting, Enabled
<1> QED
  BY <1>3, <1>4, <1>5, <1>7 DEF TimerInv, Steady, Enabled

LEMMA InPlaceKeeps ==
  ASSUME TimerInv, NEW e \in Timers, InPlace(e), UNCHANGED <<now, warping>>, Bounded'
  PROVE  TimerInv'
<1>1. PICK r : Made(e, r) /\ r.state = entry[e].state /\ entry' = [entry EXCEPT ![e] = r]
  BY DEF InPlace
<1>2. UNCHANGED <<list, processed, loop, warping>> /\ (Contains(list, e) \/ entry[e].state = Ended)
  BY DEF InPlace
<1>3. Typed'
  BY <1>1 DEF TimerInv, Typed, Made
<1>4. entry'[e] = r /\ \A x \in Timers \ {e} : entry'[x] = entry[x]
  BY <1>1 DEF TimerInv, Typed
<1>5. Lists'
  BY <1>2 DEF TimerInv, Lists
<1>6. ASSUME NEW x \in Timers PROVE Placed(x)'
  <2>1. Placed(x) /\ NewEntry(x)' = NewEntry(x)
    BY OneEntry DEF NewEntry
  <2> QED BY <1>1, <1>2, <1>4, <2>1 DEF Placed
<1>7. ASSUME NEW x \in Timers PROVE Sound(x, entry'[x], live'[x])
  BY <1>1, <1>4, OneEntry DEF Made
<1>8. ASSUME NEW x \in Timers PROVE Sound(x, entry[x], live[x])'
  BY <1>7 DEF Sound, Startable, Holding, Owning, Lasting, Enabled
<1> QED
  BY <1>3, <1>5, <1>6, <1>8 DEF TimerInv, Steady, Enabled

(* No entry is changed; the processed ones may wait to be re-evaluated. *)
LEMMA QuietKeeps ==
  ASSUME TimerInv, UNCHANGED <<entry, live, list>>, now' \in Int, Bounded', Lists',
         \A x \in Timers :
            /\ Contains(processed', x) \/ Contains(warping', x) =>
                  Contains(processed, x) \/ Contains(warping, x)
            /\ ~(Contains(processed', x) /\ Contains(warping', x))
  PROVE  TimerInv'
<1>1. Typed'
  BY DEF TimerInv, Typed
<1>2. ASSUME NEW x \in Timers PROVE Placed(x)'
  <2>1. Placed(x) /\ NewEntry(x)' = NewEntry(x)
    BY OneEntry DEF NewEntry
  <2> QED BY <2>1 DEF Placed
<1>3. ASSUME NEW x \in Timers PROVE Sound(x, entry[x], live[x])'
  BY OneEntry DEF Sound, Startable, Holding, Owning, Lasting, Enabled
<1> QED
  BY <1>1, <1>2, <1>3 DEF TimerInv, Steady, Enabled

(* Nothing happens but in an idle loop, in which no entry is re-evaluated. *)
LEMMA IdleLists ==
  ASSUME TimerInv, loop # "warp"
  PROVE  warping = <<>> /\ \A x \in Timers : ~Contains(warping, x)
BY DEF TimerInv, Lists, Contains

LEMMA CountedType ==
  ASSUME NEW n \in Int, Counted(n)
  PROVE  recordings' \in Nat
BY DEF Counted

(* A handler that moves one entry, not in calcNextActivation()'s warp. *)
LEMMA MovingKeeps ==
  ASSUME TimerInv, NEW e \in Timers, Handled(e), loop # "warp", UNCHANGED <<clockVars, warping>>,
         recordings' \in Nat, removing' \in Timers \cup {NoTimer},
         edits' \in 0 .. MaxEdits, clockSets' = clockSets
  PROVE  TimerInv'
<1>1. loop' \in {loop, "calc"}
  BY DEF Handled, Queued
<1>2. Bounded'
  BY <1>1 DEF TimerInv, Bounded, clockVars
<1>3. warping' = <<>> /\ \A x \in Timers : ~Contains(warping', x)
  BY IdleLists
<1>4. warping' \in Seq(Timers) /\ Distinct(warping') /\ now' = now
  BY <1>3 DEF TimerInv, Lists, clockVars
<1> QED BY <1>2, <1>3, <1>4, HandledKeeps

LEMMA TimerStep == TimerInv /\ [Next]_vars => TimerInv'
<1> SUFFICES ASSUME TimerInv, [Next]_vars PROVE TimerInv'
  OBVIOUS
<1>0. /\ now \in 0 .. MaxTime /\ last \in 0 .. MaxTime /\ alarm \in 0 .. MaxWaitTime
      /\ loop \in {"idle", "calc", "warp", "processing"} /\ recordings \in Nat
      /\ removing \in Timers \cup {NoTimer} /\ edits \in 0 .. MaxEdits
      /\ clockSets \in 0 .. MaxClockSets
  BY DEF TimerInv, Bounded
<1>a. MaxTime \in Nat /\ MaxEdits \in Nat /\ MaxClockSets \in Nat /\ MaxWaitTime \in Nat \ {0}
  BY RecordTimerAssumption
<1>b. Lists
  BY DEF TimerInv
<1>1. CASE Calc
  <2>1. UNCHANGED <<entry, live, list, now>> /\ Bounded'
    BY <1>0, <1>1 DEF Calc, Bounded, clockVars, recVars, bounds
  <2>2. warping = <<>> /\ \A x \in Timers : ~Contains(warping, x)
    BY <1>1, IdleLists DEF Calc
  <2>3. CASE last > now
    <3>1. warping' = processed /\ processed' = <<>> /\ loop' = "warp"
      BY <1>1, <2>3 DEF Calc
    <3>2. Lists'
      BY <1>b, <2>1, <3>1 DEF Lists, Distinct
    <3>3. \A x \in Timers : ~Contains(processed', x)
      BY <3>1 DEF Contains
    <3> QED BY <1>0, <2>1, <3>1, <3>2, <3>3, QuietKeeps
  <2>4. CASE ~(last > now)
    <3>1. warping' = warping /\ processed' = processed
      BY <1>1, <2>4 DEF Calc
    <3>2. Lists'
      BY <1>b, <2>1, <2>2, <3>1 DEF Lists
    <3> QED BY <1>0, <2>1, <2>2, <3>1, <3>2, QuietKeeps
  <2> QED BY <2>3, <2>4
<1>2. CASE Reevaluate
  <2> DEFINE e == Head(warping)
  <2>1. e \in Timers /\ Handled(e)
    BY <1>2, ReevaluateStep
  <2>2. /\ warping' = Tail(warping) /\ warping # <<>> /\ loop = "warp"
        /\ UNCHANGED <<clockVars, recVars, removing, bounds>>
    BY <1>2 DEF Reevaluate
  <2>3. /\ warping' \in Seq(Timers) /\ Distinct(warping')
        /\ \A x : Contains(warping', x) <=> Contains(warping, x) /\ x # e
    BY <1>b, <2>2, TailDrops DEF Lists
  <2>4. loop' = "warp"
    BY <1>2, <2>2 DEF Reevaluate, AddTimerEntry
  <2>5. Bounded' /\ now' = now
    BY <1>0, <2>2, <2>4 DEF Bounded, clockVars, recVars, bounds
  <2> HIDE DEF e
  <2> QED BY <2>1, <2>3, <2>4, <2>5, HandledKeeps
<1>3. CASE Reevaluated \/ TimerFires
  <2>1. /\ UNCHANGED <<entry, live, list, processed, warping, now>> /\ Bounded'
        /\ warping = <<>>
    <3>1. TimerFires => warping = <<>>
      BY IdleLists DEF TimerFires, Idle
    <3> QED BY <1>0, <1>3, <3>1 DEF Reevaluated, TimerFires, Bounded, clockVars, listVars, recVars, bounds
  <2>2. Lists' /\ \A x \in Timers : ~Contains(warping, x)
    BY <1>b, <2>1 DEF Lists, Contains
  <2> QED BY <1>0, <2>1, <2>2, QuietKeeps
<1>4. CASE SetNextActivation
  <2>1. UNCHANGED <<entry, live, list, processed, warping, now>>
    BY <1>4 DEF SetNextActivation, listVars, recVars
  <2>2. alarm' \in 0 .. MaxWaitTime
    <3>1. alarm' = IF list = <<>> \/ NextActivation(entry[Head(list)]) > now + MaxWaitTime
                   THEN MaxWaitTime ELSE NextActivation(entry[Head(list)]) - now
      BY <1>4 DEF SetNextActivation
    <3>2. ASSUME list # <<>>
          PROVE  NextActivation(entry[Head(list)]) \in Int /\ NextActivation(entry[Head(list)]) > now
      <4>1. Head(list) \in Timers
        BY <1>b, <3>2, TailDrops DEF Lists
      <4>2. NextActivation(entry[Head(list)]) \in Int
        BY <4>1, OneEntry, ActivationType
      <4>3. ~(NextActivation(entry[Head(list)]) <= now)
        BY <1>4, <3>2 DEF SetNextActivation, FirstIsDue
      <4> QED BY <1>0, <4>2, <4>3
    <3> QED BY <1>0, <1>a, <3>1, <3>2
  <2>3. Bounded'
    BY <1>0, <1>4, <2>2 DEF SetNextActivation, Bounded, recVars, bounds
  <2>4. warping = <<>> /\ \A x \in Timers : ~Contains(warping, x)
    BY <1>4, IdleLists DEF SetNextActivation
  <2>5. Lists'
    BY <1>b, <2>1, <2>4 DEF Lists
  <2> QED BY <1>0, <2>1, <2>3, <2>4, <2>5, QuietKeeps
<1>5. ASSUME NEW w \in Timers, Chosen(w) PROVE TimerInv'
  <2>1. Handled(w)
    BY <1>5, ActivateStep
  <2>2. UNCHANGED <<clockVars, warping, removing, bounds>> /\ loop # "warp"
    BY <1>5 DEF Chosen, DoActivate, Skip, DiskNotReady, DiskFull, Prepare, PrepareFails, PrepareRefused,
         PassStart, ZapRefused, StartRecording, StartFails, End, Starts, Activated, Activates, Quiet
  <2>3. recordings' \in Nat
    <3>1. \/ recordings' = recordings \/ Counted(recordings + 1) \/ Counted(recordings - 1)
      BY <1>5 DEF Chosen, DoActivate, Skip, DiskNotReady, DiskFull, Prepare, PrepareFails, PrepareRefused,
           PassStart, ZapRefused, StartRecording, StartFails, End, recVars
    <3> QED BY <1>0, <3>1, CountedType
  <2> QED BY <1>0, <2>1, <2>2, <2>3, MovingKeeps DEF bounds
<1>6. CASE Removed
  <2>1. /\ processed' = RemoveFirst(processed, removing) /\ removing' = NoTimer
        /\ UNCHANGED <<clockVars, loop, list, entry, warping, recVars, bounds>> /\ loop = "idle"
    BY <1>6 DEF Removed
  <2>2. /\ processed' \in Seq(Timers) /\ Distinct(processed')
        /\ \A x : Contains(processed', x) <=> Contains(processed, x) /\ x # removing
    BY <1>b, <2>1, RemoveFirstTakes DEF Lists
  <2>3. Bounded'
    BY <1>0, <2>1 DEF Bounded, clockVars, recVars, bounds
  <2>4. warping = <<>> /\ \A x \in Timers : ~Contains(warping, x)
    BY <2>1, IdleLists
  <2>5. Lists'
    BY <1>b, <2>1, <2>2, <2>4 DEF Lists
  <2> QED BY <1>0, <2>1, <2>2, <2>3, <2>4, <2>5, QuietKeeps DEF clockVars, recVars
<1>7. CASE Tick
  <2>1. UNCHANGED <<entry, live, list, processed, warping>> /\ now' \in Int /\ Bounded'
    BY <1>0, <1>a, <1>7 DEF Tick, Bounded, listVars, recVars, bounds
  <2>2. warping = <<>> /\ \A x \in Timers : ~Contains(warping, x)
    BY <1>7, IdleLists DEF Tick, Idle
  <2>3. Lists'
    BY <1>b, <2>1, <2>2 DEF Lists
  <2> QED BY <2>1, <2>2, <2>3, QuietKeeps
<1>8. ASSUME NEW t \in 0 .. MaxTime, SetClock(t) PROVE TimerInv'
  <2>1. UNCHANGED <<entry, live, list, processed, warping>> /\ now' \in Int /\ Bounded'
    BY <1>0, <1>a, <1>8 DEF SetClock, Bounded, listVars, recVars
  <2>2. warping = <<>> /\ \A x \in Timers : ~Contains(warping, x)
    BY <1>8, IdleLists DEF SetClock, Idle
  <2>3. Lists'
    BY <1>b, <2>1, <2>2 DEF Lists
  <2> QED BY <2>1, <2>2, <2>3, QuietKeeps
<1>9. ASSUME NEW e \in Timers, NEW b \in Begins, Record(e, b) \/ Edit(e, b) PROVE TimerInv'
  <2>1. Handled(e)
    BY <1>9, RecordStep, EditStep
  <2>2. UNCHANGED <<clockVars, warping, recVars, removing>> /\ loop # "warp"
        /\ edits' \in 0 .. MaxEdits /\ clockSets' = clockSets
    <3>1. CASE Record(e, b)
      BY <1>0, <3>1 DEF Record, Undisturbed, Idle, bounds
    <3>2. CASE Edit(e, b)
      BY <1>0, <1>a, <3>2 DEF Edit, Edited, Undisturbed, Idle
    <3> QED BY <1>9, <3>1, <3>2
  <2> QED BY <1>0, <2>1, <2>2, MovingKeeps DEF recVars
<1>10. ASSUME NEW e \in Timers, Disable(e) \/ Enable(e) PROVE TimerInv'
  <2>1. Handled(e)
    BY <1>10, DisableStep
  <2>2. UNCHANGED <<clockVars, warping, recVars, removing>> /\ loop # "warp"
        /\ edits' \in 0 .. MaxEdits /\ clockSets' = clockSets
    BY <1>0, <1>a, <1>10 DEF Disable, Enable, Edited, Undisturbed, Idle
  <2> QED BY <1>0, <2>1, <2>2, MovingKeeps DEF recVars
<1>11. ASSUME NEW e \in Timers, RemoveEntry(e) \/ RecordAborted(e) PROVE TimerInv'
  <2>1. Handled(e) \/ InPlace(e)
    BY <1>11, AbortStep DEF RemoveEntry, RecordAborted
  <2>2. UNCHANGED <<clockVars, warping, recVars>> /\ loop # "warp" /\ removing' = e
        /\ edits' \in 0 .. MaxEdits /\ clockSets' = clockSets
    BY <1>0, <1>a, <1>11 DEF RemoveEntry, RecordAborted, AbortEntry, Edited, Idle, bounds
  <2>3. CASE Handled(e)
    BY <1>0, <2>2, <2>3, MovingKeeps DEF recVars
  <2>4. CASE InPlace(e)
    <3>1. Bounded' /\ now' = now
      BY <1>0, <2>2, <2>4 DEF InPlace, Bounded, clockVars, recVars
    <3> QED BY <2>2, <2>4, <3>1, InPlaceKeeps
  <2> QED BY <2>1, <2>3, <2>4
<1>12. ASSUME NEW e \in Timers, WriteError(e) PROVE TimerInv'
  <2>1. InPlace(e)
    BY <1>12, WriteErrorStep
  <2>2. UNCHANGED <<clockVars, loop, warping, recordings, removing, bounds>>
    BY <1>12 DEF WriteError
  <2>3. Bounded' /\ now' = now
    BY <1>0, <2>2 DEF Bounded, clockVars, bounds
  <2> QED BY <2>1, <2>2, <2>3, InPlaceKeeps
<1>13. ASSUME NEW e \in Timers, GstRecordEnded(e) PROVE TimerInv'
  <2>1. Handled(e)
    BY <1>13, GstRecordEndedStep
  <2>2. UNCHANGED <<clockVars, warping, removing, bounds>> /\ loop # "warp" /\ Counted(recordings - 1)
    BY <1>13, StreamRuns DEF End, Quiet
  <2>3. recordings' \in Nat
    BY <1>0, <2>2, CountedType
  <2> QED BY <1>0, <2>1, <2>2, <2>3, MovingKeeps DEF bounds
<1>14. CASE UNCHANGED vars
  <2>1. UNCHANGED <<entry, live, list, processed, warping, now, loop>> /\ Bounded'
    BY <1>0, <1>14 DEF vars, clockVars, listVars, recVars, bounds, Bounded
  <2>2. Lists'
    BY <1>b, <2>1 DEF Lists
  <2>3. \A x \in Timers : ~(Contains(processed, x) /\ Contains(warping, x))
    BY OneEntry DEF Placed
  <2> QED BY <1>0, <2>1, <2>2, <2>3, QuietKeeps
<1>15. CASE Cleanup
  <2> DEFINE S == {e \in Timers : entry[e].disabled}
             p == Only(processed, S)
  <2>1. processed' = p /\ UNCHANGED <<clockVars, loop, list, entry, warping, recVars, removing>>
    BY <1>15 DEF Cleanup, Undisturbed
  <2>2. /\ p \in Seq(Timers) /\ Distinct(p)
        /\ \A x : Contains(p, x) <=> Contains(processed, x) /\ x \in S
    BY <1>b, OnlyKeeps DEF Lists
  <2> HIDE DEF p
  <2>3. edits' \in 0 .. MaxEdits /\ clockSets' = clockSets
    BY <1>0, <1>a, <1>15 DEF Cleanup, Edited
  <2>4. Bounded'
    BY <1>0, <2>1, <2>3 DEF Bounded, clockVars, recVars
  <2>5. warping = <<>> /\ \A x \in Timers : ~Contains(warping, x)
    BY <1>15, IdleLists DEF Cleanup, Idle
  <2>6. Lists'
    BY <1>b, <2>1, <2>2, <2>5 DEF Lists
  <2> QED BY <1>0, <2>1, <2>2, <2>4, <2>5, <2>6, QuietKeeps DEF clockVars, recVars
<1> QED
  BY <1>1, <1>2, <1>3, <1>4, <1>5, <1>6, <1>7, <1>8, <1>9, <1>10, <1>11, <1>12, <1>13, <1>14, <1>15
     DEF Next, CalcNextActivation, Chosen

LEMMA TimerAlways ==
  ASSUME Steady
  PROVE  Spec => []TimerInv
<1>1. Init => TimerInv
  BY Steady, TimerInit
<1> QED
  BY <1>1, TimerStep, PTL DEF Spec

LEMMA ConcatenationPuts ==
  ASSUME NEW s \in Seq(Timers), NEW t \in Seq(Timers), Distinct(s), Distinct(t),
         \A x \in Timers : ~(Contains(s, x) /\ Contains(t, x))
  PROVE  /\ s \o t \in Seq(Timers) /\ Distinct(s \o t)
         /\ \A x : Contains(s \o t, x) <=> Contains(s, x) \/ Contains(t, x)
<1> DEFINE u == s \o t
<1>1. /\ u \in Seq(Timers) /\ Len(u) = Len(s) + Len(t) /\ Len(s) \in Nat /\ Len(t) \in Nat
      /\ \A i \in 1 .. Len(u) : u[i] = IF i <= Len(s) THEN s[i] ELSE t[i - Len(s)]
  BY ConcatProperties, LenProperties
<1> HIDE DEF u
<1>2. ASSUME NEW i \in 1 .. Len(u) PROVE u[i] \in Timers
  BY <1>1, ElementOfSeq
<1>3. ASSUME NEW i \in 1 .. Len(u), i > Len(s)
      PROVE  i - Len(s) \in 1 .. Len(t) /\ u[i] = t[i - Len(s)] /\ Contains(t, u[i])
  <2>1. i - Len(s) \in 1 .. Len(t) /\ ~(i <= Len(s))
    BY <1>1, <1>3
  <2>2. u[i] = t[i - Len(s)]
    BY <1>1, <2>1
  <2> QED BY <2>1, <2>2 DEF Contains
<1>4. ASSUME NEW i \in 1 .. Len(u), i <= Len(s)
      PROVE  i \in 1 .. Len(s) /\ u[i] = s[i] /\ Contains(s, u[i])
  <2>1. i \in 1 .. Len(s) /\ u[i] = s[i]
    BY <1>1, <1>4
  <2> QED BY <2>1 DEF Contains
<1>5. Distinct(u)
  <2> SUFFICES ASSUME NEW i \in 1 .. Len(u), NEW j \in 1 .. Len(u), i # j PROVE u[i] # u[j]
    BY DEF Distinct
  <2>1. CASE i <= Len(s) /\ j <= Len(s)
    BY <1>4, <2>1 DEF Distinct
  <2>2. CASE i > Len(s) /\ j > Len(s)
    <3>1. i - Len(s) # j - Len(s)
      BY <1>1
    <3> QED BY <1>3, <2>2, <3>1 DEF Distinct
  <2>3. CASE i <= Len(s) /\ j > Len(s)
    BY <1>2, <1>3, <1>4, <2>3
  <2>4. CASE i > Len(s) /\ j <= Len(s)
    BY <1>2, <1>3, <1>4, <2>4
  <2> QED BY <1>1, <2>1, <2>2, <2>3, <2>4
<1>6. ASSUME NEW x PROVE Contains(u, x) <=> Contains(s, x) \/ Contains(t, x)
  <2>1. ASSUME NEW i \in 1 .. Len(u), u[i] = x PROVE Contains(s, x) \/ Contains(t, x)
    <3>1. CASE i <= Len(s)
      BY <1>4, <2>1, <3>1
    <3>2. CASE i > Len(s)
      BY <1>3, <2>1, <3>2
    <3> QED BY <1>1, <3>1, <3>2
  <2>2. ASSUME NEW i \in 1 .. Len(s), s[i] = x PROVE Contains(u, x)
    <3>1. i \in 1 .. Len(u) /\ i <= Len(s)
      BY <1>1
    <3>2. u[i] = x
      BY <1>1, <2>2, <3>1
    <3> QED BY <3>1, <3>2 DEF Contains
  <2>3. ASSUME NEW i \in 1 .. Len(t), t[i] = x PROVE Contains(u, x)
    <3>1. i + Len(s) \in 1 .. Len(u) /\ ~(i + Len(s) <= Len(s)) /\ (i + Len(s)) - Len(s) = i
      BY <1>1
    <3>2. u[i + Len(s)] = x
      BY <1>1, <2>3, <3>1
    <3> QED BY <3>1, <3>2 DEF Contains
  <2> QED BY <2>1, <2>2, <2>3 DEF Contains
<1> QED BY <1>1, <1>5, <1>6 DEF u

LEMMA TimerTyped ==
  ASSUME TimerInv
  PROVE  TypeOK
<1>1. \A e \in Timers : live[e] \in Nat
  BY OneEntry
<1>2. live \in [Timers -> Nat]
  BY <1>1 DEF TimerInv, Typed
<1> QED BY <1>2 DEF TimerInv, Typed, Bounded, Lists, TypeOK

(* Every field of every entry, every list and every counter keeps its      *)
(* type: no index, state or backoff leaves its range.  (Here and below no  *)
(* stream that repeats is disabled while it runs: see Steady.)             *)
THEOREM TimerTypes ==
  ASSUME Steady
  PROVE  Spec => []TypeOK
<1>1. TimerInv => TypeOK
  BY TimerTyped
<1> QED
  BY <1>1, Steady, TimerAlways, PTL

LEMMA InOnePlace ==
  ASSUME TimerInv
  PROVE  OnePlace
<1> DEFINE s == list \o processed
           all == s \o warping
<1>1. \A x \in Timers : ~(Contains(list, x) /\ Contains(processed, x))
  BY OneEntry DEF Placed
<1>2. /\ s \in Seq(Timers) /\ Distinct(s)
      /\ \A x : Contains(s, x) <=> Contains(list, x) \/ Contains(processed, x)
  BY <1>1, ConcatenationPuts DEF TimerInv, Lists
<1>3. \A x \in Timers : ~(Contains(s, x) /\ Contains(warping, x))
  BY <1>2, OneEntry DEF Placed
<1> HIDE DEF s
<1>4. Distinct(all)
  BY <1>2, <1>3, ConcatenationPuts DEF TimerInv, Lists
<1>5. all = list \o processed \o warping
  BY DEF s
<1> HIDE DEF all
<1> QED BY <1>4, <1>5 DEF OnePlace, Distinct

(* timer_list and processed_timers together hold an entry at most once     *)
(* (RecordTimer.py:1051-1072), through every handler that takes one out    *)
(* and inserts it again, and while they are re-evaluated: unless a stream  *)
(* that repeats is disabled while it runs, when doActivate() inserts it    *)
(* among the processed ones a second time (936-939, 1069).                 *)
THEOREM EntryInOnePlace ==
  ASSUME Steady
  PROVE  Spec => []OnePlace
BY InOnePlace, Steady, TimerAlways, PTL

(* RecordTimerEntry.start() calls the recorder it finds in record_service  *)
(* unconditionally (RecordTimer.py:626): whatever the user, the disk and   *)
(* the clock do to the entry since it was prepared, there is one.          *)
THEOREM StartsOnRecorder ==
  ASSUME Steady
  PROVE  Spec => []StartHasRecorder
<1>1. TimerInv => StartHasRecorder
  BY DEF TimerInv, Sound, Startable, StartHasRecorder, Starts, Activated
<1> QED
  BY <1>1, Steady, TimerAlways, PTL

(* While nobody disables an entry, no recorder is lost and none is stopped *)
(* twice, also when the clock is set: each that is allocated               *)
(* (RecordTimer.py:402) and not stopped (637-649) is the one its entry     *)
(* holds.                                                                  *)
THEOREM NoRecorderLost ==
  ASSUME Enabled
  PROVE  Spec => []RecorderIsOwned
<1>1. TimerInv => RecorderIsOwned
  BY Enabled DEF TimerInv, Sound, Owning, RecorderIsOwned
<1>2. Steady
  BY Enabled DEF Steady
<1> QED
  BY <1>1, <1>2, TimerAlways, PTL

(* ... and only an entry that is on its way in timer_list, or is being     *)
(* removed, holds one, so that somebody will stop it.                      *)
THEOREM OwnersAreActive ==
  ASSUME Enabled
  PROVE  Spec => []OwnerIsActive
<1>1. ASSUME TimerInv PROVE OwnerIsActive
  <2> SUFFICES ASSUME NEW e \in Timers, entry[e].recorder # "none"
               PROVE  Contains(list, e) /\ entry[e].state \in {Prepared, Running}
    BY DEF OwnerIsActive
  <2>1. entry[e].state \in {Prepared, Running}
    BY <1>1, Enabled DEF TimerInv, Sound, Owning
  <2> QED BY <1>1, <2>1, KnownOrNot DEF Waiting, Prepared, Running, Ended
<1>2. Steady
  BY Enabled DEF Steady
<1> QED
  BY <1>1, <1>2, TimerAlways, PTL

-----------------------------------------------------------------------------
(* On time *)

(* Only a write error changes an entry in timer_list where it is, so       *)
(* without one the list is sorted, and what calcNextActivation() says of   *)
(* the first entry holds for all.                                          *)
Undamaged == "writeError" \notin Events

Punctual ==
  /\ SortedAs(list, entry)
  /\ loop = "idle" => \A x \in Timers : Contains(list, x) => NextActivation(entry[x]) > last

Prompt ==
  loop = "idle" => \A x \in Timers : Contains(list, x) => now + alarm <= NextActivation(entry[x])

(* What stays in timer_list of an idle loop is as it was. *)
LEMMA StaysTimed ==
  ASSUME TimerInv, NEW e \in Timers, Handled(e) \/ (InPlace(e) /\ ~Contains(list, e))
  PROVE  /\ SortedAs(list, entry) => SortedAs(list', entry')
         /\ loop' = "idle" =>
              /\ loop = "idle"
              /\ \A x \in Timers : Contains(list', x) =>
                    Contains(list, x) /\ NextActivation(entry'[x]) = NextActivation(entry[x])
<1>1. CASE Handled(e)
  <2>1. Relisted(e) /\ Queued(e)
    BY <1>1 DEF Handled
  <2>2. ASSUME loop' = "idle", NEW x \in Timers, Contains(list', x)
        PROVE  Contains(list, x) /\ entry'[x] = entry[x]
    <3>1. x # e /\ Contains(list, x)
      BY <2>1, <2>2 DEF Relisted, Queued
    <3>2. ~Contains(processed, x)
      BY <3>1, OneEntry DEF Placed
    <3> QED BY <2>1, <3>1, <3>2 DEF Relisted
  <2> QED BY <2>1, <2>2 DEF Queued
<1>2. CASE InPlace(e) /\ ~Contains(list, e)
  <2>1. list' = list /\ loop' = loop /\ \E r : entry' = [entry EXCEPT ![e] = r]
    BY <1>2 DEF InPlace
  <2>2. \A x \in Timers : Contains(list, x) => entry'[x] = entry[x]
    BY <1>2, <2>1 DEF TimerInv, Typed
  <2>3. \A i \in 1 .. Len(list) : entry'[list[i]] = entry[list[i]]
    <3>1. list \in Seq(Timers)
      BY DEF TimerInv, Lists
    <3>2. \A i \in 1 .. Len(list) : list[i] \in Timers /\ Contains(list, list[i])
      BY <3>1, ElementOfSeq DEF Contains
    <3> QED BY <2>2, <3>2
  <2> QED BY <2>1, <2>2, <2>3 DEF SortedAs
<1> QED BY <1>1, <1>2

(* If the first of a sorted list is not due, none is. *)
LEMMA FirstIsFirst ==
  ASSUME TimerInv, SortedAs(list, entry), NEW x \in Timers, Contains(list, x)
  PROVE  /\ list # <<>> /\ NextActivation(entry[Head(list)]) \in Int
         /\ NextActivation(entry[x]) \in Int
         /\ NextActivation(entry[Head(list)]) <= NextActivation(entry[x])
<1>1. list \in Seq(Timers) /\ Len(list) \in Nat /\ Distinct(list)
  BY LenProperties DEF TimerInv, Lists
<1>2. PICK i \in 1 .. Len(list) : list[i] = x
  BY DEF Contains
<1>3. list # <<>> /\ Head(list) = list[1] /\ 1 \in 1 .. Len(list)
  BY <1>1, <1>2
<1>4. Head(list) \in Timers
  BY <1>1, <1>3, TailDrops
<1>5. NextActivation(entry[Head(list)]) \in Int /\ NextActivation(entry[x]) \in Int
  BY <1>4, OneEntry, ActivationType
<1>6. i = 1 \/ 1 < i
  BY <1>1, <1>2
<1>7. 1 < i => NextActivation(entry[list[1]]) <= NextActivation(entry[list[i]])
  BY <1>2, <1>3 DEF SortedAs
<1> QED BY <1>2, <1>3, <1>5, <1>6, <1>7

(* What each step does to timer_list and to the times, for both. *)
LEMMA StepsInTime ==
  ASSUME TimerInv, [Next]_vars, Undamaged
  PROVE  \/ /\ \E e \in Timers : Handled(e) \/ (InPlace(e) /\ ~Contains(list, e))
            /\ UNCHANGED clockVars
         \/ /\ UNCHANGED <<list, entry>>
            /\ \/ SetNextActivation \/ Tick
               \/ \E t \in 0 .. MaxTime : SetClock(t)
               \/ UNCHANGED clockVars /\ loop' \in {loop, "calc", "warp", "processing"}
<1>1. CASE Calc \/ Reevaluated \/ TimerFires \/ Removed \/ Cleanup \/ UNCHANGED vars
  BY <1>1 DEF Calc, Reevaluated, TimerFires, Removed, Cleanup, Undisturbed, vars, clockVars, listVars
<1>2. CASE Reevaluate
  <2>1. UNCHANGED clockVars
    BY <1>2 DEF Reevaluate
  <2> QED BY <1>2, <2>1, ReevaluateStep
<1>3. CASE SetNextActivation
  BY <1>3 DEF SetNextActivation, listVars
<1>4. ASSUME NEW w \in Timers, Chosen(w)
      PROVE  Handled(w) /\ UNCHANGED clockVars
  BY <1>4, ActivateStep
     DEF Chosen, DoActivate, Skip, DiskNotReady, DiskFull, Prepare, PrepareFails, PrepareRefused,
         PassStart, ZapRefused, StartRecording, StartFails, End, Quiet
<1>5. CASE Tick
  BY <1>5 DEF Tick, listVars
<1>6. ASSUME NEW t \in 0 .. MaxTime, SetClock(t) PROVE UNCHANGED <<list, entry>>
  BY <1>6 DEF SetClock, listVars
<1>7. ASSUME NEW e \in Timers, NEW b \in Begins, Record(e, b) \/ Edit(e, b)
      PROVE  Handled(e) /\ UNCHANGED clockVars
  BY <1>7, RecordStep, EditStep DEF Record, Edit, Undisturbed
<1>8. ASSUME NEW e \in Timers, Disable(e) \/ Enable(e)
      PROVE  Handled(e) /\ UNCHANGED clockVars
  BY <1>8, DisableStep DEF Disable, Enable, Undisturbed
<1>9. ASSUME NEW e \in Timers, RemoveEntry(e) \/ RecordAborted(e)
      PROVE  (Handled(e) \/ (InPlace(e) /\ ~Contains(list, e))) /\ UNCHANGED clockVars
  BY <1>9, AbortStep DEF RemoveEntry, RecordAborted, AbortEntry
<1>10. ASSUME NEW e \in Timers, WriteError(e) PROVE FALSE
  BY <1>10 DEF WriteError, Undamaged
<1>11. ASSUME NEW e \in Timers, GstRecordEnded(e)
       PROVE  Handled(e) /\ UNCHANGED clockVars
  BY <1>11, GstRecordEndedStep, StreamRuns DEF End, Quiet
<1> QED
  BY <1>1, <1>2, <1>3, <1>4, <1>5, <1>6, <1>7, <1>8, <1>9, <1>10, <1>11
     DEF Next, CalcNextActivation, Chosen

LEMMA PunctualStep ==
  ASSUME TimerInv, Punctual, [Next]_vars, Undamaged
  PROVE  Punctual'
<1>1. ASSUME NEW e \in Timers, Handled(e) \/ (InPlace(e) /\ ~Contains(list, e)),
             UNCHANGED clockVars
      PROVE  Punctual'
  BY <1>1, StaysTimed DEF Punctual, clockVars
<1>2. ASSUME UNCHANGED <<list, entry>> PROVE SortedAs(list, entry)'
  BY <1>2 DEF Punctual, SortedAs
<1>3. CASE SetNextActivation
  <2>1. UNCHANGED <<list, entry>> /\ last' = now /\ ~FirstIsDue
    BY <1>3 DEF SetNextActivation, listVars
  <2>2. ASSUME NEW x \in Timers, Contains(list, x) PROVE NextActivation(entry[x]) > now
    <3>1. now \in Int /\ SortedAs(list, entry)
      BY DEF TimerInv, Typed, Punctual
    <3> QED BY <2>1, <2>2, <3>1, FirstIsFirst DEF FirstIsDue
  <2> QED BY <1>2, <2>1, <2>2 DEF Punctual
<1>4. ASSUME UNCHANGED <<list, entry>>,
             Tick \/ (\E t \in 0 .. MaxTime : SetClock(t))
               \/ (UNCHANGED clockVars /\ loop' \in {loop, "calc", "warp", "processing"})
      PROVE  Punctual'
  <2>1. last' = last /\ (loop' = "idle" => loop = "idle")
    BY <1>4 DEF Tick, SetClock, clockVars
  <2> QED BY <1>2, <1>4, <2>1 DEF Punctual
<1> QED
  BY <1>1, <1>3, <1>4, StepsInTime

LEMMA PromptStep ==
  ASSUME TimerInv, Punctual, Prompt, [Next]_vars, Undamaged, "clock" \notin Events
  PROVE  Prompt'
<1>1. ASSUME NEW e \in Timers, Handled(e) \/ (InPlace(e) /\ ~Contains(list, e)),
             UNCHANGED clockVars
      PROVE  Prompt'
  BY <1>1, StaysTimed DEF Prompt, clockVars
<1>2. CASE SetNextActivation
  <2>1. /\ UNCHANGED <<list, entry, now>> /\ ~FirstIsDue
        /\ alarm' = IF list = <<>> \/ NextActivation(entry[Head(list)]) > now + MaxWaitTime
                    THEN MaxWaitTime ELSE NextActivation(entry[Head(list)]) - now
    BY <1>2 DEF SetNextActivation, listVars
  <2>2. ASSUME NEW x \in Timers, Contains(list, x)
        PROVE  now + alarm' <= NextActivation(entry[x])
    <3>1. now \in Int /\ SortedAs(list, entry) /\ MaxWaitTime \in Int
      BY RecordTimerAssumption DEF TimerInv, Typed, Punctual
    <3> QED BY <2>1, <2>2, <3>1, FirstIsFirst
  <2> QED BY <2>1, <2>2 DEF Prompt
<1>3. CASE Tick
  <2>1. UNCHANGED <<list, entry, loop>> /\ now' = now + 1 /\ alarm' = alarm - 1
    BY <1>3 DEF Tick, listVars
  <2>2. now' + alarm' = now + alarm
    BY <2>1 DEF TimerInv, Typed, Bounded
  <2> QED BY <2>1, <2>2 DEF Prompt
<1>4. ASSUME UNCHANGED <<list, entry, clockVars>>, loop' \in {loop, "calc", "warp", "processing"}
      PROVE  Prompt'
  BY <1>4 DEF Prompt, clockVars
<1>5. ASSUME NEW t \in 0 .. MaxTime, SetClock(t) PROVE FALSE
  BY <1>5 DEF SetClock
<1> QED
  BY <1>1, <1>2, <1>3, <1>4, <1>5, StepsInTime

LEMMA OnTimeInit == Init => Punctual /\ Prompt
BY DEF Init, Punctual, Prompt, SortedAs, Contains

LEMMA InTheList ==
  ASSUME TimerInv, NEW i \in 1 .. Len(list)
  PROVE  list[i] \in Timers /\ Contains(list, list[i])
<1>1. list \in Seq(Timers)
  BY DEF TimerInv, Lists
<1> QED BY <1>1, ElementOfSeq DEF Contains

(* When calcNextActivation() has returned, no entry of timer_list was due  *)
(* at the time it noted, wherever it stands (timer.py:331-335).            *)
THEOREM NoneLate ==
  ASSUME Undamaged, Steady
  PROVE  Spec => []NoneOverdue
<1>1. TimerInv /\ Punctual /\ [Next]_vars => Punctual'
  BY Undamaged, PunctualStep
<1>2. TimerInv /\ Punctual => NoneOverdue
  BY InTheList DEF Punctual, NoneOverdue
<1> QED
  BY <1>1, <1>2, Steady, TimerAlways, OnTimeInit, PTL DEF Spec

(* Until the clock is set, the eTimer fires before every activation in     *)
(* timer_list, however the list has changed since it was armed             *)
(* (timer.py:248-279).                                                     *)
THEOREM AlarmRings ==
  ASSUME Undamaged, Steady, "clock" \notin Events
  PROVE  Spec => []AlarmInTime
<1>1. TimerInv /\ (Punctual /\ Prompt) /\ [Next]_vars => (Punctual /\ Prompt)'
  BY Undamaged, "clock" \notin Events, PunctualStep, PromptStep
<1>2. TimerInv /\ Prompt => AlarmInTime
  BY InTheList DEF Prompt, AlarmInTime
<1> QED
  BY <1>1, <1>2, Steady, TimerAlways, OnTimeInit, PTL DEF Spec

-----------------------------------------------------------------------------
(* Removing *)

(* The entry that is being removed is on its way to the end: what is due   *)
(* in timer_list is processed before calcNextActivation() returns.         *)
LeavesSoon(r) ==
  /\ ~r.repeats /\ r.cancelled /\ r.state \in {Prepared, Running}
  /\ r.begin <= now /\ r.end <= now

Leaving ==
  removing # NoTimer /\ Contains(list, removing) =>
     removing \in Timers /\ loop # "idle" /\ LeavesSoon(entry[removing])

(* When the clock was set back, nothing but the removed entry was due      *)
(* before: what has come due, or back into timer_list, ends later.         *)
Ahead(r) == NextActivation(r) > now \/ r.end > now

(* Then calcNextActivation() re-evaluates the processed entries once, while *)
(* the removed one is still in timer_list: as no other entry ends, none is *)
(* queued for its next day, so calcNextActivation() is not called from     *)
(* below and does not start again.                                         *)
Onward ==
  /\ loop = "warp" => last > now
  /\ removing # NoTimer /\ loop # "idle" /\ last > now =>
       /\ loop # "processing" => Contains(list, removing)
       /\ \A x \in Timers : Contains(list, x) /\ x # removing => Ahead(entry[x])

(* doActivate() of an entry that has ended for good: it leaves the list. *)
LEMMA SettledForGood ==
  ASSUME TimerInv, NEW w \in Timers, NEW r, r.state = Ended, ~r.repeats, Settle(w, r)
  PROVE  ~Contains(list', w) /\ loop' = loop
<1>1. list' = RemoveFirst(list, w) /\ loop' = loop
  BY DEF Settle, Ended
<1> QED BY <1>1, RemoveFirstTakes DEF TimerInv, Lists

LEMMA LeavingActivates ==
  ASSUME TimerInv, NEW w \in Timers, LeavesSoon(entry[w]), Chosen(w)
  PROVE  loop' = loop /\ (Contains(list', w) => LeavesSoon(entry'[w]))
<1> DEFINE o == entry[w]
<1>1. o \in Entry /\ LeavesSoon(o)
  BY OneEntry
<1>2. CASE Skip(w, entry[w])
  <2> DEFINE k == SkipChecked(o)
             r == [k EXCEPT !.state = Ended]
  <2>1. Settle(w, r)
    BY <1>2 DEF Skip
  <2>2. k \in Entry /\ k.repeats = o.repeats
    BY <1>1, SkipCarries DEF SkipChecked, Entry
  <2> HIDE DEF k
  <2>3. r.state = Ended /\ r.repeats = k.repeats
    BY <2>2 DEF Entry
  <2> HIDE DEF r, o
  <2>4. ~r.repeats
    BY <1>1, <2>2, <2>3 DEF LeavesSoon
  <2> QED BY <2>1, <2>3, <2>4, SettledForGood
<1>3. CASE PassStart(w, entry[w])
  <2> DEFINE r == [o EXCEPT !.state = Running]
  <2>1. Settle(w, r)
    BY <1>3 DEF PassStart
  <2>2. /\ r.state = Running /\ r.repeats = o.repeats /\ r.cancelled = o.cancelled
        /\ r.begin = o.begin /\ r.end = o.end
    BY <1>1 DEF Entry
  <2> HIDE DEF r
  <2>3. entry' = [entry EXCEPT ![w] = r] /\ loop' = loop
    BY <2>1, <2>2 DEF Settle, Running, Ended
  <2>4. entry'[w] = r /\ now' = now
    BY <1>3, <2>3 DEF TimerInv, Typed, PassStart, Quiet, clockVars
  <2> QED BY <1>1, <2>2, <2>3, <2>4 DEF LeavesSoon
<1>4. CASE End(w, entry[w])
  <2>1. Settle(w, Finished(o))
    BY <1>4 DEF End
  <2>2. Finished(o).state = Ended /\ Finished(o).repeats = o.repeats
    BY <1>1 DEF Finished, Entry
  <2> HIDE DEF o
  <2>3. ~Finished(o).repeats
    BY <1>1, <2>2 DEF LeavesSoon
  <2> QED BY <2>1, <2>2, <2>3, SettledForGood
<1>5. ~DiskNotReady(w, entry[w]) /\ ~DiskFull(w, entry[w]) /\ ~Prepare(w, entry[w]) /\ ~PrepareFails(w, entry[w]) /\ ~PrepareRefused(w, entry[w])
  BY <1>1 DEF DiskNotReady, DiskFull, Prepare, PrepareFails, PrepareRefused, Activated,
              LeavesSoon, Waiting, Prepared, Running
<1>6. ~StartRecording(w, entry[w]) /\ ~StartFails(w, entry[w]) /\ ~ZapRefused(w, entry[w])
  BY <1>1 DEF StartRecording, StartFails, Starts, ZapRefused, LeavesSoon
<1> QED BY <1>2, <1>3, <1>4, <1>5, <1>6 DEF Chosen, DoActivate

LEMMA AbortLeaves ==
  ASSUME TimerInv, loop = "idle", NEW e \in Timers, AbortEntry(e)
  PROVE  /\ loop' # "idle" <=> Contains(list', e)
         /\ Contains(list', e) => LeavesSoon(entry'[e])
         /\ loop' \in {"idle", "calc"}
<1> DEFINE o == entry[e]
           begin == IF o.begin > now THEN now ELSE o.begin
           r == [o EXCEPT !.repeats = FALSE, !.cancelled = TRUE, !.end = now, !.begin = begin]
           q == TimesSet(r)
<1>1. o \in Entry /\ now \in Int /\ Placed(e)
  BY OneEntry
<1>2. begin \in Int /\ begin <= now
  BY <1>1 DEF Entry
<1>3. /\ IF r.state = Ended
          THEN entry' = [entry EXCEPT ![e] = r] /\ UNCHANGED <<list, processed, loop>>
          ELSE TimeChanged(e, r)
      /\ now' = now
  BY DEF AbortEntry, clockVars
<1> HIDE DEF begin
<1>4. /\ r.state = o.state /\ ~r.repeats /\ r.cancelled /\ r.end = now /\ r.begin = begin
  <2>1. r.state = o.state
    BY <1>1 DEF Entry
  <2>2. ~r.repeats /\ r.cancelled
    BY <1>1 DEF Entry
  <2>3. r.end = now /\ r.begin = begin
    BY <1>1 DEF Entry
  <2> QED BY <2>1, <2>2, <2>3
<1>r. ASSUME NEW f \in BOOLEAN, NEW g \in BOOLEAN, NEW i \in Int, NEW j \in Int
      PROVE  [o EXCEPT !.repeats = f, !.cancelled = g, !.end = i, !.begin = j] \in Entry
  BY <1>1 DEF Entry
<1>s. r \in Entry
  BY <1>1, <1>2, <1>r, Zenon
<1> HIDE DEF r
<1>5. /\ q.state = r.state /\ q.repeats = r.repeats /\ q.cancelled = r.cancelled
      /\ q.end = r.end /\ q.begin = r.begin
  BY <1>s DEF TimesSet, Entry
<1>6. CASE r.state = Ended
  <2>1. UNCHANGED <<list, loop>> /\ ~Contains(list, e)
    BY <1>1, <1>3, <1>4, <1>6 DEF Placed
  <2> QED BY <2>1
<1>7. r.state # Ended => TimeChanged(e, r)
  BY <1>3
<1> HIDE DEF q
<1>8. CASE r.state # Ended /\ ~Contains(list, e)
  <2>1. UNCHANGED <<list, loop>>
    BY <1>7, <1>8 DEF TimeChanged
  <2> QED BY <1>8, <2>1
<1>9. CASE r.state # Ended /\ Contains(list, e)
  <2>1. AddTimerEntry(e, q, RemoveFirst(list, e), processed, TRUE)
    BY <1>7, <1>9 DEF TimeChanged, q
  <2>2. ~Contains(RemoveFirst(list, e), e)
    BY RemoveFirstTakes DEF TimerInv, Lists
  <2>3. ProcessRepeated(q, TRUE) = q
    BY <1>4, <1>5 DEF ProcessRepeated
  <2>4. CASE ShouldSkip(q)
    <3>1. list' = RemoveFirst(list, e) /\ loop' = loop
      BY <2>1, <2>3, <2>4 DEF AddTimerEntry
    <3> QED BY <2>2, <3>1
  <2>5. CASE ~ShouldSkip(q)
    <3>1. entry' = [entry EXCEPT ![e] = q] /\ loop' = "calc" /\ Insort(RemoveFirst(list, e), e, q)
      BY <1>5, <1>9, <2>1, <2>3, <2>5 DEF AddTimerEntry
    <3>2. RemoveFirst(list, e) \in Seq(Timers) /\ Distinct(RemoveFirst(list, e))
      BY RemoveFirstTakes DEF TimerInv, Lists
    <3>3. Contains(list', e)
      BY <2>2, <3>1, <3>2, InsortPuts
    <3>4. q.state # Waiting
      BY <1>1, <1>4, <1>5, <2>5 DEF ShouldSkip
    <3>5. q.state \in {Prepared, Running}
      BY <1>1, <1>4, <1>5, <1>9, <3>4 DEF Entry, Waiting, Prepared, Running, Ended
    <3>6. entry'[e] = q
      BY <3>1 DEF TimerInv, Typed
    <3>7. ~q.repeats /\ q.cancelled /\ q.begin <= now /\ q.end <= now
      BY <1>1, <1>2, <1>4, <1>5
    <3>8. LeavesSoon(entry'[e])
      BY <3>5, <3>6, <3>7 DEF LeavesSoon
    <3> QED BY <3>1, <3>3, <3>8
  <2> QED BY <2>4, <2>5
<1> QED BY <1>6, <1>8, <1>9

LEMMA LeavingStep ==
  ASSUME TimerInv, Onward, Leaving, SortedAs(list, entry), [Next]_vars
  PROVE  Leaving'
<1> SUFFICES ASSUME removing' # NoTimer, Contains(list', removing')
             PROVE  removing' \in Timers /\ loop' # "idle" /\ LeavesSoon(entry[removing])'
  BY DEF Leaving
<1>0. removing \in Timers \cup {NoTimer} /\ NoTimer \notin Timers
  BY RecordTimerAssumption DEF TimerInv, Bounded
<1>1. CASE Calc \/ Reevaluated \/ UNCHANGED vars
  <2>1. /\ UNCHANGED <<removing, list, entry, now>>
        /\ loop' = "idle" => loop = "idle"
    BY <1>1 DEF Calc, Reevaluated, vars, clockVars, listVars
  <2> QED BY <2>1 DEF Leaving, LeavesSoon
<1>2. CASE Reevaluate
  <2>1. /\ Relisted(Head(warping)) /\ Head(warping) \in Timers
        /\ UNCHANGED <<removing, now>> /\ loop = "warp" /\ loop' # "idle"
        /\ Contains(warping, Head(warping))
    BY <1>2, ReevaluateStep, TailDrops
       DEF Handled, Queued, Reevaluate, clockVars, TimerInv, Lists
  <2>2. Contains(list, removing) /\ LeavesSoon(entry[removing]) /\ removing \in Timers
    BY <2>1 DEF Onward, Leaving
  <2>3. removing # Head(warping) /\ ~Contains(processed, removing)
    BY <2>1, <2>2, OneEntry DEF Placed
  <2>4. entry'[removing] = entry[removing]
    BY <2>1, <2>2, <2>3 DEF Relisted
  <2> QED BY <2>1, <2>2, <2>4 DEF LeavesSoon
<1>3. CASE SetNextActivation
  <2>1. UNCHANGED <<removing, list, entry, now>> /\ ~FirstIsDue
    BY <1>3 DEF SetNextActivation, listVars
  <2>2. Contains(list, removing) /\ removing \in Timers /\ LeavesSoon(entry[removing])
    BY <2>1 DEF Leaving
  <2>3. entry[removing] \in Entry
    BY <2>2, OneEntry
  <2>4. NextActivation(entry[removing]) <= now
    BY <2>2, <2>3 DEF LeavesSoon, NextActivation, Waiting, Prepared, Running
  <2>5. now \in Int
    BY DEF TimerInv, Typed
  <2> QED BY <2>1, <2>2, <2>4, <2>5, FirstIsFirst DEF FirstIsDue
<1>4. ASSUME NEW w \in Timers, Chosen(w)
      PROVE  removing' \in Timers /\ loop' # "idle" /\ LeavesSoon(entry[removing])'
  <2>1. Handled(w)
    BY <1>4, ActivateStep
  <2>2. UNCHANGED <<removing, now>> /\ loop = "processing"
    BY <1>4 DEF Chosen, DoActivate, Skip, DiskNotReady, DiskFull, Prepare, PrepareFails, PrepareRefused,
         PassStart, ZapRefused, StartRecording, StartFails, End, Starts, Activated, Activates, Quiet, clockVars
  <2>3. Relisted(w) /\ loop' # "idle"
    BY <2>1, <2>2 DEF Handled, Queued
  <2>4. removing \in Timers
    BY <1>0, <2>2
  <2>5. CASE removing = w
    <3>1. Contains(list, w)
      BY <1>4, TailDrops DEF TimerInv, Lists, Chosen, DoActivate, Skip, DiskNotReady, DiskFull, Prepare,
         PrepareFails, PrepareRefused, PassStart, ZapRefused, StartRecording, StartFails, End, Starts,
         Activated, Activates, FirstIsDue
    <3>2. LeavesSoon(entry[w])
      BY <2>2, <2>5, <3>1 DEF Leaving
    <3>3. LeavesSoon(entry'[w])
      BY <1>4, <2>2, <2>5, <3>2, LeavingActivates
    <3> QED BY <2>2, <2>3, <2>4, <2>5, <3>3 DEF LeavesSoon
  <2>6. CASE removing # w
    <3>1. Contains(list, removing)
      BY <2>2, <2>3, <2>4, <2>6 DEF Relisted
    <3>2. LeavesSoon(entry[removing])
      BY <2>2, <3>1 DEF Leaving
    <3>3. ~Contains(processed, removing)
      BY <2>4, <3>1, OneEntry DEF Placed
    <3>4. entry'[removing] = entry[removing]
      BY <2>3, <2>4, <2>6, <3>3 DEF Relisted
    <3> QED BY <2>2, <2>3, <2>4, <3>2, <3>4 DEF LeavesSoon
  <2> QED BY <2>5, <2>6
<1>5. CASE TimerFires \/ Tick \/ Removed \/ Cleanup \/ \E t \in 0 .. MaxTime : SetClock(t)
  <2>1. removing' = NoTimer
    BY <1>5 DEF TimerFires, Tick, Removed, Cleanup, Undisturbed, SetClock, Idle
  <2> QED BY <2>1
<1>6. ASSUME NEW e \in Timers,
             \/ \E b \in Begins : Record(e, b) \/ Edit(e, b)
             \/ Disable(e) \/ Enable(e) \/ WriteError(e) \/ GstRecordEnded(e)
      PROVE  removing' = NoTimer
  BY <1>6, StreamKeeps DEF Record, Edit, Disable, Enable, WriteError, Quiet, Undisturbed, Idle
<1>7. ASSUME NEW e \in Timers, RemoveEntry(e) \/ RecordAborted(e)
      PROVE  removing' \in Timers /\ loop' # "idle" /\ LeavesSoon(entry[removing])'
  <2>1. AbortEntry(e) /\ removing' = e /\ now' = now /\ loop = "idle"
    BY <1>7 DEF RemoveEntry, RecordAborted, AbortEntry, clockVars, Idle
  <2>2. loop' # "idle" /\ LeavesSoon(entry'[e])
    BY <2>1, AbortLeaves
  <2> QED BY <2>1, <2>2 DEF LeavesSoon
<1> QED
  BY <1>1, <1>2, <1>3, <1>4, <1>5, <1>6, <1>7 DEF Next, CalcNextActivation, Chosen

(* An entry that is re-evaluated comes into timer_list if it ends later.   *)
LEMMA ReevaluatedEndsLater ==
  ASSUME TimerInv, Reevaluate
  PROVE  /\ loop' = "warp"
         /\ Contains(list', Head(warping)) => entry'[Head(warping)].end > now
<1> DEFINE e == Head(warping)
           w == [entry[e] EXCEPT !.state = Waiting, !.cancelled = FALSE]
           r == TimesSet(w)
           q == ProcessRepeated(r, TRUE)
<1>1. warping \in Seq(Timers) /\ Distinct(warping) /\ warping # <<>>
  BY DEF TimerInv, Lists, Reevaluate
<1>2. e \in Timers /\ Contains(warping, e)
  BY <1>1, TailDrops
<1>3. entry[e] \in Entry /\ ~Contains(list, e) /\ now \in Int
  BY <1>2, OneEntry DEF Placed
<1>4. AddTimerEntry(e, r, list, processed, FALSE) /\ loop = "warp"
  BY DEF Reevaluate
<1> HIDE DEF e
<1>5. ASSUME NEW s \in Waiting .. Ended, NEW c \in BOOLEAN
      PROVE  [entry[e] EXCEPT !.state = s, !.cancelled = c] \in Entry
  BY <1>3 DEF Entry
<1>6. w \in Entry
  BY <1>5, EachState, Zenon
<1>7. w.state = Waiting
  BY <1>3 DEF Entry
<1> HIDE DEF w
<1>8. r \in Entry /\ r.state = Waiting
  BY <1>6, <1>7, TimesSetCarries
<1> HIDE DEF r
<1>9. q \in Entry /\ q.state = Waiting
  BY <1>3, <1>8, RepeatedCarries
<1>10. loop' = "warp"
  BY <1>4 DEF AddTimerEntry
<1>11. CASE ShouldSkip(q) \/ q.state = Ended
  <2>1. list' = list
    BY <1>4, <1>11 DEF AddTimerEntry
  <2> QED BY <1>3, <1>10, <2>1 DEF e
<1>12. CASE ~(ShouldSkip(q) \/ q.state = Ended)
  <2>1. entry' = [entry EXCEPT ![e] = q]
    BY <1>4, <1>12 DEF AddTimerEntry
  <2> HIDE DEF q
  <2>2. entry'[e] = q
    BY <1>2, <2>1 DEF TimerInv, Typed, e
  <2>3. q.end > now
    BY <1>3, <1>9, <1>12 DEF ShouldSkip, Entry
  <2> QED BY <1>10, <2>2, <2>3 DEF e
<1> QED BY <1>11, <1>12

(* A repeated entry that is moved stays disabled.                          *)
LEMMA RepeatedFlags ==
  ASSUME NEW r \in Entry, now \in Int, NEW b \in BOOLEAN
  PROVE  ProcessRepeated(r, b).disabled = r.disabled /\ ProcessRepeated(r, b).repeats = r.repeats
<1> DEFINE shift == Day * DaysAhead(IF b THEN r.end ELSE r.begin)
<1>1. shift \in Int
  BY DaysAheadType DEF Entry
<1> HIDE DEF shift
<1>2. ProcessRepeated(r, b) = IF ~r.repeats THEN r
        ELSE TimesSet([r EXCEPT !.begin = @ + shift, !.end = @ + shift])
  BY DEF ProcessRepeated, shift
<1> QED BY <1>2 DEF TimesSet, Entry

(* doActivate() of an entry that ends later: it is put back, or aside.     *)
LEMMA AheadActivates ==
  ASSUME TimerInv, NEW w \in Timers, Ahead(entry[w]), Chosen(w)
  PROVE  loop' = loop /\ (Contains(list', w) => Ahead(entry'[w]))
<1> DEFINE o == entry[w]
<1>1. o \in Entry /\ now \in Int /\ o.end \in Int
  BY OneEntry DEF Entry
<1>2. NextActivation(o) <= now
  BY DEF Chosen, DoActivate, Skip, DiskNotReady, DiskFull, Prepare, PrepareFails, PrepareRefused,
         PassStart, ZapRefused, StartRecording, StartFails, End, Starts, Activated, Activates, FirstIsDue
<1>3. o.end > now
  <2>1. NextActivation(o) \in Int
    BY <1>1, ActivationType
  <2> QED BY <1>1, <1>2, <2>1 DEF Ahead
<1> HIDE DEF o
<1>4. ASSUME NEW r, Settle(w, r), r.state < Ended, r.state # Ended, r.end > now
      PROVE  loop' = loop /\ (Contains(list', w) => Ahead(entry'[w]))
  <2>1. entry' = [entry EXCEPT ![w] = r] /\ loop' = loop
    BY <1>4, Zenon DEF Settle
  <2>2. entry'[w] = r
    BY <2>1 DEF TimerInv, Typed
  <2> QED BY <1>4, <2>1, <2>2 DEF Ahead
<1>5. CASE Skip(w, entry[w])
  <2>1. o.disabled
    BY <1>1, <1>3, <1>5 DEF Skip, ShouldSkip, o
  <2> DEFINE r == [o EXCEPT !.state = Ended]
             q == ProcessRepeated(r, TRUE)
             v == [q EXCEPT !.state = Waiting]
  <2>2. Settle(w, r)
    BY <1>1, <1>3, <1>5 DEF Skip, SkipChecked, o
  <2>3. r \in Entry /\ r.state = Ended /\ r.disabled
    BY <1>1, <2>1, StateType, EachState
  <2> HIDE DEF r
  <2>4. CASE ~r.repeats
    BY <2>2, <2>3, <2>4, SettledForGood
  <2>5. CASE r.repeats
    <3>1. AddTimerEntry(w, v, RemoveFirst(list, w), processed, TRUE)
      <4>1. ~(r.state < Ended)
        BY <2>3 DEF Ended
      <4> QED BY <2>2, <2>3, <2>5, <4>1, Zenon DEF Settle
    <3>2. q \in Entry /\ q.disabled
      <4>1. q \in Entry
        BY <1>1, <2>3, RepeatedCarries
      <4>2. q.disabled = r.disabled
        BY <1>1, <2>3, RepeatedFlags
      <4> QED BY <2>3, <4>1, <4>2
    <3> HIDE DEF q
    <3>3. v \in Entry /\ v.disabled
      BY <3>2, StateType, EachState
    <3> HIDE DEF v
    <3>4. ProcessRepeated(v, TRUE).disabled
      BY <3>3, RepeatedFlags DEF TimerInv, Typed
    <3>5. list' = RemoveFirst(list, w) /\ loop' = loop
      BY <3>1, <3>4 DEF AddTimerEntry, ShouldSkip
    <3>6. ~Contains(list', w)
      BY <3>5, RemoveFirstTakes DEF TimerInv, Lists
    <3> QED BY <3>5, <3>6
  <2> QED BY <2>4, <2>5
<1>6. CASE DiskNotReady(w, entry[w])
  <2> DEFINE r == [o EXCEPT !.retries = @ + 1, !.prep = now + RetryDelay]
  <2>1. Settle(w, r) /\ o.state = Waiting
    BY <1>6 DEF DiskNotReady, Activated, o
  <2>2. r.state = o.state /\ r.end = o.end
    BY <1>1 DEF Entry
  <2> HIDE DEF r
  <2> QED BY <1>3, <1>4, <2>1, <2>2 DEF Waiting, Ended
<1>7. CASE DiskFull(w, entry[w])
  <2> DEFINE r == [GivenUp(o) EXCEPT !.state = Prepared]
  <2>1. Settle(w, r)
    BY <1>7 DEF DiskFull, o
  <2>2. r.state = Prepared /\ r.end = now + RetryDelay
    BY <1>1 DEF GivenUp, Entry
  <2>3. now + RetryDelay > now
    BY <1>1, RecordTimerAssumption
  <2> HIDE DEF r
  <2> QED BY <1>4, <2>1, <2>2, <2>3 DEF Prepared, Ended
<1>8. CASE Prepare(w, entry[w])
  <2> DEFINE p == [o EXCEPT !.state = Prepared, !.backoff = 0]
             r == [p EXCEPT !.retries = 0, !.recorder = "ready"]
  <2>1. Settle(w, p) \/ Settle(w, r)
    BY <1>8 DEF Prepare, o
  <2>2. p.state = Prepared /\ p.end = o.end /\ r.state = Prepared /\ r.end = o.end
    BY <1>1 DEF Entry
  <2> HIDE DEF p, r
  <2> QED BY <1>3, <1>4, <2>1, <2>2 DEF Prepared, Ended
<1>9. CASE PrepareFails(w, entry[w])
  <2> DEFINE r == [o EXCEPT !.retries = 0, !.recorder = "none",
                     !.backoff = NextBackoff(o), !.prep = now + NextBackoff(o)]
  <2>1. Settle(w, r) /\ o.state = Waiting
    BY <1>9 DEF PrepareFails, Activated, o
  <2>2. r.state = o.state /\ r.end = o.end
    BY <1>1 DEF Entry
  <2> HIDE DEF r
  <2> QED BY <1>3, <1>4, <2>1, <2>2 DEF Waiting, Ended
<1>10. CASE PrepareRefused(w, entry[w])
  <2> DEFINE r == [o EXCEPT !.retries = 0, !.recorder = "none"]
  <2>1. Settle(w, r) /\ o.state = Waiting
    BY <1>10 DEF PrepareRefused, Activated, o
  <2>2. r.state = o.state /\ r.end = o.end
    BY <1>1 DEF Entry
  <2> HIDE DEF r
  <2> QED BY <1>3, <1>4, <2>1, <2>2 DEF Waiting, Ended
<1>11. CASE PassStart(w, entry[w])
  <2> DEFINE r == [o EXCEPT !.state = Running]
  <2>1. Settle(w, r)
    BY <1>11 DEF PassStart, o
  <2>2. r.state = Running /\ r.end = o.end
    BY <1>1 DEF Entry
  <2> HIDE DEF r
  <2> QED BY <1>3, <1>4, <2>1, <2>2 DEF Running, Ended
<1>15. CASE ZapRefused(w, entry[w])
  <2>1. Settle(w, o) /\ o.state = Prepared
    BY <1>15 DEF ZapRefused, Activated, o
  <2> QED BY <1>3, <1>4, <2>1 DEF Prepared, Ended
<1>12. CASE StartRecording(w, entry[w])
  <2> DEFINE r == [o EXCEPT !.state = Running, !.recorder = "recording"]
  <2>1. Settle(w, r)
    BY <1>12 DEF StartRecording, o
  <2>2. r.state = Running /\ r.end = o.end
    BY <1>1 DEF Entry
  <2> HIDE DEF r
  <2> QED BY <1>3, <1>4, <2>1, <2>2 DEF Running, Ended
<1>13. CASE StartFails(w, entry[w])
  <2> DEFINE r == [o EXCEPT !.backoff = NextBackoff(o), !.begin = now + NextBackoff(o)]
  <2>1. Settle(w, r) /\ o.state = Prepared
    BY <1>13 DEF StartFails, Starts, Activated, o
  <2>2. r.state = o.state /\ r.end = o.end
    BY <1>1 DEF Entry
  <2> HIDE DEF r
  <2> QED BY <1>3, <1>4, <2>1, <2>2 DEF Prepared, Ended
<1>14. CASE End(w, entry[w])
  <2>1. NextActivation(o) = o.end
    BY <1>14 DEF End, Activated, NextActivation, Waiting, Prepared, Running, o
  <2> QED BY <1>1, <1>2, <1>3, <2>1
<1> QED
  BY <1>5, <1>6, <1>7, <1>8, <1>9, <1>10, <1>11, <1>12, <1>13, <1>14, <1>15
     DEF Chosen, DoActivate

LEMMA OnwardStep ==
  ASSUME TimerInv, Punctual, Leaving, Onward, [Next]_vars, Undamaged
  PROVE  Onward'
<1>0. /\ removing \in Timers \cup {NoTimer} /\ NoTimer \notin Timers
      /\ now \in Int /\ last \in Int
  BY RecordTimerAssumption DEF TimerInv, Bounded
<1>1. CASE Calc \/ Reevaluated \/ SetNextActivation \/ UNCHANGED vars
  <2>1. UNCHANGED <<removing, list, entry, now>>
    BY <1>1 DEF Calc, Reevaluated, SetNextActivation, vars, clockVars, listVars
  <2>2. \/ loop' = "idle"
        \/ /\ last' = last
           /\ \/ loop = "calc" /\ loop' = (IF last > now THEN "warp" ELSE "processing")
              \/ loop = "warp" /\ loop' = "processing"
              \/ loop' = loop
    BY <1>1 DEF Calc, Reevaluated, SetNextActivation, vars, clockVars
  <2> QED BY <2>1, <2>2 DEF Onward, Ahead
<1>2. CASE Reevaluate
  <2> DEFINE e == Head(warping)
  <2>1. /\ Relisted(e) /\ e \in Timers /\ Contains(warping, e)
        /\ UNCHANGED <<removing, now, last>> /\ loop = "warp"
    BY <1>2, ReevaluateStep, TailDrops DEF Handled, Reevaluate, clockVars, TimerInv, Lists
  <2>2. loop' = "warp" /\ (Contains(list', e) => entry'[e].end > now)
    BY <1>2, ReevaluatedEndsLater
  <2> HIDE DEF e
  <2> SUFFICES ASSUME removing # NoTimer, last > now
               PROVE  /\ Contains(list', removing)
                      /\ \A x \in Timers : Contains(list', x) /\ x # removing => Ahead(entry'[x])
    BY <2>1, <2>2 DEF Onward, Ahead
  <2>3. Contains(list, removing) /\ removing \in Timers
    BY <1>0, <2>1 DEF Onward
  <2>4. removing # e
    BY <2>1, <2>3, OneEntry DEF Placed
  <2>5. ASSUME NEW x \in Timers, Contains(list', x), x # removing PROVE Ahead(entry'[x])
    <3>1. CASE x = e
      BY <2>2, <2>5, <3>1 DEF Ahead
    <3>2. CASE x # e
      <4>1. Contains(list, x) /\ ~Contains(processed, x)
        BY <2>1, <2>5, <3>2, OneEntry DEF Relisted, Placed
      <4>2. entry'[x] = entry[x]
        BY <2>1, <3>2, <4>1 DEF Relisted
      <4> QED BY <2>1, <2>5, <4>1, <4>2 DEF Onward
    <3> QED BY <3>1, <3>2
  <2> QED BY <2>1, <2>3, <2>4, <2>5 DEF Relisted
<1>3. ASSUME NEW w \in Timers, Chosen(w)
      PROVE  Onward'
  <2>1. Handled(w)
    BY <1>3, ActivateStep
  <2>2. UNCHANGED <<removing, now, last>> /\ loop = "processing"
    BY <1>3 DEF Chosen, DoActivate, Skip, DiskNotReady, DiskFull, Prepare, PrepareFails, PrepareRefused,
         PassStart, ZapRefused, StartRecording, StartFails, End, Starts, Activated, Activates, Quiet, clockVars
  <2>3. Relisted(w) /\ loop' \in {"processing", "calc"}
    BY <2>1, <2>2 DEF Handled, Queued
  <2> SUFFICES ASSUME removing # NoTimer, last > now
               PROVE  /\ loop' = "processing"
                      /\ \A x \in Timers : Contains(list', x) /\ x # removing => Ahead(entry'[x])
    BY <2>2, <2>3 DEF Onward, Ahead
  <2>4. Contains(list, w)
    BY <1>3, TailDrops DEF TimerInv, Lists, Chosen, DoActivate, Skip, DiskNotReady, DiskFull, Prepare,
       PrepareFails, PrepareRefused, PassStart, ZapRefused, StartRecording, StartFails, End, Starts,
       Activated, Activates, FirstIsDue
  <2>5. loop' = loop /\ (w # removing /\ Contains(list', w) => Ahead(entry'[w]))
    <3>1. CASE w = removing
      <4>1. LeavesSoon(entry[w])
        BY <2>4, <3>1 DEF Leaving
      <4> QED BY <1>3, <3>1, <4>1, LeavingActivates
    <3>2. CASE w # removing
      <4>1. Ahead(entry[w])
        BY <2>2, <2>4, <3>2 DEF Onward
      <4> QED BY <1>3, <4>1, AheadActivates
    <3> QED BY <3>1, <3>2
  <2>6. ASSUME NEW x \in Timers, x # w, x # removing, Contains(list', x) PROVE Ahead(entry'[x])
    <3>1. Contains(list, x) /\ ~Contains(processed, x)
      BY <2>3, <2>6, OneEntry DEF Relisted, Placed
    <3>2. entry'[x] = entry[x]
      BY <2>3, <2>6, <3>1 DEF Relisted
    <3> QED BY <2>2, <2>6, <3>1, <3>2 DEF Onward
  <2> QED BY <2>2, <2>5, <2>6
<1>4. CASE TimerFires \/ Tick \/ Removed \/ Cleanup \/ \E t \in 0 .. MaxTime : SetClock(t)
  <2>1. removing' = NoTimer /\ loop' # "warp"
    BY <1>4 DEF TimerFires, Tick, Removed, Cleanup, Undisturbed, SetClock, Idle
  <2> QED BY <2>1 DEF Onward
<1>5. ASSUME NEW e \in Timers,
             \/ \E b \in Begins : Record(e, b) \/ Edit(e, b)
             \/ Disable(e) \/ Enable(e) \/ WriteError(e) \/ GstRecordEnded(e)
      PROVE  Onward'
  <2>1. removing' = NoTimer /\ loop = "idle"
    BY <1>5, StreamKeeps DEF Record, Edit, Disable, Enable, WriteError, Quiet, Undisturbed, Idle
  <2>2. Handled(e) \/ InPlace(e)
    BY <1>5, RecordStep, EditStep, DisableStep, WriteErrorStep, GstRecordEndedStep
  <2>3. loop' # "warp"
    BY <2>1, <2>2 DEF Handled, Queued, InPlace
  <2> QED BY <2>1, <2>3 DEF Onward
<1>6. ASSUME NEW e \in Timers, RemoveEntry(e) \/ RecordAborted(e)
      PROVE  Onward'
  <2>1. /\ AbortEntry(e) /\ removing' = e /\ UNCHANGED <<now, last>> /\ loop = "idle"
        /\ Known(e) \/ entry[e].recorder # "none"
    BY <1>6 DEF RemoveEntry, RecordAborted, AbortEntry, clockVars, Idle
  <2>2. loop' \in {"idle", "calc"} /\ (loop' = "calc" => Contains(list', e))
    BY <2>1, AbortLeaves
  <2>3. Handled(e) \/ (InPlace(e) /\ ~Contains(list, e))
    BY <2>1, AbortStep
  <2> SUFFICES ASSUME last > now, loop' = "calc", NEW x \in Timers, Contains(list', x), x # e
               PROVE  Ahead(entry'[x])
    BY <2>1, <2>2 DEF Onward, Ahead
  <2>4. Relisted(e)
    BY <2>1, <2>3 DEF Handled, InPlace
  <2>5. Contains(list, x) /\ ~Contains(processed, x)
    BY <2>4, OneEntry DEF Relisted, Placed
  <2>6. entry'[x] = entry[x] /\ entry[x] \in Entry
    BY <2>4, <2>5, OneEntry DEF Relisted
  <2>7. NextActivation(entry[x]) > last /\ NextActivation(entry[x]) \in Int
    BY <2>1, <2>5, <2>6, ActivationType DEF Punctual
  <2> QED BY <1>0, <2>6, <2>7 DEF Ahead
<1> QED
  BY <1>1, <1>2, <1>3, <1>4, <1>5, <1>6 DEF Next, CalcNextActivation, Chosen

LEMMA LeavingAlways ==
  ASSUME Undamaged, Steady
  PROVE  Spec => []Leaving
<1>1. TimerInv /\ (Punctual /\ Onward /\ Leaving) /\ [Next]_vars => (Punctual /\ Onward /\ Leaving)'
  <2> SUFFICES ASSUME TimerInv, Punctual, Onward, Leaving, [Next]_vars
               PROVE  (Punctual /\ Onward /\ Leaving)'
    OBVIOUS
  <2>1. Punctual'
    BY Undamaged, PunctualStep
  <2>2. Onward'
    BY Undamaged, OnwardStep
  <2>3. Leaving'
    BY LeavingStep DEF Punctual
  <2> QED BY <2>1, <2>2, <2>3
<1>2. Init => Onward /\ Leaving
  BY DEF Init, Onward, Leaving
<1> QED
  BY <1>1, <1>2, Steady, TimerAlways, OnTimeInit, PTL DEF Spec

(* Only the end of removeEntry() takes the entry it was about.             *)
LEMMA OnlyRemovedEnds ==
  ASSUME TimerInv, [Next]_vars, removing # NoTimer, removing' = NoTimer
  PROVE  Removed
<1>1. ~(Calc \/ Reevaluate \/ Reevaluated \/ SetNextActivation \/ UNCHANGED vars)
  BY DEF Calc, Reevaluate, Reevaluated, SetNextActivation, vars
<1>2. ASSUME NEW w \in Timers, Chosen(w) PROVE FALSE
  BY <1>2 DEF Chosen, DoActivate, Skip, DiskNotReady, DiskFull, Prepare, PrepareFails, PrepareRefused,
         PassStart, ZapRefused, StartRecording, StartFails, End, Quiet
<1>3. ~(TimerFires \/ Tick \/ Cleanup \/ \E t \in 0 .. MaxTime : SetClock(t))
  BY DEF TimerFires, Tick, Cleanup, SetClock, Idle
<1>4. ASSUME NEW e \in Timers,
             \/ \E b \in Begins : Record(e, b) \/ Edit(e, b)
             \/ Disable(e) \/ Enable(e) \/ WriteError(e) \/ GstRecordEnded(e)
      PROVE  FALSE
  BY <1>4 DEF Record, Edit, Disable, Enable, WriteError, GstRecordEnded, Idle
<1>5. ASSUME NEW e \in Timers, RemoveEntry(e) \/ RecordAborted(e) PROVE FALSE
  BY <1>5 DEF RemoveEntry, RecordAborted, Idle
<1> QED
  BY <1>1, <1>2, <1>3, <1>4, <1>5 DEF Next, CalcNextActivation, Chosen

(* An entry that is removed has left timer_list when its abort returns     *)
(* (RecordTimer.py:1463): it is cancelled and due, and everything due is   *)
(* processed first.                                                        *)
THEOREM RemovedIsAway ==
  ASSUME Undamaged, Steady
  PROVE  Spec => []RemovedIsInactive
<1>1. Leaving => RemovedIsInactive
  BY DEF Leaving, RemovedIsInactive
<1> QED
  BY <1>1, LeavingAlways, Undamaged, Steady, PTL

(* What is removed leaves no recorder behind (RecordTimer.py:1447): it has *)
(* ended, and while nobody disables an entry only an active one has one.   *)
THEOREM RemovedHasStopped ==
  ASSUME Enabled, Undamaged
  PROVE  Spec => RemovedIsStopped
<1>1. ASSUME TimerInv, Leaving, [Next]_vars
      PROVE  removing # NoTimer /\ removing' = NoTimer => live[removing] = 0
  <2> SUFFICES ASSUME removing # NoTimer, removing' = NoTimer PROVE live[removing] = 0
    OBVIOUS
  <2>1. loop = "idle"
    BY <1>1, OnlyRemovedEnds DEF Removed
  <2>2. removing \in Timers /\ ~Contains(list, removing)
    BY <1>1, <2>1 DEF TimerInv, Bounded, Leaving
  <2>3. Owning(entry[removing], live[removing])
    BY <1>1, <2>2, OneEntry, Enabled DEF Sound
  <2>4. entry[removing].recorder = "none"
    BY <1>1, <2>2, <2>3, KnownOrNot DEF Owning, Prepared, Running, Ended
  <2> QED BY <2>3, <2>4 DEF Owning
<1>2. TimerInv /\ Leaving /\ [Next]_vars
        => [removing # NoTimer /\ removing' = NoTimer => live[removing] = 0]_vars
  BY <1>1
<1>3. Steady
  BY Enabled DEF Steady
<1> QED
  BY <1>2, <1>3, TimerAlways, LeavingAlways, Undamaged, PTL
     DEF Spec, RemovedIsStopped

-----------------------------------------------------------------------------
(* The file *)

Places(e) == Contains(list, e) \/ Contains(processed, e) \/ Contains(warping, e)

(* A file holds a timer once, and none disabled if nobody disables one; it *)
(* repeats only if it was made to.                                         *)
Filed(f) ==
  /\ f \in Seq(Stored)
  /\ \A i, j \in DOMAIN f : i # j => f[i].timer # f[j].timer
  /\ \A i \in DOMAIN f : /\ Enabled => ~f[i].disabled
                         /\ f[i].repeats => f[i].timer \in Repeated

(* Fields that may be written so. *)
Writable(f) ==
  /\ f \in [Timers -> Entry]
  /\ \A x \in Timers : (Enabled => ~f[x].disabled) /\ (f[x].repeats => x \in Repeated)

StoreTyped ==
  /\ phase \in {"up", "loading"} /\ Filed(file) /\ Filed(toLoad)
  /\ saving \in BOOLEAN /\ stale \in BOOLEAN /\ gone \subseteq Timers /\ dropped \subseteq Timers
  /\ crashes \in 0 .. MaxCrashes /\ saveErrors \in 0 .. MaxSaveErrors
  /\ phase = "up" => toLoad = <<>>

(* What has still to be loaded is as it is before record(). *)
Unloaded(e) == In(e, toLoad) => entry[e] = NewEntry(e) /\ ~Contains(list, e)

Safe == ~stale /\ ~saving => \A e \in Timers : Places(e) \/ In(e, toLoad) => In(e, file)

StoreInv == TimerInv /\ StoreTyped /\ (\A e \in Timers : Unloaded(e)) /\ Safe

LEMMA UnloadedIsNowhere ==
  ASSUME TimerInv, NEW e \in Timers, Unloaded(e), In(e, toLoad)
  PROVE  ~Places(e) /\ entry[e] = NewEntry(e)
<1>1. entry[e] = NewEntry(e) /\ ~Contains(list, e) /\ Placed(e)
  BY OneEntry DEF Unloaded
<1>2. NewEntry(e).state # Ended
  BY DEF NewEntry, Waiting, Ended
<1> QED BY <1>1, <1>2 DEF Placed, Places

(* What a handler does to x, if x is not the entry it is about: x stays    *)
(* where it was, unless it is old, and what was in no list stays as it is. *)
Settled(x) ==
  /\ Places(x) => Places(x)' \/ ~Kept(entry'[x])
  /\ ~Places(x) => ~Places(x)' /\ entry'[x] = entry[x]

LEMMA HandledPlaces ==
  ASSUME TimerInv, NEW e \in Timers, Handled(e), Places(e),
         \A x \in Timers : /\ Contains(warping', x) => Contains(warping, x)
                           /\ Contains(warping, x) => Contains(warping', x) \/ x = e
  PROVE  \A x \in Timers : Settled(x)
<1>1. Relisted(e)
  BY DEF Handled
<1>2. ASSUME NEW x \in Timers PROVE Settled(x)
  <2>1. CASE x = e
    BY <1>1, <2>1 DEF Relisted, Places, Settled
  <2>2. CASE x # e
    BY <1>1, <2>2 DEF Relisted, Places, Settled
  <2> QED BY <2>1, <2>2
<1> QED BY <1>2

LEMMA CalcPlaces ==
  ASSUME TimerInv, CalcNextActivation
  PROVE  \A x \in Timers : Settled(x)
<1>1. CASE Calc
  <2>1. UNCHANGED <<list, entry>> /\ \/ warping' = processed /\ processed' = <<>>
                                     \/ warping' = warping /\ processed' = processed
    BY <1>1 DEF Calc
  <2>2. (\A x : ~Contains(<<>>, x)) /\ \A x \in Timers : ~Contains(warping, x)
    BY <1>1, IdleLists DEF Contains, Calc
  <2> QED BY <2>1, <2>2 DEF Places, Settled
<1>2. CASE Reevaluate
  <2>1. Head(warping) \in Timers /\ Handled(Head(warping))
    BY <1>2, ReevaluateStep
  <2>2. /\ Contains(warping, Head(warping))
        /\ \A x : Contains(warping', x) <=> Contains(warping, x) /\ x # Head(warping)
    BY <1>2, TailDrops DEF Reevaluate, TimerInv, Lists
  <2> QED BY <2>1, <2>2, HandledPlaces DEF Places
<1>3. CASE Reevaluated \/ SetNextActivation
  BY <1>3 DEF Reevaluated, SetNextActivation, listVars, Places, Settled
<1>4. ASSUME NEW w \in Timers, Chosen(w)
      PROVE  \A x \in Timers : Settled(x)
  <2>1. Handled(w)
    BY <1>4, ActivateStep
  <2>2. loop = "processing" /\ list # <<>> /\ w = Head(list) /\ warping' = warping
    BY <1>4 DEF Chosen, DoActivate, Skip, DiskNotReady, DiskFull, Prepare, PrepareFails, PrepareRefused,
         PassStart, ZapRefused, StartRecording, StartFails, End, Starts, Activated, Activates, FirstIsDue, Quiet
  <2>3. Places(w)
    BY <2>2, TailDrops DEF TimerInv, Lists, Places
  <2> QED BY <2>1, <2>2, <2>3, HandledPlaces
<1> QED BY <1>1, <1>2, <1>3, <1>4 DEF CalcNextActivation, Chosen

(* In an idle loop the entries are in timer_list and processed_timers. *)
LEMMA IdlePlaces ==
  ASSUME TimerInv, loop # "warp"
  PROVE  \A x \in Timers : Places(x) <=> Contains(list, x) \/ Contains(processed, x)
BY IdleLists DEF Places

(* saveTimer(): the file holds the entries of the lists, or is the old one *)
(* and that is known.                                                      *)
LEMMA WriteFiles ==
  ASSUME TimerInv, StoreTyped, NEW l \in Seq(Timers), NEW p \in Seq(Timers),
         Distinct(l), Distinct(p), \A x \in Timers : ~(Contains(l, x) /\ Contains(p, x)),
         NEW f, Writable(f), Write(l, p, f)
  PROVE  /\ Filed(file') /\ stale' \in BOOLEAN /\ saveErrors' \in 0 .. MaxSaveErrors
         /\ ~stale' => \A x \in Timers : In(x, file') <=> Contains(l, x) \/ Contains(p, x)
         /\ stale' => file' = file
<1> DEFINE s == l \o p
           g == [i \in DOMAIN s |-> [timer |-> s[i], begin |-> f[s[i]].begin, end |-> f[s[i]].end,
                                     disabled |-> f[s[i]].disabled, repeats |-> f[s[i]].repeats]]
<1>1. /\ s \in Seq(Timers) /\ Distinct(s)
      /\ \A x : Contains(s, x) <=> Contains(l, x) \/ Contains(p, x)
  BY ConcatenationPuts
<1>2. \/ file' = g /\ stale' = FALSE /\ saveErrors' = saveErrors
      \/ saveErrors < MaxSaveErrors /\ saveErrors' = saveErrors + 1 /\ stale' = TRUE /\ file' = file
  BY DEF Write
<1>3. CASE file' = g /\ stale' = FALSE /\ saveErrors' = saveErrors
  <2> HIDE DEF s
  <2>1. DOMAIN s = 1 .. Len(s) /\ Len(s) \in Nat
    BY <1>1, LenProperties
  <2>2. ASSUME NEW i \in 1 .. Len(s)
        PROVE  /\ g[i] \in Stored /\ g[i].timer = s[i] /\ g[i].disabled = f[s[i]].disabled
               /\ g[i].repeats = f[s[i]].repeats /\ s[i] \in Timers
    <3>1. s[i] \in Timers
      BY <1>1, ElementOfSeq
    <3>2. f[s[i]] \in Entry
      BY <3>1 DEF Writable
    <3>3. f[s[i]].begin \in Int /\ f[s[i]].end \in Int /\ f[s[i]].disabled \in BOOLEAN
          /\ f[s[i]].repeats \in BOOLEAN
      BY <3>2 DEF Entry
    <3>4. g[i] = [timer |-> s[i], begin |-> f[s[i]].begin, end |-> f[s[i]].end,
                  disabled |-> f[s[i]].disabled, repeats |-> f[s[i]].repeats]
      BY <2>1
    <3> QED BY <3>1, <3>3, <3>4 DEF Stored
  <2>3. DOMAIN g = 1 .. Len(s)
    BY <2>1
  <2>4. g \in [1 .. Len(s) -> Stored]
    BY <2>1, <2>2
  <2> HIDE DEF g
  <2>5. g \in Seq(Stored)
    BY <2>1, <2>4, SeqDef
  <2>6. Filed(g)
    <3>1. ASSUME NEW i \in DOMAIN g, NEW j \in DOMAIN g, i # j PROVE g[i].timer # g[j].timer
      BY <1>1, <2>2, <2>3, <3>1 DEF Distinct
    <3>2. ASSUME NEW i \in DOMAIN g
          PROVE  (Enabled => ~g[i].disabled) /\ (g[i].repeats => g[i].timer \in Repeated)
      BY <2>2, <2>3 DEF Writable
    <3> QED BY <2>5, <3>1, <3>2 DEF Filed
  <2>7. \A x \in Timers : In(x, g) <=> Contains(s, x)
    BY <2>2, <2>3 DEF In, Contains
  <2> QED BY <1>1, <1>3, <2>6, <2>7 DEF StoreTyped
<1>4. CASE /\ saveErrors < MaxSaveErrors /\ saveErrors' = saveErrors + 1
           /\ stale' = TRUE /\ file' = file
  <2>1. saveErrors' \in 0 .. MaxSaveErrors
    BY <1>4, StoreAssumption DEF StoreTyped
  <2> QED BY <1>4, <2>1 DEF StoreTyped
<1> QED BY <1>2, <1>3, <1>4

(* What is in the lists, with the fields of one entry as they are written. *)
LEMMA ListsAreFiled ==
  ASSUME TimerInv
  PROVE  /\ list \in Seq(Timers) /\ processed \in Seq(Timers)
         /\ Distinct(list) /\ Distinct(processed)
         /\ \A x \in Timers : ~(Contains(list, x) /\ Contains(processed, x))
         /\ Writable(entry)
<1>1. ASSUME NEW x \in Timers
      PROVE  (Enabled => ~entry[x].disabled) /\ (entry[x].repeats => x \in Repeated)
  BY OneEntry DEF Sound, Owning, Lasting
<1> QED BY <1>1, OneEntry DEF TimerInv, Lists, Placed, Typed, Writable

LEMMA FieldsAreFiled ==
  ASSUME TimerInv, NEW e \in Timers, NEW r \in Entry, r.disabled => entry[e].disabled,
         r.repeats => entry[e].repeats
  PROVE  Writable([entry EXCEPT ![e] = r])
BY ListsAreFiled DEF Writable

(* loadTimer() takes the first of what is left. *)
LEMMA TailFiled ==
  ASSUME NEW f, Filed(f), f # <<>>
  PROVE  /\ Filed(Tail(f)) /\ Head(f) \in Stored /\ In(Head(f).timer, f)
         /\ Enabled => ~Head(f).disabled
         /\ Head(f).repeats => Head(f).timer \in Repeated
         /\ \A x : In(x, Tail(f)) <=> In(x, f) /\ x # Head(f).timer
<1> DEFINE t == Tail(f)
<1>1. f \in Seq(Stored)
  BY DEF Filed
<1>2. /\ t \in Seq(Stored) /\ Len(f) \in Nat \ {0} /\ Len(t) = Len(f) - 1
      /\ \A i \in 1 .. Len(t) : t[i] = f[i + 1]
      /\ Head(f) = f[1]
  BY <1>1, HeadTailProperties, LenProperties, EmptySeq
<1>3. DOMAIN f = 1 .. Len(f) /\ DOMAIN t = 1 .. Len(t)
  BY <1>1, <1>2, LenProperties
<1>4. f[1] \in Stored
  BY <1>1, <1>2, ElementOfSeq
<1> HIDE DEF t
<1>5. \A i \in 1 .. Len(t) : i + 1 \in 1 .. Len(f) /\ i + 1 # 1
  BY <1>2
<1>6. Filed(t)
  <2>1. ASSUME NEW i \in 1 .. Len(t), NEW j \in 1 .. Len(t), i # j PROVE t[i].timer # t[j].timer
    <3>1. i + 1 # j + 1 /\ i + 1 \in 1 .. Len(f) /\ j + 1 \in 1 .. Len(f)
      BY <1>5, <2>1
    <3>2. f[i + 1].timer # f[j + 1].timer
      BY <1>3, <3>1 DEF Filed
    <3> QED BY <1>2, <3>2
  <2>2. ASSUME NEW i \in 1 .. Len(t)
        PROVE  (Enabled => ~t[i].disabled) /\ (t[i].repeats => t[i].timer \in Repeated)
    <3>1. /\ Enabled => ~f[i + 1].disabled
          /\ f[i + 1].repeats => f[i + 1].timer \in Repeated
      BY <1>3, <1>5, <2>2 DEF Filed
    <3> QED BY <1>2, <3>1
  <2> QED BY <1>2, <1>3, <2>1, <2>2 DEF Filed
<1>7. ASSUME NEW x PROVE In(x, t) <=> In(x, f) /\ x # f[1].timer
  <2>1. ASSUME NEW i \in 1 .. Len(t), t[i].timer = x PROVE In(x, f) /\ x # f[1].timer
    <3>1. f[i + 1].timer = x /\ i + 1 \in 1 .. Len(f) /\ i + 1 # 1 /\ 1 \in 1 .. Len(f)
      BY <1>2, <1>5, <2>1
    <3> QED BY <1>3, <3>1 DEF In, Filed
  <2>2. ASSUME NEW i \in 1 .. Len(f), f[i].timer = x, x # f[1].timer PROVE In(x, t)
    <3>1. i # 1
      BY <2>2
    <3>2. i - 1 \in 1 .. Len(t) /\ (i - 1) + 1 = i
      BY <1>2, <3>1
    <3>3. t[i - 1] = f[i]
      BY <1>2, <3>2
    <3> QED BY <1>3, <2>2, <3>2, <3>3 DEF In
  <2> QED BY <1>3, <2>1, <2>2 DEF In
<1>8. /\ In(f[1].timer, f) /\ (Enabled => ~f[1].disabled)
      /\ f[1].repeats => f[1].timer \in Repeated
  <2>1. 1 \in DOMAIN f
    BY <1>2, <1>3
  <2> QED BY <2>1 DEF In, Filed
<1> QED BY <1>2, <1>4, <1>6, <1>7, <1>8 DEF t

-----------------------------------------------------------------------------
(* The steps of the store, by what they do to the lists and the file: the  *)
(* timers go on and are saved or not; some are removed; a new one is       *)
(* recorded; the program starts; one is loaded, or is dropped as double.   *)

(* The abort of an entry that is in no list goes straight on to            *)
(* removeEntry()'s end; a recorder that was left running may report an     *)
(* error.                                                                  *)
Aborted == loop = "idle" /\ removing # NoTimer
Lost(x) == /\ ~Places(x) /\ ~Places(x)' /\ phase = "up"
           /\ (loop' = "idle" /\ removing' = x) \/ WriteError(x)

Keeping ==
  /\ [Next]_vars
  /\ \A x \in Timers : Settled(x) \/ Lost(x)
  /\ Aborted => UNCHANGED <<loop, removing, file>>
  /\ UNCHANGED <<toLoad, gone, dropped>> /\ StoreTyped'
  /\ \/ UNCHANGED <<file, stale, saving>>
     \/ /\ toLoad = <<>> /\ (stale' => file' = file)
        /\ ~stale' => \A x \in Timers : In(x, file') <=> Places(x)

(* removeEntry() takes out one, cleanup() several. *)
Removing(S) ==
  /\ [Next]_vars /\ loop = "idle" /\ UNCHANGED <<list, entry, warping>>
  /\ StoreTyped' /\ UNCHANGED <<toLoad, dropped>> /\ toLoad = <<>>
  /\ gone' = gone \cup S /\ removing \in S \cup {NoTimer}
  /\ \A x \in S : x = removing \/ ~Contains(list, x)
  /\ \A x \in Timers : Contains(processed', x) <=> Contains(processed, x) /\ x \notin S
  /\ stale' => file' = file
  /\ ~stale' => \A x \in Timers : In(x, file') <=> Contains(list, x) \/ Contains(processed', x)

Recording(e) ==
  /\ e \notin gone \cup dropped /\ \E b \in Begins : Record(e, b)
  /\ saving' = TRUE /\ UNCHANGED <<phase, toLoad, file, stale, gone, dropped>>
  /\ phase = "up" /\ StoreTyped'

Restarting ==
  /\ Start(file') /\ StoreTyped'
  /\ \/ file' = file
     \/ ~Aborted /\ toLoad = <<>> /\ \A x \in Timers : In(x, file') <=> Places(x)

Reading == LoadNext(Head(toLoad))

Adding ==
  LET x == Head(toLoad)
  IN  /\ Reading /\ UNCHANGED dropped
      /\ AddTimerEntry(x.timer, TimesSet(Created(x)), list, processed, TRUE)

Dropping == Reading /\ dropped' = dropped \cup {Head(toLoad).timer} /\ UNCHANGED <<listVars, loop>>

LEMMA SavingStep ==
  ASSUME StoreInv, [Next]_vars, phase = "up", loop # "warp", KeepsPhase, UNCHANGED gone,
         saving' \in BOOLEAN, \A x \in Timers : Settled(x), ~Aborted,
         NEW f, Writable(f), Write(list, processed, f)
  PROVE  Keeping
<1>1. /\ Filed(file') /\ stale' \in BOOLEAN /\ saveErrors' \in 0 .. MaxSaveErrors
      /\ ~stale' => \A x \in Timers : In(x, file') <=> Contains(list, x) \/ Contains(processed, x)
      /\ stale' => file' = file
  BY WriteFiles, ListsAreFiled DEF StoreInv
<1>2. \A x \in Timers : Places(x) <=> Contains(list, x) \/ Contains(processed, x)
  BY IdlePlaces DEF StoreInv
<1>3. /\ toLoad' = toLoad /\ phase' = phase /\ crashes' = crashes /\ gone' = gone
      /\ dropped' = dropped
  BY DEF KeepsPhase
<1>4. StoreTyped' /\ toLoad = <<>>
  BY <1>1, <1>3 DEF StoreInv, StoreTyped, Filed, Enabled
<1> QED BY <1>1, <1>2, <1>3, <1>4 DEF Keeping

LEMMA NotSavingStep ==
  ASSUME StoreInv, [Next]_vars, KeepsPhase, Unwritten, UNCHANGED <<saving, gone>>,
         \A x \in Timers : Settled(x) \/ Lost(x), Aborted => UNCHANGED <<loop, removing>>
  PROVE  Keeping
<1>1. StoreTyped'
  BY DEF StoreInv, StoreTyped, KeepsPhase, Unwritten, Filed, Enabled
<1> QED BY <1>1 DEF Keeping, KeepsPhase, Unwritten

LEMMA CalcIsBusy ==
  ASSUME CalcNextActivation
  PROVE  loop # "idle"
BY DEF CalcNextActivation, Calc, Reevaluate, Reevaluated, SetNextActivation, Chosen, DoActivate, Skip,
       DiskNotReady, DiskFull, Prepare, PrepareFails, PrepareRefused, PassStart, ZapRefused, StartRecording,
       StartFails, End, Starts, Activated, Activates

LEMMA ProcessStep ==
  ASSUME StoreInv, Process
  PROVE  Keeping
<1>1. CalcNextActivation /\ phase = "up" /\ KeepsPhase /\ UNCHANGED <<saving, gone>>
  BY DEF Process
<1>2. [Next]_vars /\ ~Aborted /\ \A x \in Timers : Settled(x)
  <2>1. loop # "idle"
    BY <1>1, CalcIsBusy
  <2> QED BY <1>1, <2>1, CalcPlaces DEF StoreInv, Next, Aborted
<1>3. CASE \E w \in Timers : Ending(w)
  <2>1. PICK w \in Timers : Ending(w)
    BY <1>3
  <2>2. w = Head(list) /\ loop = "processing"
    BY <2>1 DEF Ending, Activates
  <2>3. Write(list, processed, [entry EXCEPT ![w] = Finished(entry[w])])
    BY <1>3, <2>2 DEF Process
  <2>4. entry[w] \in Entry /\ TimerInv
    BY OneEntry DEF StoreInv
  <2>5. /\ Finished(entry[w]) \in Entry /\ Finished(entry[w]).disabled = entry[w].disabled
        /\ Finished(entry[w]).repeats = entry[w].repeats
    BY <2>4, FinishedType
  <2> DEFINE f == [entry EXCEPT ![w] = Finished(entry[w])]
  <2>6. Writable(f)
    BY <2>4, <2>5, FieldsAreFiled
  <2> HIDE DEF f
  <2>7. Write(list, processed, f)
    BY <2>3 DEF f
  <2>8. saving' \in BOOLEAN
    BY <1>1 DEF StoreInv, StoreTyped
  <2> QED BY <1>1, <1>2, <2>2, <2>6, <2>7, <2>8, SavingStep
<1>4. CASE ~\E w \in Timers : Ending(w)
  <2>1. Unwritten
    BY <1>4 DEF Process
  <2> QED BY <1>1, <1>2, <2>1, NotSavingStep
<1> QED BY <1>3, <1>4

LEMMA StreamEndedStep ==
  ASSUME StoreInv, NEW e \in Timers, StreamEnded(e)
  PROVE  Keeping
<1>1. /\ GstRecordEnded(e) /\ phase = "up" /\ KeepsPhase /\ UNCHANGED <<saving, gone>>
      /\ loop = "idle" /\ UNCHANGED warping /\ ~Aborted
  BY StreamKeeps DEF StreamEnded, Up, Aborted, Quiet
<1>2. TimerInv /\ entry[e] \in Entry /\ now \in Int
  BY OneEntry DEF StoreInv
<1>3. Contains(list, e)
  BY <1>1, <1>2, StreamRuns
<1>4. [Next]_vars /\ \A x \in Timers : Settled(x)
  BY <1>1, <1>2, <1>3, GstRecordEndedStep, HandledPlaces DEF Places, Next
<1> DEFINE p == ProcessRepeated(entry[e], FALSE)
           f == [entry EXCEPT ![e] = Finished(p)]
<1>5. p \in Entry /\ Carries(entry[e], p) /\ p.state = entry[e].state
  BY <1>2, RepeatedCarries
<1>6. Activated(p, Running)
  <2>1. StreamOf(e) = [p EXCEPT !.recorder = "over"]
    BY DEF StreamOf
  <2>2. ~ShouldSkip(StreamOf(e)) /\ entry[e].state = Running
    BY <1>1, <1>2, StreamRuns
  <2> HIDE DEF p
  <2> QED BY <1>5, <2>1, <2>2 DEF Activated, ShouldSkip, Entry
<1>7. Write(list, processed, f)
  BY <1>6 DEF StreamEnded
<1> HIDE DEF p
<1>8. /\ Finished(p) \in Entry /\ (Finished(p).disabled => entry[e].disabled)
      /\ (Finished(p).repeats => entry[e].repeats)
  BY <1>5, FinishedType DEF Carries
<1>9. Writable(f)
  BY <1>2, <1>8, FieldsAreFiled
<1> HIDE DEF f
<1>10. saving' \in BOOLEAN /\ loop # "warp"
  BY <1>1 DEF StoreInv, StoreTyped
<1> QED BY <1>1, <1>4, <1>7, <1>9, <1>10, SavingStep

LEMMA UserEditsStep ==
  ASSUME StoreInv, NEW e \in Timers, NEW b \in Begins, UserEdits(e, b)
  PROVE  Keeping
<1>1. /\ Edit(e, b) /\ phase = "up" /\ KeepsPhase /\ UNCHANGED <<saving, gone>>
      /\ loop = "idle" /\ UNCHANGED warping /\ Known(e) /\ ~Aborted
  BY DEF UserEdits, Up, Edit, Idle, Undisturbed, Aborted
<1>2. TimerInv /\ entry[e] \in Entry
  BY OneEntry DEF StoreInv
<1>3. [Next]_vars /\ \A x \in Timers : Settled(x)
  BY <1>1, <1>2, EditStep, HandledPlaces DEF Places, Known, Next
<1> DEFINE begin == IF entry[e].state = Running THEN entry[e].begin ELSE b
           r == [entry[e] EXCEPT !.begin = begin, !.end = b + Length]
           f == [entry EXCEPT ![e] = r]
<1>4. Write(list, processed, f)
  BY DEF UserEdits
<1>5. begin \in Int /\ b + Length \in Int
  BY <1>2, RecordTimerAssumption DEF Entry
<1> HIDE DEF begin
<1>6. r \in Entry /\ (r.disabled => entry[e].disabled) /\ (r.repeats => entry[e].repeats)
  <2>1. r \in Entry
    BY <1>2, <1>5, MovedType
  <2>2. r.disabled = entry[e].disabled /\ r.repeats = entry[e].repeats
    BY <1>2 DEF Entry
  <2> QED BY <2>1, <2>2
<1> HIDE DEF r
<1>7. Writable(f)
  BY <1>2, <1>6, FieldsAreFiled
<1> HIDE DEF f
<1>8. saving' \in BOOLEAN /\ loop # "warp"
  BY <1>1 DEF StoreInv, StoreTyped
<1> QED BY <1>1, <1>3, <1>4, <1>7, <1>8, SavingStep

LEMMA SaveStep ==
  ASSUME StoreInv, Save
  PROVE  Keeping
<1>1. /\ phase = "up" /\ KeepsPhase /\ UNCHANGED <<vars, gone>> /\ loop = "idle" /\ saving' = FALSE
      /\ Write(list, processed, entry) /\ ~Aborted
  BY DEF Save, Idle, Aborted
<1>2. [Next]_vars /\ \A x \in Timers : Settled(x)
  BY <1>1 DEF vars, listVars, Places, Settled
<1> QED BY <1>1, <1>2, SavingStep, ListsAreFiled DEF StoreInv

LEMMA OneOfEntries ==
  ASSUME TimerInv, NEW e \in Timers, NEW r, entry' = [entry EXCEPT ![e] = r]
  PROVE  \A x \in Timers : x # e => entry'[x] = entry[x]
BY DEF TimerInv, Typed

LEMMA UnsavedStep ==
  ASSUME StoreInv, Unsaved
  PROVE  Keeping
<1>1. /\ KeepsPhase /\ Unwritten /\ UNCHANGED <<saving, gone>> /\ phase = "up" /\ TimerInv
  BY DEF Unsaved, Up, StoreInv
<1>2. [Next]_vars /\ ~Aborted /\ \A x \in Timers : Settled(x) \/ Lost(x)
  <2>1. CASE TimerFires \/ Tick \/ \E t \in 0 .. MaxTime : SetClock(t)
    BY <2>1 DEF TimerFires, Tick, SetClock, Idle, listVars, Places, Settled, Next, Aborted
  <2>2. ASSUME NEW e \in Timers, Disable(e) \/ Enable(e)
        PROVE  [Next]_vars /\ ~Aborted /\ \A x \in Timers : Settled(x)
    <3>1. Handled(e) /\ Places(e) /\ UNCHANGED warping /\ ~Aborted
      BY <1>1, <2>2, DisableStep
         DEF Disable, Enable, Idle, Places, Known, Undisturbed, Aborted
    <3> QED BY <1>1, <2>2, <3>1, HandledPlaces DEF Next
  <2>3. ASSUME NEW e \in Timers, WriteError(e)
        PROVE  [Next]_vars /\ ~Aborted /\ \A x \in Timers : Settled(x) \/ Lost(x)
    <3>1. InPlace(e) /\ UNCHANGED warping /\ ~Aborted
      BY <1>1, <2>3, WriteErrorStep DEF WriteError, Idle, Aborted
    <3>2. ASSUME NEW x \in Timers PROVE Settled(x) \/ Lost(x)
      BY <1>1, <2>3, <3>1, OneOfEntries DEF InPlace, Places, Settled, Lost
    <3> QED BY <2>3, <3>1, <3>2 DEF Next
  <2>4. ASSUME NEW e \in Timers, RemoveEntry(e) \/ RecordAborted(e)
        PROVE  [Next]_vars /\ ~Aborted /\ \A x \in Timers : Settled(x) \/ Lost(x)
    <3>1. /\ UNCHANGED warping /\ ~Aborted /\ loop = "idle" /\ AbortEntry(e) /\ removing' = e
          /\ Known(e) \/ entry[e].recorder # "none"
      BY <2>4 DEF RemoveEntry, RecordAborted, AbortEntry, Idle, Aborted
    <3>2. Handled(e) \/ InPlace(e)
      BY <1>1, <3>1, AbortStep
    <3>3. CASE InPlace(e)
      <4> SUFFICES ASSUME NEW x \in Timers PROVE Settled(x) \/ Lost(x)
        BY <2>4, <3>1 DEF Next
      <4> QED BY <1>1, <3>1, <3>3, OneOfEntries DEF InPlace, Places, Settled, Lost
    <3>4. CASE Handled(e) /\ Places(e)
      BY <1>1, <2>4, <3>1, <3>4, HandledPlaces DEF Next
    <3>5. CASE ~Places(e)
      <4>1. entry[e].state = Ended
        BY <1>1, <3>1, <3>5, KnownOrNot DEF Places, Known
      <4>2. entry[e] \in Entry
        BY <1>1, OneEntry
      <4> DEFINE r == [entry[e] EXCEPT !.repeats = FALSE, !.cancelled = TRUE, !.end = now,
                                       !.begin = IF @ > now THEN now ELSE @]
      <4>3. r.state = Ended
        BY <4>1, <4>2 DEF Entry
      <4>4. entry' = [entry EXCEPT ![e] = r] /\ UNCHANGED <<list, processed, loop>>
        BY <3>1, <4>3 DEF AbortEntry
      <4> HIDE DEF r
      <4> SUFFICES ASSUME NEW x \in Timers PROVE Settled(x) \/ Lost(x)
        BY <2>4, <3>1 DEF Next
      <4> QED BY <1>1, <3>1, <3>5, <4>4, OneOfEntries DEF Places, Settled, Lost
    <3> QED BY <3>2, <3>3, <3>4, <3>5
  <2> QED BY <2>1, <2>2, <2>3, <2>4 DEF Unsaved
<1> QED BY <1>1, <1>2, NotSavingStep

LEMMA LoadingStep ==
  ASSUME StoreInv, LoadProcess \/ Loaded \/ UNCHANGED allVars
  PROVE  Keeping
<1>1. CASE LoadProcess
  <2>1. KeepsPhase /\ Unwritten /\ UNCHANGED <<saving, gone>> /\ (CalcNextActivation \/ Tick)
    BY <1>1 DEF LoadProcess
  <2>2. [Next]_vars /\ ~Aborted /\ \A x \in Timers : Settled(x)
    <3>1. CASE CalcNextActivation
      BY <3>1, CalcPlaces, CalcIsBusy DEF StoreInv, Next, Aborted
    <3>2. CASE Tick
      BY <3>2 DEF Tick, Idle, listVars, Places, Settled, Next, Aborted
    <3> QED BY <2>1, <3>1, <3>2
  <2> QED BY <2>1, <2>2, NotSavingStep
<1>2. CASE Loaded
  <2>1. /\ phase' = "up" /\ toLoad = <<>>
        /\ UNCHANGED <<vars, file, toLoad, saving, stale, gone, dropped, crashes, saveErrors>>
    BY <1>2 DEF Loaded
  <2>2. StoreTyped'
    BY <2>1 DEF StoreInv, StoreTyped, Filed, Enabled
  <2>3. UNCHANGED <<loop, removing>> /\ \A x \in Timers : Settled(x)
    BY <2>1 DEF vars, listVars, Places, Settled
  <2> QED BY <2>1, <2>2, <2>3 DEF Keeping
<1>3. CASE UNCHANGED allVars
  <2>1. UNCHANGED <<vars, phase, file, toLoad, saving, stale, gone, dropped, crashes, saveErrors>>
    BY <1>3 DEF allVars, storeVars
  <2>2. StoreTyped'
    BY <2>1 DEF StoreInv, StoreTyped, Filed, Enabled
  <2>3. UNCHANGED <<loop, removing>> /\ \A x \in Timers : Settled(x)
    BY <2>1 DEF vars, listVars, Places, Settled
  <2> QED BY <2>1, <2>2, <2>3 DEF Keeping
<1> QED BY <1>1, <1>2, <1>3

(* Both write the list with what is left of the processed ones. *)
LEMMA WriteLeft ==
  ASSUME StoreInv, NEW S, NEW p \in Seq(Timers), Distinct(p), processed' = p,
         \A x : Contains(p, x) <=> Contains(processed, x) /\ x \notin S,
         phase = "up", loop = "idle", KeepsPhase, saving' = saving, S \subseteq Timers,
         gone' = gone \cup S, removing \in S \cup {NoTimer}, Write(list, p, entry),
         \A x \in S : x = removing \/ ~Contains(list, x),
         [Next]_vars, UNCHANGED <<list, entry, warping>>
  PROVE  Removing(S)
<1>1. TimerInv /\ StoreTyped
  BY DEF StoreInv
<1>2. \A x \in Timers : ~(Contains(list, x) /\ Contains(p, x))
  BY <1>1, ListsAreFiled
<1>3. /\ Filed(file') /\ stale' \in BOOLEAN /\ saveErrors' \in 0 .. MaxSaveErrors
      /\ ~stale' => \A x \in Timers : In(x, file') <=> Contains(list, x) \/ Contains(p, x)
      /\ stale' => file' = file
  BY <1>1, <1>2, WriteFiles, ListsAreFiled
<1>4. toLoad' = toLoad /\ phase' = phase /\ crashes' = crashes /\ dropped' = dropped
  BY DEF KeepsPhase
<1>5. StoreTyped' /\ toLoad = <<>>
  BY <1>1, <1>3, <1>4 DEF StoreTyped, Filed, Enabled
<1> QED BY <1>3, <1>4, <1>5 DEF Removing

LEMMA RemovingStep ==
  ASSUME StoreInv, RemovedAndSaved \/ CleanedAndSaved
  PROVE  \E S \in SUBSET Timers : Removing(S)
<1>1. Lists /\ removing \in Timers \cup {NoTimer} /\ \A x \in Timers : Placed(x)
  BY DEF StoreInv, TimerInv, Bounded
<1>2. CASE RemovedAndSaved
  <2> DEFINE S == {removing}
             p == RemoveFirst(processed, removing)
  <2>1. /\ Removed /\ phase = "up" /\ KeepsPhase /\ saving' = saving
        /\ gone' = gone \cup S /\ loop = "idle" /\ S \subseteq Timers
        /\ processed' = p /\ UNCHANGED <<list, entry, warping>> /\ [Next]_vars
    BY <1>1, <1>2 DEF RemovedAndSaved, Removed, Next
  <2>2. /\ p \in Seq(Timers) /\ Distinct(p)
        /\ \A x : Contains(p, x) <=> Contains(processed, x) /\ x \notin S
    BY <1>1, RemoveFirstTakes DEF Lists
  <2>3. Write(list, p, entry)
    BY <1>2, <2>1 DEF RemovedAndSaved
  <2> HIDE DEF p
  <2> QED BY <2>1, <2>2, <2>3, WriteLeft
<1>3. CASE CleanedAndSaved
  <2> DEFINE off == {e \in Timers : entry[e].disabled}
             S == {e \in Timers : Contains(processed, e) /\ ~entry[e].disabled}
             p == Only(processed, off)
  <2>1. /\ Cleanup /\ phase = "up" /\ KeepsPhase /\ saving' = saving
        /\ gone' = gone \cup S /\ loop = "idle" /\ removing = NoTimer
        /\ processed' = p /\ UNCHANGED <<list, entry, warping>> /\ [Next]_vars
    BY <1>3 DEF CleanedAndSaved, Up, Cleanup, Idle, Undisturbed, Next
  <2>2. /\ p \in Seq(Timers) /\ Distinct(p)
        /\ \A x : Contains(p, x) <=> Contains(processed, x) /\ x \in off
    BY <1>1, OnlyKeeps DEF Lists
  <2>3. Write(list, p, entry)
    BY <1>3, <2>1 DEF CleanedAndSaved
  <2> HIDE DEF p
  <2>4. \A x : Contains(processed, x) => x \in Timers
    BY <1>1, ElementOfSeq DEF Lists, Contains
  <2>5. \A x : Contains(p, x) <=> Contains(processed, x) /\ x \notin S
    BY <2>2, <2>4
  <2>6. \A x \in S : ~Contains(list, x)
    BY <1>1 DEF Placed
  <2>7. S \in SUBSET Timers
    OBVIOUS
  <2> HIDE DEF S
  <2> QED BY <2>1, <2>2, <2>3, <2>5, <2>6, <2>7, WriteLeft
<1> QED BY <1>2, <1>3

LEMMA RecordingStep ==
  ASSUME StoreInv, NEW e \in Timers, NEW b \in Begins, UserRecords(e, b)
  PROVE  Recording(e)
<1>1. /\ phase = "up" /\ e \notin gone \cup dropped /\ Record(e, b) /\ saving' = TRUE
      /\ KeepsPhase /\ Unwritten /\ UNCHANGED gone
  BY DEF UserRecords, Up
<1>2. StoreTyped'
  BY <1>1 DEF StoreInv, StoreTyped, KeepsPhase, Unwritten, Filed, Enabled
<1> QED BY <1>1, <1>2 DEF Recording, KeepsPhase, Unwritten

LEMMA RestartingStep ==
  ASSUME StoreInv, Crash \/ Shutdown \/ LoadRaises
  PROVE  Restarting
<1>1. TimerInv /\ StoreTyped /\ crashes \in 0 .. MaxCrashes /\ MaxCrashes \in Nat
  BY StoreAssumption DEF StoreInv, StoreTyped
<1>2. /\ Start(file') /\ Filed(file') /\ stale' \in BOOLEAN /\ saveErrors' \in 0 .. MaxSaveErrors
      /\ crashes' \in 0 .. MaxCrashes
      /\ \/ file' = file
         \/ ~Aborted /\ toLoad = <<>> /\ \A x \in Timers : In(x, file') <=> Places(x)
  <2>1. CASE Crash
    <3>1. Start(file) /\ file' = file /\ stale' = FALSE /\ saveErrors' = saveErrors
          /\ crashes < MaxCrashes /\ crashes' = crashes + 1
      BY <2>1 DEF Crash
    <3>2. Filed(file) /\ saveErrors \in 0 .. MaxSaveErrors
      BY <1>1 DEF StoreTyped
    <3>3. Start(file') /\ Filed(file')
      BY <3>1, <3>2, Zenon
    <3>4. crashes' \in 0 .. MaxCrashes
      BY <1>1, <3>1
    <3> QED BY <3>1, <3>2, <3>3, <3>4
  <2>2. CASE LoadRaises
    <3>1. Start(file) /\ file' = file /\ stale' = stale /\ saveErrors' = saveErrors
          /\ crashes' = crashes
      BY <2>2 DEF LoadRaises, Unwritten
    <3>2. Filed(file) /\ saveErrors \in 0 .. MaxSaveErrors /\ stale \in BOOLEAN
      BY <1>1 DEF StoreTyped
    <3>3. Start(file') /\ Filed(file')
      BY <3>1, <3>2, Zenon
    <3> QED BY <1>1, <3>1, <3>2, <3>3
  <2>3. CASE Shutdown
    <3>1. /\ Start(file') /\ crashes < MaxCrashes /\ crashes' = crashes + 1
          /\ Write(list, processed, entry) /\ phase = "up" /\ loop = "idle" /\ ~Aborted
      BY <2>3 DEF Shutdown, Up, Idle, Aborted
    <3>2. /\ Filed(file') /\ stale' \in BOOLEAN /\ saveErrors' \in 0 .. MaxSaveErrors
          /\ ~stale' => \A x \in Timers : In(x, file') <=> Contains(list, x) \/ Contains(processed, x)
          /\ stale' => file' = file
      BY <1>1, <3>1, WriteFiles, ListsAreFiled
    <3>3. toLoad = <<>> /\ \A x \in Timers : Places(x) <=> Contains(list, x) \/ Contains(processed, x)
      BY <1>1, <3>1, IdlePlaces DEF StoreTyped
    <3> QED BY <1>1, <3>1, <3>2, <3>3
  <2> QED BY <2>1, <2>2, <2>3
<1>3. /\ phase' = "loading" /\ toLoad' = file' /\ saving' = FALSE /\ gone' \subseteq gone
      /\ dropped' = {}
  BY <1>2 DEF Start
<1>4. StoreTyped'
  BY <1>1, <1>2, <1>3 DEF StoreTyped, Filed, Enabled
<1> QED BY <1>2, <1>4 DEF Restarting

(* What each step of the store is. *)
LEMMA StoreSteps ==
  ASSUME StoreInv, [StoreNext]_allVars
  PROVE  \/ Keeping \/ Restarting \/ Adding \/ Dropping
         \/ \E S \in SUBSET Timers : Removing(S)
         \/ \E e \in Timers : Recording(e)
<1>1. CASE Process \/ Save \/ Unsaved \/ LoadProcess \/ Loaded \/ UNCHANGED allVars
  BY <1>1, ProcessStep, SaveStep, UnsavedStep, LoadingStep
<1>2. ASSUME NEW e \in Timers,
             StreamEnded(e) \/ \E b \in Begins : UserRecords(e, b) \/ UserEdits(e, b)
      PROVE  Keeping \/ Recording(e)
  BY <1>2, StreamEndedStep, RecordingStep, UserEditsStep
<1>3. CASE Load
  BY <1>3 DEF Load, Adding, Dropping, Reading
<1> QED BY <1>1, <1>2, <1>3, RemovingStep, RestartingStep DEF StoreNext

-----------------------------------------------------------------------------
(* Starting and loading *)

LEMMA StartIsFresh ==
  ASSUME TimerInv, NEW f, Start(f)
  PROVE  Fresh'
<1>1. /\ now \in 0 .. MaxTime /\ edits \in 0 .. MaxEdits /\ clockSets \in 0 .. MaxClockSets
  BY DEF TimerInv, Bounded
<1>2. ASSUME NEW e \in Timers PROVE NewEntry(e)' = NewEntry(e)
  BY DEF NewEntry
<1> QED BY <1>1, <1>2 DEF Start, Fresh, bounds

(* The entry that is loaded, and where it is put. *)
LEMMA ReadingStep ==
  ASSUME StoreInv, Reading
  PROVE  LET e == Head(toLoad).timer
         IN  /\ e \in Timers /\ In(e, toLoad)
             /\ toLoad' = Tail(toLoad) /\ toLoad # <<>> /\ loop = "idle" /\ removing = NoTimer
             /\ UNCHANGED <<clockVars, warping, recVars, removing, bounds>>
             /\ UNCHANGED <<phase, saving, gone, crashes, file, stale, saveErrors>>
             /\ phase = "loading" /\ (\A x : In(x, toLoad') <=> In(x, toLoad) /\ x # e)
             /\ Filed(toLoad')
<1>1. /\ toLoad' = Tail(toLoad) /\ toLoad # <<>> /\ loop = "idle" /\ removing = NoTimer
      /\ UNCHANGED <<clockVars, warping, recVars, removing, bounds>>
      /\ UNCHANGED <<phase, saving, gone, crashes, file, stale, saveErrors>>
      /\ phase = "loading"
  BY DEF Reading, LoadNext, Idle, Undisturbed, Unwritten
<1>2. /\ Head(toLoad) \in Stored /\ In(Head(toLoad).timer, toLoad) /\ Filed(Tail(toLoad))
      /\ \A x : In(x, Tail(toLoad)) <=> In(x, toLoad) /\ x # Head(toLoad).timer
  BY <1>1, TailFiled DEF StoreInv, StoreTyped
<1> QED BY <1>1, <1>2 DEF Stored

LEMMA LoadStep ==
  ASSUME StoreInv, Adding
  PROVE  LET e == Head(toLoad).timer
         IN  /\ e \in Timers /\ In(e, toLoad) /\ ~Places(e) /\ Handled(e)
             /\ entry'[e].recorder = "none"
<1> DEFINE x == Head(toLoad)
           e == x.timer
           m == [NewEntry(e) EXCEPT !.begin = x.begin, !.end = x.end,
                   !.disabled = x.disabled, !.repeats = x.repeats]
<1>1. Reading /\ toLoad # <<>> /\ UNCHANGED recVars
  BY ReadingStep DEF Adding
<1>2. AddTimerEntry(e, TimesSet(m), list, processed, TRUE)
  BY DEF Adding, Created
<1>3. /\ x \in Stored /\ In(e, toLoad) /\ (Enabled => ~x.disabled)
      /\ x.repeats => e \in Repeated
  BY <1>1, TailFiled DEF StoreInv, StoreTyped
<1> HIDE DEF x
<1>4. /\ e \in Timers /\ x.begin \in Int /\ x.end \in Int /\ x.disabled \in BOOLEAN
      /\ x.repeats \in BOOLEAN
  BY <1>3 DEF Stored
<1> HIDE DEF e
<1>5. ~Places(e) /\ entry[e] = NewEntry(e) /\ TimerInv
  BY <1>3, <1>4, UnloadedIsNowhere DEF StoreInv
<1>6. m \in Entry
  <2>1. NewEntry(e) \in Entry
    BY <1>4, NewType
  <2>2. ASSUME NEW i \in Int, NEW j \in Int, NEW d \in BOOLEAN, NEW g \in BOOLEAN
        PROVE  [NewEntry(e) EXCEPT !.begin = i, !.end = j, !.disabled = d, !.repeats = g] \in Entry
    BY <2>1 DEF Entry
  <2> QED BY <1>4, <2>2, Zenon
<1>7. /\ m.state = Waiting /\ m.recorder = "none" /\ m.disabled = x.disabled
      /\ m.repeats = x.repeats
  BY <1>4 DEF NewEntry
<1> HIDE DEF m
<1>8. /\ TimesSet(m) \in Entry /\ TimesSet(m).state = Waiting /\ TimesSet(m).recorder = "none"
      /\ (TimesSet(m).disabled => x.disabled) /\ TimesSet(m).repeats = x.repeats
  BY <1>6, <1>7, TimesSetCarries DEF Carries
<1> DEFINE r == TimesSet(m)
<1> HIDE DEF r
<1>9. Sound(e, r, live[e])
  <2>1. Sound(e, NewEntry(e), live[e]) /\ live[e] \in Nat /\ NewEntry(e).recorder = "none"
    BY <1>4, <1>5, OneEntry, NewType
  <2>2. Enabled => live[e] = 0
    BY <2>1 DEF Sound, Owning
  <2>3. /\ r.state = Waiting /\ r.recorder = "none" /\ (Enabled => ~r.disabled)
        /\ e \notin Repeated => ~r.repeats
    BY <1>3, <1>8 DEF r
  <2> QED BY <2>1, <2>2, <2>3
          DEF Sound, Startable, Holding, Owning, Lasting, Waiting, Prepared, Running
<1>10. Made(e, r)
  <2>1. r \in Entry /\ UNCHANGED live
    BY <1>1, <1>8 DEF r, recVars
  <2> QED BY <1>4, <1>5, <1>9, <2>1, UntouchedMakes
<1>11. Handled(e) /\ entry'[e].recorder = "none"
  <2>1. /\ AddTimerEntry(e, r, list, processed, TRUE) /\ ~Known(e)
        /\ r.recorder = "none"
    BY <1>2, <1>5, <1>8 DEF r, Known, Places
  <2> QED BY <1>4, <1>5, <1>10, <2>1, AddedIsHandled
<1> QED BY <1>1, <1>3, <1>4, <1>5, <1>11 DEF e, x

LEMMA LoadKeeps ==
  ASSUME StoreInv, Adding
  PROVE  TimerInv'
<1> DEFINE e == Head(toLoad).timer
<1>1. /\ e \in Timers /\ Handled(e) /\ loop = "idle"
      /\ UNCHANGED <<clockVars, warping, recVars, removing, bounds>>
  BY LoadStep, ReadingStep DEF Adding
<1> HIDE DEF e
<1>2. TimerInv /\ recordings \in Nat /\ removing \in Timers \cup {NoTimer}
      /\ edits \in 0 .. MaxEdits
  BY DEF StoreInv, TimerInv, Bounded
<1>3. loop # "warp"
  BY <1>1
<1> QED BY <1>1, <1>2, <1>3, MovingKeeps DEF recVars, bounds

LEMMA DroppingIsQuiet ==
  ASSUME StoreInv, Dropping
  PROVE  UNCHANGED vars /\ ~Aborted
<1>1. UNCHANGED <<listVars, loop>> /\ UNCHANGED <<clockVars, warping, recVars, removing, bounds>>
      /\ removing = NoTimer
  BY ReadingStep DEF Dropping
<1> QED BY <1>1 DEF vars, Aborted

LEMMA StoreTimerStep ==
  ASSUME StoreInv, [StoreNext]_allVars
  PROVE  TimerInv'
<1>1. TimerInv
  BY DEF StoreInv
<1>2. CASE [Next]_vars
  BY <1>1, <1>2, TimerStep
<1>3. CASE Restarting
  <2>1. Fresh'
    BY <1>1, <1>3, StartIsFresh DEF Restarting
  <2>2. Steady
    BY <1>1 DEF TimerInv
  <2>3. Steady'
    BY <2>2 DEF Steady, Enabled
  <2> QED BY <2>1, <2>2, <2>3, FreshInv, PTL
<1>4. CASE Adding
  BY <1>4, LoadKeeps
<1>5. CASE Dropping
  BY <1>1, <1>5, TimerStep, DroppingIsQuiet
<1>6. Keeping \/ (\E S \in SUBSET Timers : Removing(S)) \/ (\E e \in Timers : Recording(e))
        => [Next]_vars
  BY DEF Keeping, Removing, Recording, Next
<1> QED BY <1>2, <1>3, <1>4, <1>5, <1>6, StoreSteps

(* A new entry, or one that is loaded, is placed where none was. *)
LEMMA AddingPlaces ==
  ASSUME TimerInv, NEW e \in Timers, Handled(e), UNCHANGED warping
  PROVE  Places(e)' /\ \A x \in Timers \ {e} : Settled(x)
<1>1. Relisted(e)
  BY DEF Handled
<1> QED BY <1>1 DEF Relisted, Places, Settled

LEMMA StoreStep ==
  ASSUME StoreInv, [StoreNext]_allVars
  PROVE  StoreInv'
<1>1. TimerInv' /\ TimerInv
  BY StoreTimerStep DEF StoreInv
<1>2. CASE Keeping
  <2>1. StoreTyped' /\ toLoad' = toLoad
    BY <1>2 DEF Keeping
  <2>2. ASSUME NEW x \in Timers PROVE Unloaded(x)'
    <3> SUFFICES ASSUME In(x, toLoad) PROVE entry'[x] = NewEntry(x) /\ ~Contains(list', x)
      BY <2>1 DEF Unloaded, NewEntry
    <3>1. ~Places(x) /\ entry[x] = NewEntry(x)
      BY <1>1, UnloadedIsNowhere DEF StoreInv
    <3>2. phase = "loading"
      BY DEF StoreInv, StoreTyped, In
    <3>3. ~Places(x)' /\ entry'[x] = entry[x]
      BY <1>2, <3>1, <3>2 DEF Keeping, Settled, Lost
    <3> QED BY <3>1, <3>3 DEF Places
  <2>3. Safe'
    <3> SUFFICES ASSUME ~stale', ~saving', NEW x \in Timers, Places(x)' \/ In(x, toLoad)
                 PROVE  In(x, file')
      BY <2>1 DEF Safe
    <3>1. Places(x) \/ In(x, toLoad)
      BY <1>2 DEF Keeping, Settled, Lost
    <3>2. CASE UNCHANGED <<file, stale, saving>>
      BY <3>1, <3>2 DEF StoreInv, Safe
    <3>3. CASE toLoad = <<>> /\ (~stale' => \A y \in Timers : In(y, file') <=> Places(y))
      <4>1. ~In(x, toLoad)
        BY <3>3 DEF In
      <4> QED BY <3>1, <3>3, <4>1
    <3> QED BY <1>2, <3>2, <3>3 DEF Keeping
  <2> QED BY <1>1, <2>1, <2>2, <2>3 DEF StoreInv
<1>3. ASSUME NEW S \in SUBSET Timers, Removing(S) PROVE StoreInv'
  <2>1. StoreTyped' /\ toLoad' = <<>> /\ UNCHANGED <<list, warping>> /\ loop = "idle"
    BY <1>3 DEF Removing
  <2>2. \A x : ~In(x, toLoad')
    BY <2>1 DEF In
  <2>3. \A x \in Timers : Places(x)' <=> Contains(list, x) \/ Contains(processed', x)
    BY <1>1, <2>1, IdleLists DEF Places
  <2>4. Safe'
    BY <1>3, <2>2, <2>3 DEF Removing, Safe
  <2>5. \A x \in Timers : Unloaded(x)'
    BY <2>2 DEF Unloaded
  <2> QED BY <1>1, <2>1, <2>4, <2>5 DEF StoreInv
<1>4. CASE Restarting
  <2>1. StoreTyped' /\ Start(file')
    BY <1>4 DEF Restarting
  <2>2. /\ toLoad' = file' /\ list' = <<>> /\ processed' = <<>> /\ warping' = <<>>
        /\ \A x \in Timers : entry'[x] = NewEntry(x)
    BY <2>1 DEF Start
  <2>3. \A x : ~Contains(list', x) /\ ~Places(x)'
    BY <2>2 DEF Contains, Places
  <2>4. Safe'
    BY <2>2, <2>3 DEF Safe
  <2>5. \A x \in Timers : Unloaded(x)'
    BY <2>2, <2>3 DEF Unloaded, NewEntry
  <2> QED BY <1>1, <2>1, <2>4, <2>5 DEF StoreInv
<1>5. CASE Adding
  <2> DEFINE e == Head(toLoad).timer
  <2>1. /\ e \in Timers /\ In(e, toLoad) /\ Handled(e) /\ UNCHANGED <<warping, dropped>>
        /\ UNCHANGED <<phase, saving, gone, crashes, file, stale, saveErrors>>
        /\ phase = "loading"
    BY <1>5, LoadStep, ReadingStep DEF Adding
  <2>2. Filed(toLoad') /\ \A x : In(x, toLoad') <=> In(x, toLoad) /\ x # e
    BY <1>5, ReadingStep DEF Adding
  <2> HIDE DEF e
  <2>3. StoreTyped'
    BY <2>1, <2>2 DEF StoreInv, StoreTyped, Filed, Enabled
  <2>4. \A x \in Timers \ {e} : /\ Places(x)' => Places(x)
                                /\ ~Places(x) => entry'[x] = entry[x]
    BY <1>1, <2>1, AddingPlaces DEF Settled
  <2>5. ASSUME NEW x \in Timers PROVE Unloaded(x)'
    <3> SUFFICES ASSUME In(x, toLoad'), x # e, In(x, toLoad)
                 PROVE  entry'[x] = NewEntry(x) /\ ~Contains(list', x)
      BY <2>2 DEF Unloaded, NewEntry
    <3>1. ~Places(x) /\ entry[x] = NewEntry(x)
      BY <1>1, UnloadedIsNowhere DEF StoreInv
    <3>2. ~Places(x)' /\ entry'[x] = entry[x]
      BY <2>4, <3>1
    <3> QED BY <3>1, <3>2 DEF Places
  <2>6. Safe'
    BY <2>1, <2>2, <2>4 DEF StoreInv, Safe
  <2> QED BY <1>1, <2>3, <2>5, <2>6 DEF StoreInv
<1>6. ASSUME NEW e \in Timers, Recording(e) PROVE StoreInv'
  <2>1. StoreTyped' /\ saving' /\ toLoad' = toLoad /\ phase = "up"
    BY <1>6 DEF Recording
  <2>2. toLoad' = <<>>
    BY <2>1 DEF StoreInv, StoreTyped
  <2>3. \A x \in Timers : Unloaded(x)'
    BY <2>2 DEF Unloaded, In
  <2>4. Safe'
    BY <2>1 DEF Safe
  <2> QED BY <1>1, <2>1, <2>3, <2>4 DEF StoreInv
<1>7. CASE Dropping
  <2> DEFINE e == Head(toLoad).timer
  <2>1. /\ e \in Timers /\ dropped' = dropped \cup {e} /\ phase = "loading"
        /\ UNCHANGED <<phase, saving, gone, crashes, file, stale, saveErrors>>
        /\ Filed(toLoad') /\ \A x : In(x, toLoad') <=> In(x, toLoad) /\ x # e
    BY <1>7, ReadingStep DEF Dropping
  <2> HIDE DEF e
  <2>2. UNCHANGED <<list, processed, warping, entry>>
    BY <1>7, DroppingIsQuiet DEF vars, listVars
  <2>3. StoreTyped'
    BY <2>1 DEF StoreInv, StoreTyped, Filed, Enabled
  <2>4. ASSUME NEW x \in Timers PROVE Unloaded(x)'
    BY <2>1, <2>2 DEF StoreInv, Unloaded, NewEntry
  <2>5. Safe'
    BY <2>1, <2>2 DEF StoreInv, Safe, Places
  <2> QED BY <1>1, <2>3, <2>4, <2>5 DEF StoreInv
<1> QED BY <1>2, <1>3, <1>4, <1>5, <1>6, <1>7, StoreSteps

LEMMA StoreBegins ==
  ASSUME Steady
  PROVE  StoreInit => StoreInv
<1> SUFFICES ASSUME StoreInit PROVE StoreInv
  OBVIOUS
<1>1. TimerInv
  BY TimerInit DEF StoreInit
<1>2. \A x : ~In(x, toLoad) /\ ~Places(x)
  BY DEF StoreInit, Init, In, Places, Contains
<1>3. Filed(<<>>)
  BY DEF Filed
<1>4. StoreTyped
  <2>1. 0 \in 0 .. MaxCrashes /\ 0 \in 0 .. MaxSaveErrors
    BY StoreAssumption
  <2>2. Filed(file) /\ Filed(toLoad)
    BY <1>3, Zenon DEF StoreInit
  <2>3. /\ phase = "up" /\ toLoad = <<>> /\ saving = FALSE /\ stale = FALSE
        /\ crashes = 0 /\ saveErrors = 0 /\ gone = {} /\ dropped = {}
    BY DEF StoreInit
  <2> QED BY <2>1, <2>2, <2>3 DEF StoreTyped
<1>5. Safe /\ \A e \in Timers : Unloaded(e)
  BY <1>2 DEF Safe, Unloaded
<1> QED BY <1>1, <1>4, <1>5 DEF StoreInv

LEMMA StoreAlways ==
  ASSUME Steady
  PROVE  StoreSpec => []StoreInv
<1>1. StoreInv /\ [StoreNext]_allVars => StoreInv'
  BY StoreStep
<1> QED BY <1>1, StoreBegins, PTL DEF StoreSpec

(* The same of the timers with their file.                                 *)
THEOREM StoreTypes ==
  ASSUME Steady
  PROVE  StoreSpec => []StoreTypeOK
<1>1. StoreInv => StoreTypeOK
  BY TimerTyped DEF StoreInv, StoreTyped, Filed, StoreTypeOK
<1> QED BY <1>1, StoreAlways, PTL

(* A restart brings a timer back into one place, and the file holds each   *)
(* once: what saveTimer() writes of both lists has no doubles, and what    *)
(* loadTimer() has still to read is in neither.                            *)
THEOREM TimersStoredOnce ==
  ASSUME Steady
  PROVE  StoreSpec => []StoredOnce
<1>1. ASSUME StoreInv PROVE StoredOnce
  <2>1. OnePlace
    BY <1>1, InOnePlace DEF StoreInv
  <2>2. \A i, j \in DOMAIN file : i # j => file[i].timer # file[j].timer
    BY <1>1 DEF StoreInv, StoreTyped, Filed
  <2>3. \A e \in Timers : In(e, toLoad) => ~Known(e)
    BY <1>1, UnloadedIsNowhere DEF StoreInv, Known, Places
  <2> QED BY <2>1, <2>2, <2>3 DEF StoredOnce
<1> QED BY <1>1, StoreAlways, PTL

-----------------------------------------------------------------------------
(* The times in the file *)

(* No start fails: that would move the begin of an entry, unsaved.         *)
Starting == "startError" \notin Events

(* q has the times of r, or those of a later day if it repeats.            *)
DaysOn(r, q) ==
  /\ q.repeats = r.repeats
  /\ \E k \in Nat : /\ ~r.repeats => k = 0
                    /\ q.begin = r.begin + Day * k /\ q.end = r.end + Day * k

(* A failed entry has an end of its own. *)
Follows(r, q) == ~q.failed => ~r.failed /\ DaysOn(r, q)

LEMMA SameFollows ==
  ASSUME NEW r \in Entry, NEW q, q.begin = r.begin, q.end = r.end, q.repeats = r.repeats,
         q.failed = r.failed
  PROVE  Follows(r, q)
<1>1. r.begin \in Int /\ r.end \in Int /\ Day \in Nat
  BY RecordTimerAssumption DEF Entry
<1>2. q.begin = r.begin + Day * 0 /\ q.end = r.end + Day * 0 /\ 0 \in Nat
  BY <1>1
<1> QED BY <1>2 DEF Follows, DaysOn

LEMMA DaysOnOn ==
  ASSUME NEW r, NEW q, NEW t, r.begin \in Int, r.end \in Int, DaysOn(r, q), DaysOn(q, t)
  PROVE  DaysOn(r, t)
<1>1. PICK a \in Nat : /\ ~r.repeats => a = 0
                       /\ q.begin = r.begin + Day * a /\ q.end = r.end + Day * a
  BY DEF DaysOn
<1>2. PICK b \in Nat : /\ ~q.repeats => b = 0
                       /\ t.begin = q.begin + Day * b /\ t.end = q.end + Day * b
  BY DEF DaysOn
<1>3. PICK d \in Nat : d = Day
  BY RecordTimerAssumption
<1>4. d * (a + b) = d * a + d * b /\ d * a \in Int /\ d * b \in Int /\ a + b \in Nat
  OBVIOUS
<1>5. t.begin = r.begin + Day * (a + b) /\ t.end = r.end + Day * (a + b)
  BY <1>1, <1>2, <1>3, <1>4
<1>6. t.repeats = r.repeats /\ (~r.repeats => a + b = 0)
  BY <1>1, <1>2 DEF DaysOn
<1> QED BY <1>4, <1>5, <1>6 DEF DaysOn

LEMMA FollowsOn ==
  ASSUME NEW r \in Entry, NEW q, NEW t, Follows(r, q), Follows(q, t)
  PROVE  Follows(r, t)
<1>1. r.begin \in Int /\ r.end \in Int
  BY DEF Entry
<1> QED BY <1>1, DaysOnOn DEF Follows

LEMMA TimesSetFollows ==
  ASSUME NEW r \in Entry
  PROVE  Follows(r, TimesSet(r))
<1> DEFINE q == TimesSet(r)
<1>1. q.begin = r.begin /\ q.end = r.end /\ q.repeats = r.repeats /\ q.failed = r.failed
  BY DEF TimesSet, Entry
<1> HIDE DEF q
<1> QED BY <1>1, SameFollows DEF q

LEMMA StateFollows ==
  ASSUME NEW r \in Entry, NEW n \in Waiting .. Ended
  PROVE  [r EXCEPT !.state = n] \in Entry /\ Follows(r, [r EXCEPT !.state = n])
<1> DEFINE q == [r EXCEPT !.state = n]
<1>1. q.begin = r.begin /\ q.end = r.end /\ q.repeats = r.repeats /\ q.failed = r.failed
  BY DEF Entry
<1>2. q \in Entry
  BY StateType
<1> HIDE DEF q
<1> QED BY <1>1, <1>2, SameFollows DEF q

LEMMA SkipFollows ==
  ASSUME NEW r \in Entry
  PROVE  Follows(r, SkipChecked(r))
<1> DEFINE q == SkipChecked(r)
<1>1. q.begin = r.begin /\ q.end = r.end /\ q.repeats = r.repeats /\ q.failed = r.failed
  BY DEF SkipChecked, Entry
<1> HIDE DEF q
<1> QED BY <1>1, SameFollows DEF q

(* The end of a failed entry is restored; the others keep theirs.          *)
LEMMA FinishedFollows ==
  ASSUME NEW r \in Entry
  PROVE  Follows(r, Finished(r))
<1> DEFINE q == Finished(r)
<1>1. /\ q.begin = r.begin /\ q.repeats = r.repeats /\ q.failed = r.failed
      /\ ~r.failed => q.end = r.end
  BY DEF Finished, Entry
<1> HIDE DEF q
<1>2. CASE r.failed
  BY <1>1, <1>2 DEF Follows, q
<1>3. CASE ~r.failed
  BY <1>1, <1>3, SameFollows DEF q
<1> QED BY <1>2, <1>3

(* A repeated entry goes on by days. *)
LEMMA RepeatedFollows ==
  ASSUME NEW r \in Entry, NEW b \in BOOLEAN, now \in Int
  PROVE  Follows(r, ProcessRepeated(r, b))
<1>1. CASE ~r.repeats
  BY <1>1, SameFollows DEF ProcessRepeated
<1>2. CASE r.repeats
  <2> DEFINE time == IF b THEN r.end ELSE r.begin
  <2>1. time \in Int /\ r.begin \in Int /\ r.end \in Int /\ Day \in Nat \ {0}
    BY RecordTimerAssumption DEF Entry
  <2> HIDE DEF time
  <2>2. DaysAhead(time) \in Nat
    <3>1. CASE now < time
      BY <3>1 DEF DaysAhead
    <3>2. CASE ~(now < time)
      <4>1. PICK d \in Nat \ {0} : d = Day
        BY <2>1
      <4>2. PICK late \in Nat : late = now - time
        BY <2>1, <3>2
      <4>3. late \div d \in Nat
        BY <4>1, <4>2
      <4> QED BY <3>2, <4>1, <4>2, <4>3 DEF DaysAhead
    <3> QED BY <3>1, <3>2
  <2>3. PICK k \in Nat : k = DaysAhead(time)
    BY <2>2
  <2>4. PICK shift \in Int : shift = Day * k
    BY <2>1
  <2>5. ProcessRepeated(r, b) = TimesSet([r EXCEPT !.begin = @ + shift, !.end = @ + shift])
    BY <1>2, <2>3, <2>4 DEF ProcessRepeated, time
  <2> DEFINE q == ProcessRepeated(r, b)
  <2>6. /\ q.begin = r.begin + shift /\ q.end = r.end + shift
        /\ q.repeats = r.repeats /\ q.failed = r.failed
    BY <2>5 DEF TimesSet, Entry
  <2> HIDE DEF q
  <2>7. q.begin = r.begin + Day * k /\ q.end = r.end + Day * k
    BY <2>4, <2>6
  <2> QED BY <1>2, <2>6, <2>7 DEF Follows, DaysOn, q
<1> QED BY <1>1, <1>2

(* The lists put an entry where they will, with the times it has.          *)
LEMMA AddFollows ==
  ASSUME TimerInv, NEW e \in Timers, NEW r \in Entry, NEW l, NEW p, NEW recalc,
         AddTimerEntry(e, r, l, p, recalc)
  PROVE  Follows(r, entry'[e]) /\ \A x \in Timers \ {e} : entry'[x] = entry[x]
<1> DEFINE q == ProcessRepeated(r, TRUE)
           k == SkipChecked(q)
           z == [k EXCEPT !.state = Ended]
<1>1. now \in Int /\ entry \in [Timers -> Entry]
  BY DEF TimerInv, Typed
<1>2. q \in Entry /\ Follows(r, q)
  BY <1>1, RepeatedCarries, RepeatedFollows
<1>3. entry' = [entry EXCEPT ![e] = q] \/ entry' = [entry EXCEPT ![e] = z]
  BY DEF AddTimerEntry
<1> HIDE DEF q
<1>4. k \in Entry /\ Follows(q, k)
  BY <1>2, SkipCarries, SkipFollows
<1> HIDE DEF k
<1>5. Follows(k, z)
  BY <1>4, StateFollows, EachState
<1> HIDE DEF z
<1>6. Follows(r, z)
  BY <1>2, <1>4, <1>5, FollowsOn
<1> QED BY <1>1, <1>2, <1>3, <1>6

LEMMA TimeChangedFollows ==
  ASSUME TimerInv, NEW e \in Timers, NEW r \in Entry, TimeChanged(e, r)
  PROVE  Follows(r, entry'[e]) /\ \A x \in Timers \ {e} : entry'[x] = entry[x]
<1> DEFINE q == TimesSet(r)
           w == [q EXCEPT !.state = Waiting]
<1>1. q \in Entry /\ Follows(r, q)
  BY TimesSetCarries, TimesSetFollows
<1>2. \/ \E l, p : AddTimerEntry(e, w, l, p, TRUE)
      \/ \E l, p : AddTimerEntry(e, q, l, p, TRUE)
      \/ entry' = [entry EXCEPT ![e] = q]
  BY DEF TimeChanged
<1> HIDE DEF q
<1>3. w \in Entry /\ Follows(r, w)
  BY <1>1, StateFollows, EachState, FollowsOn
<1> HIDE DEF w
<1>4. ASSUME NEW l, NEW p, AddTimerEntry(e, w, l, p, TRUE)
      PROVE  Follows(r, entry'[e]) /\ \A x \in Timers \ {e} : entry'[x] = entry[x]
  BY <1>3, <1>4, AddFollows, FollowsOn
<1>5. ASSUME NEW l, NEW p, AddTimerEntry(e, q, l, p, TRUE)
      PROVE  Follows(r, entry'[e]) /\ \A x \in Timers \ {e} : entry'[x] = entry[x]
  BY <1>1, <1>5, AddFollows, FollowsOn
<1>6. CASE entry' = [entry EXCEPT ![e] = q]
  BY <1>1, <1>6 DEF TimerInv, Typed
<1> QED BY <1>2, <1>4, <1>5, <1>6

(* What the lists do to all entries, when a handler has made r of w.       *)
Keeps(w, r) ==
  Follows(r, entry'[w]) /\ \A x \in Timers \ {w} : Follows(entry[x], entry'[x])

LEMMA SettleFollows ==
  ASSUME TimerInv, NEW w \in Timers, NEW r \in Entry, Settle(w, r)
  PROVE  Keeps(w, r)
<1>0. now \in Int /\ entry \in [Timers -> Entry]
  BY DEF TimerInv, Typed
<1>1. CASE entry' = [entry EXCEPT ![w] = r]
  BY <1>0, <1>1, SameFollows DEF Keeps
<1>2. CASE r.state = Ended /\ r.repeats
  <2> DEFINE q == ProcessRepeated(r, TRUE)
             v == [q EXCEPT !.state = Waiting]
  <2>1. ~(r.state < Ended)
    BY <1>2 DEF Ended
  <2>2. \E l : AddTimerEntry(w, v, l, processed, TRUE)
    BY <1>2, <2>1, Zenon DEF Settle
  <2>3. q \in Entry /\ Follows(r, q)
    BY <1>0, RepeatedCarries, RepeatedFollows
  <2> HIDE DEF q
  <2>4. v \in Entry /\ Follows(r, v)
    BY <2>3, StateFollows, EachState, FollowsOn
  <2> HIDE DEF v
  <2>5. Follows(v, entry'[w]) /\ \A x \in Timers \ {w} : entry'[x] = entry[x]
    BY <2>2, <2>4, AddFollows
  <2> QED BY <1>0, <2>4, <2>5, FollowsOn, SameFollows DEF Keeps
<1>3. CASE r.state = Ended /\ ~r.repeats
  <2>1. entry' = [x \in Timers |-> IF x = w THEN r
                    ELSE IF Contains(processed, x) THEN SkipChecked(entry[x]) ELSE entry[x]]
    BY <1>3 DEF Settle, Ended
  <2>2. ASSUME NEW x \in Timers PROVE Follows(entry[x], SkipChecked(entry[x])) /\ Follows(entry[x], entry[x])
    BY <1>0, SkipFollows, SameFollows
  <2> QED BY <2>1, <2>2, SameFollows DEF Keeps
<1>4. r.state < Ended /\ r.state # Ended => entry' = [entry EXCEPT ![w] = r]
  BY Zenon DEF Settle
<1>5. (r.state < Ended /\ r.state # Ended) \/ r.state = Ended
  BY DEF Entry, Waiting, Ended
<1> QED BY <1>1, <1>2, <1>3, <1>4, <1>5

(* activate() changes the times of an entry only when it fails or ends.    *)
LEMMA RequeuedFollows ==
  ASSUME TimerInv, NEW w \in Timers, NEW r, Settle(w, r), r.state < Ended, r.state # Ended,
         Follows(entry[w], r)
  PROVE  Keeps(w, entry[w])
<1>1. entry' = [entry EXCEPT ![w] = r]
  BY Zenon DEF Settle
<1>2. \A x \in Timers : entry[x] \in Entry
  BY OneEntry
<1> QED BY <1>1, <1>2, SameFollows DEF TimerInv, Typed, Keeps

LEMMA ActivateFollows ==
  ASSUME TimerInv, Starting, NEW w \in Timers, Chosen(w)
  PROVE  Keeps(w, entry[w])
<1> DEFINE o == entry[w]
<1>1. o \in Entry /\ now \in Int
  BY OneEntry
<1>2. ASSUME NEW r \in Entry, Settle(w, r), Follows(o, r) PROVE Keeps(w, o)
  BY <1>1, <1>2, SettleFollows, FollowsOn DEF Keeps
<1>3. ASSUME NEW r, Settle(w, r), r.state \in {Waiting, Prepared, Running},
             \/ r.failed
             \/ /\ r.begin = o.begin /\ r.end = o.end /\ r.repeats = o.repeats
                /\ r.failed = o.failed
      PROVE  Keeps(w, o)
  <2>1. Follows(o, r)
    BY <1>1, <1>3, SameFollows DEF Follows
  <2>2. r.state < Ended /\ r.state # Ended
    BY <1>3 DEF Waiting, Prepared, Running, Ended
  <2> QED BY <1>3, <2>1, <2>2, RequeuedFollows DEF o
<1>4. CASE Skip(w, o)
  <2> DEFINE k == SkipChecked(o)
             r == [k EXCEPT !.state = Ended]
  <2>1. Settle(w, r)
    BY <1>4 DEF Skip
  <2>2. k \in Entry /\ Follows(o, k)
    BY <1>1, SkipCarries, SkipFollows
  <2> HIDE DEF o, k
  <2>3. r \in Entry /\ Follows(o, r)
    BY <1>1, <2>2, StateFollows, EachState, FollowsOn
  <2> HIDE DEF r
  <2> QED BY <1>2, <2>1, <2>3 DEF o
<1>5. CASE End(w, o)
  <2>1. Settle(w, Finished(o))
    BY <1>5 DEF End
  <2> QED BY <1>1, <1>2, <2>1, FinishedType, FinishedFollows
<1>6. CASE DiskNotReady(w, o)
  <2> DEFINE r == [o EXCEPT !.retries = @ + 1, !.prep = now + RetryDelay]
  <2>1. Settle(w, r) /\ o.state = Waiting
    BY <1>6 DEF DiskNotReady, Activated
  <2> HIDE DEF o
  <2>2. /\ r.state = o.state /\ r.begin = o.begin /\ r.end = o.end /\ r.repeats = o.repeats
        /\ r.failed = o.failed
    BY <1>1 DEF Entry
  <2> HIDE DEF r
  <2> QED BY <1>3, <2>1, <2>2 DEF o
<1>7. CASE DiskFull(w, o)
  <2> DEFINE g == GivenUp(o)
             r == [g EXCEPT !.state = Prepared]
  <2>1. Settle(w, r)
    BY <1>7 DEF DiskFull
  <2>2. g \in Entry /\ g.failed
    BY <1>1, GivenUpType
  <2> HIDE DEF o, g
  <2>3. r.state = Prepared /\ r.failed
    BY <2>2 DEF Entry
  <2> HIDE DEF r
  <2> QED BY <1>3, <2>1, <2>3 DEF o
<1>8. CASE Prepare(w, o)
  <2> DEFINE p == [o EXCEPT !.state = Prepared, !.backoff = 0]
             r == [p EXCEPT !.retries = 0, !.recorder = "ready"]
  <2>1. Settle(w, p) \/ Settle(w, r)
    BY <1>8 DEF Prepare
  <2> HIDE DEF o
  <2>2. /\ p.state = Prepared /\ p.begin = o.begin /\ p.end = o.end /\ p.repeats = o.repeats
        /\ p.failed = o.failed
    BY <1>1 DEF Entry
  <2>3. /\ r.state = Prepared /\ r.begin = o.begin /\ r.end = o.end /\ r.repeats = o.repeats
        /\ r.failed = o.failed
    BY <1>1 DEF Entry
  <2> HIDE DEF p, r
  <2> QED BY <1>3, <2>1, <2>2, <2>3 DEF o
<1>9. CASE PrepareFails(w, o)
  <2> DEFINE r == [o EXCEPT !.retries = 0, !.recorder = "none",
                     !.backoff = NextBackoff(o), !.prep = now + NextBackoff(o)]
  <2>1. Settle(w, r) /\ o.state = Waiting
    BY <1>9 DEF PrepareFails, Activated
  <2> HIDE DEF o
  <2>2. /\ r.state = o.state /\ r.begin = o.begin /\ r.end = o.end /\ r.repeats = o.repeats
        /\ r.failed = o.failed
    BY <1>1 DEF Entry
  <2> HIDE DEF r
  <2> QED BY <1>3, <2>1, <2>2 DEF o
<1>10. CASE PrepareRefused(w, o)
  <2> DEFINE r == [o EXCEPT !.retries = 0, !.recorder = "none"]
  <2>1. Settle(w, r) /\ o.state = Waiting
    BY <1>10 DEF PrepareRefused, Activated
  <2> HIDE DEF o
  <2>2. /\ r.state = o.state /\ r.begin = o.begin /\ r.end = o.end /\ r.repeats = o.repeats
        /\ r.failed = o.failed
    BY <1>1 DEF Entry
  <2> HIDE DEF r
  <2> QED BY <1>3, <2>1, <2>2 DEF o
<1>11. CASE PassStart(w, o)
  <2> DEFINE r == [o EXCEPT !.state = Running]
  <2>1. Settle(w, r)
    BY <1>11 DEF PassStart
  <2> HIDE DEF o
  <2>2. /\ r.state = Running /\ r.begin = o.begin /\ r.end = o.end /\ r.repeats = o.repeats
        /\ r.failed = o.failed
    BY <1>1 DEF Entry
  <2> HIDE DEF r
  <2> QED BY <1>3, <2>1, <2>2 DEF o
<1>13. CASE ZapRefused(w, o)
  <2>1. Settle(w, o) /\ o.state = Prepared
    BY <1>13 DEF ZapRefused, Activated
  <2> HIDE DEF o
  <2> QED BY <1>3, <2>1 DEF o
<1>12. CASE StartRecording(w, o)
  <2> DEFINE r == [o EXCEPT !.state = Running, !.recorder = "recording"]
  <2>1. Settle(w, r)
    BY <1>12 DEF StartRecording
  <2> HIDE DEF o
  <2>2. /\ r.state = Running /\ r.begin = o.begin /\ r.end = o.end /\ r.repeats = o.repeats
        /\ r.failed = o.failed
    BY <1>1 DEF Entry
  <2> HIDE DEF r
  <2> QED BY <1>3, <2>1, <2>2 DEF o
<1> QED
  BY <1>4, <1>5, <1>6, <1>7, <1>8, <1>9, <1>10, <1>11, <1>12, <1>13
     DEF Chosen, DoActivate, StartFails, Starting

(* So calcNextActivation() changes no times but by days. *)
LEMMA CalcFollows ==
  ASSUME TimerInv, Starting, CalcNextActivation
  PROVE  \A x \in Timers : Follows(entry[x], entry'[x])
<1>1. \A x \in Timers : entry[x] \in Entry
  BY OneEntry
<1>2. CASE Calc \/ Reevaluated \/ SetNextActivation
  <2>1. entry' = entry
    BY <1>2 DEF Calc, Reevaluated, SetNextActivation, listVars
  <2> QED BY <1>1, <2>1, SameFollows
<1>3. CASE Reevaluate
  <2> DEFINE e == Head(warping)
             o == entry[e]
             w == [o EXCEPT !.state = Waiting, !.cancelled = FALSE]
             r == TimesSet(w)
  <2>1. warping \in Seq(Timers) /\ warping # <<>>
    BY <1>3 DEF TimerInv, Lists, Reevaluate
  <2>2. e \in Timers
    BY <2>1, HeadTailProperties
  <2>3. AddTimerEntry(e, r, list, processed, FALSE)
    BY <1>3 DEF Reevaluate
  <2>4. o \in Entry
    BY <1>1, <2>2
  <2> HIDE DEF e, o
  <2>5. ASSUME NEW n \in Waiting .. Ended, NEW c \in BOOLEAN
        PROVE  [o EXCEPT !.state = n, !.cancelled = c] \in Entry
    BY <2>4 DEF Entry
  <2>6. w \in Entry
    BY <2>5, EachState, Zenon
  <2>7. w.begin = o.begin /\ w.end = o.end /\ w.repeats = o.repeats /\ w.failed = o.failed
    BY <2>4 DEF Entry
  <2> HIDE DEF w
  <2>8. r \in Entry /\ Follows(w, r) /\ Follows(o, w)
    BY <2>4, <2>6, <2>7, TimesSetCarries, TimesSetFollows, SameFollows
  <2> HIDE DEF r
  <2>9. Follows(r, entry'[e]) /\ \A x \in Timers \ {e} : entry'[x] = entry[x]
    BY <2>2, <2>3, <2>8, AddFollows
  <2>10. Follows(o, entry'[e])
    BY <2>4, <2>6, <2>8, <2>9, FollowsOn
  <2> QED BY <1>1, <2>9, <2>10, SameFollows DEF o
<1>4. ASSUME NEW w \in Timers, Chosen(w) PROVE \A x \in Timers : Follows(entry[x], entry'[x])
  BY <1>4, ActivateFollows DEF Keeps
<1> QED BY <1>2, <1>3, <1>4 DEF CalcNextActivation, Chosen

(* The file has e with the times it has, or with those of an earlier day.  *)
Told(e) == \E i \in DOMAIN file : file[i].timer = e /\ DaysOn(file[i], entry[e])

Counts(e) == Places(e) /\ ~entry[e].failed /\ e \notin gone \cup {removing}

Agree ==
  /\ ~stale /\ ~saving => \A e \in Timers : Counts(e) => Told(e)
  /\ \A i \in DOMAIN toLoad : \E j \in DOMAIN file : file[j] = toLoad[i]

(* What is to be loaded is in the file, as it is after the step. *)
Reads == \/ toLoad' = toLoad /\ file' = file
         \/ toLoad' = <<>>

LEMMA ReadsOn ==
  ASSUME Agree, Reads
  PROVE  \A i \in DOMAIN toLoad' : \E j \in DOMAIN file' : file'[j] = toLoad'[i]
BY DEF Agree, Reads

(* A step that writes no file changes times by days.                       *)
LEMMA AgreeUnwritten ==
  ASSUME StoreInv, Agree, Reads, UNCHANGED <<file, stale, saving>>,
         \A x \in Timers : Counts(x)' => /\ Places(x) /\ x \notin gone \cup {removing}
                                         /\ Follows(entry[x], entry'[x])
  PROVE  Agree'
<1>1. ASSUME ~stale, ~saving, NEW x \in Timers, Counts(x)' PROVE Told(x)'
  <2>1. /\ Counts(x) /\ DaysOn(entry[x], entry'[x])
    BY <1>1 DEF Counts, Follows
  <2>2. PICK i \in DOMAIN file : file[i].timer = x /\ DaysOn(file[i], entry[x])
    BY <1>1, <2>1 DEF Agree, Told
  <2>3. file[i].begin \in Int /\ file[i].end \in Int
    <3>1. file[i] \in Stored
      BY <2>2, ElementOfSeq, LenProperties DEF StoreInv, StoreTyped, Filed
    <3> QED BY <3>1 DEF Stored
  <2>4. DaysOn(file[i], entry'[x])
    BY <2>1, <2>2, <2>3, DaysOnOn
  <2> QED BY <2>2, <2>4 DEF Told
<1> QED BY <1>1, ReadsOn DEF Agree

(* saveTimer() writes the times as they are in f. *)
LEMMA WriteTells ==
  ASSUME NEW l \in Seq(Timers), NEW p \in Seq(Timers), NEW f, Write(l, p, f)
  PROVE  ~stale' => \A i \in DOMAIN file' :
            /\ file'[i].begin = f[file'[i].timer].begin
            /\ file'[i].end = f[file'[i].timer].end
            /\ file'[i].repeats = f[file'[i].timer].repeats
BY DEF Write

(* A step that writes one is told by what it writes.                       *)
LEMMA AgreeWritten ==
  ASSUME StoreInv', Agree, Reads, NEW l \in Seq(Timers), NEW p \in Seq(Timers),
         NEW f, Writable(f), Write(l, p, f),
         \A x \in Timers : Counts(x)' => Follows(f[x], entry'[x])
  PROVE  Agree'
<1>1. ASSUME ~stale', ~saving', NEW x \in Timers, Counts(x)' PROVE Told(x)'
  <2>1. DaysOn(f[x], entry'[x])
    BY <1>1 DEF Counts, Follows
  <2>2. PICK i \in DOMAIN file' : file'[i].timer = x
    BY <1>1 DEF StoreInv, Safe, Counts, In
  <2>3. /\ file'[i].begin = f[x].begin /\ file'[i].end = f[x].end
        /\ file'[i].repeats = f[x].repeats
    BY <1>1, <2>2, WriteTells
  <2>4. DaysOn(file'[i], entry'[x])
    BY <2>1, <2>3 DEF DaysOn
  <2> QED BY <2>2, <2>4 DEF Told
<1> QED BY <1>1, ReadsOn DEF Agree

LEMMA TailReads ==
  ASSUME NEW f \in Seq(Stored), f # <<>>, NEW g,
         \A i \in DOMAIN f : \E j \in DOMAIN g : g[j] = f[i]
  PROVE  \A i \in DOMAIN Tail(f) : \E j \in DOMAIN g : g[j] = Tail(f)[i]
<1> DEFINE t == Tail(f)
<1>1. /\ t \in Seq(Stored) /\ Len(f) \in Nat \ {0} /\ Len(t) = Len(f) - 1
      /\ \A i \in 1 .. Len(t) : t[i] = f[i + 1]
  BY HeadTailProperties, LenProperties, EmptySeq
<1>2. DOMAIN f = 1 .. Len(f) /\ DOMAIN t = 1 .. Len(t)
  BY <1>1, LenProperties
<1> HIDE DEF t
<1>3. \A i \in 1 .. Len(t) : i + 1 \in 1 .. Len(f) /\ t[i] = f[i + 1]
  BY <1>1
<1> QED BY <1>2, <1>3 DEF t

(* calcNextActivation() takes nobody out. *)
LEMMA CalcRemovesNone ==
  ASSUME CalcNextActivation
  PROVE  removing' = removing
BY DEF CalcNextActivation, Calc, Reevaluate, Reevaluated, SetNextActivation, Chosen, DoActivate, Skip,
       DiskNotReady, DiskFull, Prepare, PrepareFails, PrepareRefused, PassStart, ZapRefused, StartRecording,
       StartFails, End, Quiet

LEMMA ProcessAgrees ==
  ASSUME StoreInv, StoreInv', Agree, Starting, Process
  PROVE  Agree'
<1>1. /\ CalcNextActivation /\ phase = "up" /\ toLoad' = toLoad /\ UNCHANGED <<saving, gone>>
      /\ TimerInv /\ toLoad = <<>>
  BY DEF Process, KeepsPhase, StoreInv, StoreTyped
<1>2. removing' = removing /\ \A x \in Timers : Places(x)' => Places(x)
  BY <1>1, CalcPlaces, CalcRemovesNone DEF Settled
<1>3. CASE \E w \in Timers : Ending(w)
  <2>1. PICK w \in Timers : Ending(w)
    BY <1>3
  <2> DEFINE o == entry[w]
             f == [entry EXCEPT ![w] = Finished(o)]
  <2>2. /\ w = Head(list) /\ loop = "processing" /\ FirstIsDue
        /\ o.state = Running /\ ~ShouldSkip(o)
    BY <2>1 DEF Ending, Activates, Activated
  <2>3. Write(list, processed, f)
    BY <1>3, <2>2 DEF Process
  <2>4. PICK v \in Timers : Chosen(v)
    BY <1>1, <2>2 DEF CalcNextActivation, Calc, Reevaluate, Reevaluated, SetNextActivation, Chosen
  <2>5. v = w
    BY <2>2, <2>4 DEF Chosen, Activates
  <2>6. End(w, o)
    BY <2>2, <2>4, <2>5 DEF Chosen, DoActivate, Skip, DiskNotReady, DiskFull, Prepare, PrepareFails,
       PrepareRefused, PassStart, ZapRefused, StartRecording, StartFails, Starts, Activated, Waiting, Prepared, Running
  <2>7. o \in Entry /\ Finished(o) \in Entry /\ Keeps(w, Finished(o))
    BY <1>1, <2>6, OneEntry, FinishedType, SettleFollows DEF End
  <2>8. Writable(f)
    BY <1>1, <2>7, FinishedType, FieldsAreFiled
  <2>9. \A x \in Timers : Follows(f[x], entry'[x])
    BY <1>1, <2>7 DEF Keeps, TimerInv, Typed
  <2> HIDE DEF f
  <2> QED BY <1>1, <2>3, <2>8, <2>9, AgreeWritten, ListsAreFiled DEF Reads
<1>4. CASE ~\E w \in Timers : Ending(w)
  <2>1. UNCHANGED <<file, stale>>
    BY <1>4 DEF Process, Unwritten
  <2>2. \A x \in Timers : Follows(entry[x], entry'[x])
    BY <1>1, CalcFollows
  <2> QED BY <1>1, <1>2, <2>1, <2>2, AgreeUnwritten DEF Reads, Counts
<1> QED BY <1>3, <1>4

LEMMA StreamEndedAgrees ==
  ASSUME StoreInv, StoreInv', Agree, NEW e \in Timers, StreamEnded(e)
  PROVE  Agree'
<1>1. /\ GstRecordEnded(e) /\ phase = "up" /\ toLoad' = toLoad /\ TimerInv /\ toLoad = <<>>
      /\ entry[e] \in Entry /\ now \in Int
  BY OneEntry DEF StreamEnded, Up, KeepsPhase, StoreInv, StoreTyped
<1> DEFINE p == ProcessRepeated(entry[e], FALSE)
           q == [p EXCEPT !.recorder = "over"]
           f == [entry EXCEPT ![e] = Finished(p)]
<1>2. /\ p \in Entry /\ Carries(entry[e], p) /\ p.state = entry[e].state
  BY <1>1, RepeatedCarries
<1>3. StreamOf(e) = q /\ q \in Entry /\ End(e, q) /\ ~ShouldSkip(q) /\ entry[e].state = Running
  BY <1>1, StreamRuns DEF StreamOf
<1> HIDE DEF p
<1>4. Activated(p, Running)
  BY <1>2, <1>3 DEF Activated, ShouldSkip, Entry
<1>5. Write(list, processed, f)
  BY <1>4 DEF StreamEnded, p
<1>6. /\ Finished(p) \in Entry /\ (Finished(p).disabled => entry[e].disabled)
      /\ (Finished(p).repeats => entry[e].repeats)
  BY <1>2, FinishedType DEF Carries
<1>7. Writable(f)
  BY <1>1, <1>6, FieldsAreFiled
<1>8. /\ Finished(p).begin = Finished(q).begin /\ Finished(p).end = Finished(q).end
      /\ Finished(p).repeats = Finished(q).repeats /\ Finished(p).failed = Finished(q).failed
  BY <1>2 DEF Finished, Entry
<1> HIDE DEF q
<1>9. Finished(q) \in Entry /\ Keeps(e, Finished(q))
  BY <1>1, <1>3, FinishedType, SettleFollows DEF End
<1>10. Follows(Finished(p), entry'[e])
  BY <1>6, <1>8, <1>9 DEF Keeps, Follows, DaysOn
<1>11. \A x \in Timers : Follows(f[x], entry'[x])
  BY <1>1, <1>9, <1>10 DEF Keeps, TimerInv, Typed
<1> HIDE DEF f
<1> QED BY <1>1, <1>5, <1>7, <1>11, AgreeWritten, ListsAreFiled DEF Reads

LEMMA UserEditsAgrees ==
  ASSUME StoreInv, StoreInv', Agree, NEW e \in Timers, NEW b \in Begins, UserEdits(e, b)
  PROVE  Agree'
<1>1. /\ Edit(e, b) /\ phase = "up" /\ toLoad' = toLoad /\ TimerInv /\ toLoad = <<>>
      /\ entry[e] \in Entry
  BY OneEntry DEF UserEdits, Up, KeepsPhase, StoreInv, StoreTyped
<1> DEFINE begin == IF entry[e].state = Running THEN entry[e].begin ELSE b
           r == [entry[e] EXCEPT !.begin = begin, !.end = b + Length]
           f == [entry EXCEPT ![e] = r]
<1>2. Write(list, processed, f)
  BY DEF UserEdits
<1>3. begin \in Int /\ b + Length \in Int
  BY <1>1, RecordTimerAssumption DEF Entry
<1>4. TimeChanged(e, r)
  <2>1. entry[e].state = Running => r = [entry[e] EXCEPT !.end = b + Length]
    BY <1>1 DEF Entry
  <2> QED BY <1>1, <2>1 DEF Edit
<1> HIDE DEF begin
<1>5. r \in Entry /\ (r.disabled => entry[e].disabled) /\ (r.repeats => entry[e].repeats)
  <2>1. r \in Entry
    BY <1>1, <1>3, MovedType
  <2>2. r.disabled = entry[e].disabled /\ r.repeats = entry[e].repeats
    BY <1>1 DEF Entry
  <2> QED BY <2>1, <2>2
<1> HIDE DEF r
<1>6. Writable(f)
  BY <1>1, <1>5, FieldsAreFiled
<1>7. \A x \in Timers : entry[x] \in Entry
  BY <1>1, OneEntry
<1>8. \A x \in Timers : Follows(f[x], entry'[x])
  BY <1>1, <1>4, <1>5, <1>7, TimeChangedFollows, SameFollows DEF TimerInv, Typed
<1> HIDE DEF f
<1> QED BY <1>1, <1>2, <1>6, <1>8, AgreeWritten, ListsAreFiled DEF Reads

(* Save, and what removes entries, write them as they are.                 *)
LEMMA SavesAgree ==
  ASSUME StoreInv, StoreInv', Agree, NEW l \in Seq(Timers), NEW p \in Seq(Timers),
         Write(l, p, entry), entry' = entry, toLoad = <<>>, toLoad' = toLoad
  PROVE  Agree'
<1>1. TimerInv /\ \A x \in Timers : entry[x] \in Entry
  BY OneEntry DEF StoreInv
<1>2. \A x \in Timers : Follows(entry[x], entry'[x])
  BY <1>1, SameFollows
<1> QED BY <1>1, <1>2, AgreeWritten, ListsAreFiled DEF Reads

LEMMA UnsavedAgrees ==
  ASSUME StoreInv, Agree, Unsaved
  PROVE  Agree'
<1>1. /\ UNCHANGED <<toLoad, file, stale, saving, gone>> /\ TimerInv
      /\ \A x \in Timers : entry[x] \in Entry
  BY OneEntry DEF Unsaved, KeepsPhase, Unwritten, StoreInv
<1>2. \A x \in Timers : Settled(x) \/ Lost(x)
  BY UnsavedStep DEF Keeping
<1>3. SUFFICES \A x \in Timers : x # removing' =>
                  x # removing /\ Follows(entry[x], entry'[x])
  <2>1. \A x \in Timers : Places(x)' => Places(x)
    BY <1>2 DEF Settled, Lost
  <2> QED BY <1>1, <1>3, <2>1, AgreeUnwritten DEF Reads, Counts
<1>4. \A x \in Timers : Follows(entry[x], entry[x])
  BY <1>1, SameFollows
<1>5. removing = NoTimer /\ NoTimer \notin Timers
  BY RecordTimerAssumption DEF Unsaved, TimerFires, Tick, SetClock, Disable, Enable, RemoveEntry,
     WriteError, RecordAborted, Idle
<1>6. CASE TimerFires \/ Tick \/ \E t \in 0 .. MaxTime : SetClock(t)
  BY <1>4, <1>5, <1>6 DEF TimerFires, Tick, SetClock, listVars
<1>7. ASSUME NEW e \in Timers, Disable(e) \/ Enable(e)
      PROVE  \A x \in Timers : Follows(entry[x], entry'[x])
  <2>1. PICK d \in BOOLEAN : TimeChanged(e, [entry[e] EXCEPT !.disabled = d])
    BY <1>7 DEF Disable, Enable
  <2> DEFINE r == [entry[e] EXCEPT !.disabled = d]
  <2>2. /\ r \in Entry /\ r.begin = entry[e].begin /\ r.end = entry[e].end
        /\ r.repeats = entry[e].repeats /\ r.failed = entry[e].failed
    BY <1>1 DEF Entry
  <2> HIDE DEF r
  <2>3. TimeChanged(e, r)
    BY <2>1 DEF r
  <2>4. Follows(entry[e], r) /\ Follows(r, entry'[e]) /\ \A x \in Timers \ {e} : entry'[x] = entry[x]
    BY <1>1, <2>2, <2>3, SameFollows, TimeChangedFollows
  <2> QED BY <1>1, <1>4, <2>2, <2>4, FollowsOn
<1>8. ASSUME NEW e \in Timers, WriteError(e)
      PROVE  \A x \in Timers : Follows(entry[x], entry'[x])
  <2> DEFINE g == GivenUp(entry[e])
             r == [g EXCEPT !.recorder = "none"]
  <2>1. entry' = [entry EXCEPT ![e] = r]
    BY <1>8 DEF WriteError
  <2>2. g \in Entry /\ g.failed
    <3>1. now \in Int
      BY <1>1 DEF TimerInv, Typed
    <3> QED BY <1>1, <3>1, GivenUpType
  <2> HIDE DEF g
  <2>3. r.failed
    BY <2>2 DEF Entry
  <2> HIDE DEF r
  <2> QED BY <1>1, <1>4, <2>1, <2>3 DEF Follows, TimerInv, Typed
<1>9. ASSUME NEW e \in Timers, RemoveEntry(e) \/ RecordAborted(e)
      PROVE  removing' = e /\ \A x \in Timers \ {e} : Follows(entry[x], entry'[x])
  <2>1. AbortEntry(e)
    BY <1>9 DEF RemoveEntry, RecordAborted
  <2> DEFINE r == [entry[e] EXCEPT !.repeats = FALSE, !.cancelled = TRUE, !.end = now,
                                   !.begin = IF @ > now THEN now ELSE @]
  <2>2. removing' = e /\ (entry' = [entry EXCEPT ![e] = r] \/ TimeChanged(e, r))
    BY <2>1 DEF AbortEntry
  <2>3. r \in Entry
    BY <1>1 DEF Entry, TimerInv, Typed
  <2> HIDE DEF r
  <2>4. \A x \in Timers \ {e} : entry'[x] = entry[x]
    BY <1>1, <2>2, <2>3, TimeChangedFollows DEF TimerInv, Typed
  <2> QED BY <1>4, <2>2, <2>4
<1>10. ASSUME NEW e \in Timers, Disable(e) \/ Enable(e) \/ WriteError(e)
       PROVE  removing' = removing
  BY <1>10 DEF Disable, Enable, WriteError, Undisturbed
<1> QED BY <1>5, <1>6, <1>7, <1>8, <1>9, <1>10 DEF Unsaved

LEMMA AddingAgrees ==
  ASSUME StoreInv, Agree, Adding
  PROVE  Agree'
<1> DEFINE x == Head(toLoad)
           e == x.timer
           m == Created(x)
<1>1. /\ e \in Timers /\ toLoad' = Tail(toLoad) /\ toLoad # <<>>
      /\ UNCHANGED <<warping, removing, saving, gone, file, stale>>
      /\ Handled(e) /\ TimerInv
  BY ReadingStep, LoadStep DEF Adding, StoreInv
<1>2. AddTimerEntry(e, TimesSet(m), list, processed, TRUE)
  BY DEF Adding
<1>3. toLoad \in Seq(Stored)
  BY DEF StoreInv, StoreTyped, Filed
<1>4. x = toLoad[1] /\ 1 \in DOMAIN toLoad /\ x \in Stored
  BY <1>1, <1>3, HeadTailProperties, LenProperties, EmptySeq, ElementOfSeq
<1>5. PICK j \in DOMAIN file : file[j] = x
  BY <1>4 DEF Agree
<1> HIDE DEF x
<1>6. /\ x.begin \in Int /\ x.end \in Int /\ x.disabled \in BOOLEAN /\ x.repeats \in BOOLEAN
  BY <1>4 DEF Stored
<1>7. m \in Entry /\ m.begin = x.begin /\ m.end = x.end /\ m.repeats = x.repeats
  <2>1. NewEntry(e) \in Entry
    BY <1>1, NewType
  <2>2. PICK i \in Int, k \in Int, d \in BOOLEAN, g \in BOOLEAN :
               i = x.begin /\ k = x.end /\ d = x.disabled /\ g = x.repeats
    BY <1>6
  <2>3. m = [NewEntry(e) EXCEPT !.begin = i, !.end = k, !.disabled = d, !.repeats = g]
    BY <2>2 DEF Created
  <2> HIDE DEF m
  <2>4. m \in Entry /\ m.begin = i /\ m.end = k /\ m.repeats = g
    BY <2>1, <2>3 DEF Entry
  <2> QED BY <2>2, <2>4
<1> HIDE DEF e, m
<1>8. TimesSet(m) \in Entry /\ Follows(m, TimesSet(m))
  BY <1>7, TimesSetCarries, TimesSetFollows
<1> DEFINE r == TimesSet(m)
<1> HIDE DEF r
<1>9. Follows(r, entry'[e]) /\ \A z \in Timers \ {e} : entry'[z] = entry[z]
  BY <1>1, <1>2, <1>8, AddFollows DEF r
<1>10. Follows(m, entry'[e])
  BY <1>7, <1>8, <1>9, FollowsOn DEF r
<1>11. \A z \in Timers \ {e} : Places(z)' => Places(z)
  BY <1>1, AddingPlaces DEF Settled
<1>12. ASSUME ~stale, ~saving, NEW z \in Timers, Counts(z)' PROVE Told(z)'
  <2>1. CASE z = e
    <3>1. DaysOn(m, entry'[e])
      BY <1>10, <1>12, <2>1 DEF Follows, Counts
    <3>2. DaysOn(file[j], entry'[e])
      BY <1>5, <1>7, <3>1 DEF DaysOn
    <3> QED BY <1>1, <1>5, <2>1, <3>2 DEF Told, e
  <2>2. CASE z # e
    BY <1>1, <1>9, <1>11, <1>12, <2>2 DEF Agree, Counts, Told
  <2> QED BY <2>1, <2>2
<1>13. \A i \in DOMAIN toLoad' : \E k \in DOMAIN file' : file'[k] = toLoad'[i]
  BY <1>1, <1>3, TailReads DEF Agree
<1> QED BY <1>1, <1>12, <1>13 DEF Agree

LEMMA DroppingAgrees ==
  ASSUME StoreInv, Agree, Dropping
  PROVE  Agree'
<1>1. /\ toLoad' = Tail(toLoad) /\ toLoad # <<>>
      /\ UNCHANGED <<warping, removing, saving, gone, file, stale>>
  BY ReadingStep DEF Dropping
<1>2. UNCHANGED <<list, processed, warping, entry>>
  BY DroppingIsQuiet DEF vars, listVars
<1>3. toLoad \in Seq(Stored)
  BY DEF StoreInv, StoreTyped, Filed
<1>4. \A i \in DOMAIN toLoad' : \E k \in DOMAIN file' : file'[k] = toLoad'[i]
  BY <1>1, <1>3, TailReads DEF Agree
<1> QED BY <1>1, <1>2, <1>4 DEF Agree, Counts, Told, Places

LEMMA AgreeStep ==
  ASSUME StoreInv, Agree, Starting, [StoreNext]_allVars
  PROVE  Agree'
<1>1. StoreInv' /\ TimerInv /\ (phase = "up" => toLoad = <<>>)
  BY StoreStep DEF StoreInv, StoreTyped
<1>2. CASE Process
  BY <1>1, <1>2, ProcessAgrees
<1>3. ASSUME NEW e \in Timers, StreamEnded(e) PROVE Agree'
  BY <1>1, <1>3, StreamEndedAgrees
<1>4. ASSUME NEW e \in Timers, NEW b \in Begins, UserEdits(e, b) PROVE Agree'
  BY <1>1, <1>4, UserEditsAgrees
<1>5. ASSUME NEW e \in Timers, NEW b \in Begins, UserRecords(e, b) PROVE Agree'
  <2>1. saving' /\ UNCHANGED <<toLoad, file>>
    BY <1>5 DEF UserRecords, KeepsPhase, Unwritten
  <2> QED BY <2>1 DEF Agree
<1>6. CASE Save
  <2>1. Write(list, processed, entry) /\ UNCHANGED <<entry, toLoad>> /\ phase = "up"
    BY <1>6 DEF Save, KeepsPhase, vars, listVars
  <2> QED BY <1>1, <2>1, SavesAgree, ListsAreFiled
<1>7. CASE RemovedAndSaved \/ CleanedAndSaved
  <2>1. Write(list, processed', entry) /\ UNCHANGED <<entry, toLoad>> /\ phase = "up"
    BY <1>7 DEF RemovedAndSaved, CleanedAndSaved, Removed, Cleanup, Up, KeepsPhase
  <2>2. list \in Seq(Timers) /\ processed' \in Seq(Timers)
    BY <1>1 DEF StoreInv, TimerInv, Lists
  <2> QED BY <1>1, <2>1, <2>2, SavesAgree
<1>8. CASE Unsaved
  BY <1>8, UnsavedAgrees
<1>9. CASE Crash \/ Shutdown \/ LoadRaises
  <2>1. Start(file')
    BY <1>9, RestartingStep DEF Restarting
  <2>2. toLoad' = file' /\ \A x : ~Places(x)'
    BY <2>1 DEF Start, Places, Contains
  <2> QED BY <2>2 DEF Agree, Counts
<1>10. CASE Load
  BY <1>10, AddingAgrees, DroppingAgrees DEF Load, Adding, Dropping, Reading
<1>11. CASE LoadProcess
  <2>1. UNCHANGED <<toLoad, file, stale, saving, gone>> /\ (CalcNextActivation \/ Tick)
    BY <1>11 DEF LoadProcess, KeepsPhase, Unwritten
  <2>2. \A x \in Timers : entry[x] \in Entry
    BY <1>1, OneEntry
  <2>3. removing' = removing /\ \A x \in Timers : Follows(entry[x], entry'[x])
    <3>1. CASE Tick
      BY <2>2, <3>1, SameFollows DEF Tick, listVars
    <3>2. CASE CalcNextActivation
      BY <1>1, <3>2, CalcFollows, CalcRemovesNone
    <3> QED BY <2>1, <3>1, <3>2
  <2>4. \A x \in Timers : Places(x)' => Places(x)
    BY <1>11, LoadingStep DEF Keeping, Settled, Lost
  <2> QED BY <2>1, <2>3, <2>4, AgreeUnwritten DEF Reads, Counts
<1>12. CASE Loaded \/ UNCHANGED allVars
  <2>1. UNCHANGED <<list, processed, warping, entry, removing, toLoad, file, stale, saving, gone>>
    BY <1>12 DEF Loaded, allVars, storeVars, vars, listVars
  <2> QED BY <2>1 DEF Agree, Counts, Told, Places
<1> QED BY <1>2, <1>3, <1>4, <1>5, <1>6, <1>7, <1>8, <1>9, <1>10, <1>11, <1>12 DEF StoreNext

LEMMA DaysOnIsCurrent ==
  ASSUME NEW x, NEW r, x.begin \in Int, x.end \in Int, DaysOn(x, r), x.repeats \in BOOLEAN
  PROVE  Current(x, r)
<1>1. PICK k \in Nat : /\ ~x.repeats => k = 0
                       /\ r.begin = x.begin + Day * k /\ r.end = x.end + Day * k
  BY DEF DaysOn
<1>2. PICK d \in Nat \ {0} : d = Day
  BY RecordTimerAssumption
<1>3. d * k \in Nat /\ k <= d * k /\ d * k = k * d
  <2>1. PICK c \in Nat : d = c + 1
    <3>1. d - 1 \in Nat /\ d = (d - 1) + 1
      OBVIOUS
    <3> QED BY <3>1
  <2>2. c * k \in Nat /\ (c + 1) * k = c * k + k
    OBVIOUS
  <2> QED BY <2>1, <2>2
<1>4. r.begin - x.begin = d * k /\ r.end - x.end = d * k /\ r.begin = x.begin + k * d
  BY <1>1, <1>2, <1>3
<1>5. k \in 0 .. r.begin - x.begin
  BY <1>3, <1>4
<1>6. k = 0 => r.begin = x.begin
  <2>1. d * 0 = 0 /\ x.begin + 0 = x.begin
    OBVIOUS
  <2> QED BY <1>1, <1>2, <2>1
<1> QED BY <1>1, <1>2, <1>4, <1>5, <1>6 DEF Current, DaysOn

(* No timer depends on the memory: whenever the program may fail, also     *)
(* while it is still reading the file, each that it knows is in the file   *)
(* with the times the user has set, which go on by days in memory only     *)
(* (RecordTimer.py:1118-1187, 653, TimerEdit.py:405-431).  No start may    *)
(* fail, which would put the begin off, and no stream that repeats may be  *)
(* disabled while it runs.                                                 *)
THEOREM KnownIsInFile ==
  ASSUME Steady, Starting
  PROVE  StoreSpec => []KnownIsStored
<1>1. StoreInit => Agree
  BY DEF StoreInit, Init, Agree, Counts, Places, Contains
<1>2. StoreInv /\ Agree /\ [StoreNext]_allVars => Agree'
  BY AgreeStep
<1>3. ASSUME StoreInv, Agree PROVE KnownIsStored
  <2> SUFFICES ASSUME ~stale, ~saving, NEW e \in Timers
               PROVE  /\ Known(e) \/ In(e, toLoad) => In(e, file)
                      /\ Known(e) /\ ~entry[e].failed /\ e \notin gone \cup {removing} =>
                           \E i \in DOMAIN file : file[i].timer = e /\ Current(file[i], entry[e])
    BY DEF KnownIsStored
  <2>1. Known(e) \/ In(e, toLoad) => In(e, file)
    BY <1>3 DEF StoreInv, Safe, Known, Places
  <2>2. ASSUME Known(e), ~entry[e].failed, e \notin gone \cup {removing}
        PROVE  \E i \in DOMAIN file : file[i].timer = e /\ Current(file[i], entry[e])
    <3>1. PICK i \in DOMAIN file : file[i].timer = e /\ DaysOn(file[i], entry[e])
      BY <1>3, <2>2 DEF Agree, Counts, Told, Known, Places
    <3>2. file[i] \in Stored
      BY <1>3, <3>1, ElementOfSeq, LenProperties DEF StoreInv, StoreTyped, Filed
    <3>3. Current(file[i], entry[e])
      BY <3>1, <3>2, DaysOnIsCurrent DEF Stored
    <3> QED BY <3>1, <3>3
  <2> QED BY <2>1, <2>2
<1> QED BY <1>1, <1>2, <1>3, StoreAlways, PTL DEF StoreSpec

-----------------------------------------------------------------------------
(* Removed for good *)

(* What the user has removed is nowhere: not in memory, not still to be    *)
(* loaded, and not in the file unless that could not be written.           *)
GoneIsGone ==
  \A e \in gone : ~Places(e) /\ ~In(e, toLoad) /\ (~stale => ~In(e, file))

AwayInv == Punctual /\ Onward /\ Leaving /\ GoneIsGone

(* The timers go on across a restart as they do between them.              *)
LEMMA StoreOnTime ==
  ASSUME StoreInv, Punctual, Onward, Leaving, [StoreNext]_allVars, Undamaged
  PROVE  Punctual' /\ Onward' /\ Leaving'
<1>1. TimerInv
  BY DEF StoreInv
<1>2. CASE [Next]_vars
  <2>1. Punctual'
    BY <1>1, <1>2, PunctualStep
  <2>2. Onward'
    BY <1>1, <1>2, OnwardStep
  <2>3. Leaving'
    BY <1>1, <1>2, LeavingStep DEF Punctual
  <2> QED BY <2>1, <2>2, <2>3
<1>3. CASE Restarting
  <2>1. /\ list' = <<>> /\ last' = now /\ now' = now /\ loop' = "idle" /\ removing' = NoTimer
        /\ \A x : ~Contains(list', x)
    BY <1>3 DEF Restarting, Start, Contains
  <2>2. Punctual'
    BY <2>1 DEF Punctual, SortedAs
  <2> QED BY <2>1, <2>2 DEF Onward, Leaving
<1>4. CASE Adding
  <2>1. PICK e \in Timers : Handled(e)
    BY <1>4, LoadStep
  <2>2. /\ loop = "idle" /\ UNCHANGED clockVars
        /\ removing' = NoTimer
    BY <1>4, ReadingStep DEF Adding
  <2>3. Punctual'
    BY <1>1, <2>1, <2>2, StaysTimed DEF Punctual, clockVars
  <2>4. loop' \in {loop, "calc"}
    BY <2>1 DEF Handled, Queued
  <2>5. Onward'
    BY <2>2, <2>4 DEF Onward
  <2> QED BY <2>2, <2>3, <2>5 DEF Leaving
<1>5. \/ Keeping \/ Dropping \/ (\E S \in SUBSET Timers : Removing(S))
      \/ \E e \in Timers : Recording(e)
      => [Next]_vars
  BY DroppingIsQuiet DEF Keeping, Removing, Recording, Next
<1> QED BY <1>2, <1>3, <1>4, <1>5, StoreSteps

LEMMA GoneStep ==
  ASSUME StoreInv, Leaving, GoneIsGone, [StoreNext]_allVars
  PROVE  GoneIsGone'
<1>1. TimerInv /\ gone \subseteq Timers
  BY DEF StoreInv, StoreTyped
<1>2. CASE Keeping
  <2> SUFFICES ASSUME NEW x \in gone
               PROVE  ~Places(x)' /\ ~In(x, toLoad') /\ (~stale' => ~In(x, file'))
    BY <1>2 DEF Keeping, GoneIsGone
  <2>1. x \in Timers /\ ~Places(x) /\ ~In(x, toLoad) /\ (~stale => ~In(x, file))
    BY <1>1 DEF GoneIsGone
  <2> QED BY <1>2, <2>1 DEF Keeping, Settled, Lost
<1>3. ASSUME NEW S \in SUBSET Timers, Removing(S) PROVE GoneIsGone'
  <2>1. /\ loop = "idle" /\ gone' = gone \cup S /\ toLoad' = toLoad /\ toLoad = <<>>
        /\ UNCHANGED <<list, warping>>
        /\ \A x \in Timers : Contains(processed', x) <=> Contains(processed, x) /\ x \notin S
        /\ \A x \in S : x = removing \/ ~Contains(list, x)
        /\ ~stale' => \A x \in Timers : In(x, file') <=> Contains(list, x) \/ Contains(processed', x)
    BY <1>3 DEF Removing
  <2>2. \A x \in S : ~Contains(list, x)
    BY <2>1, RecordTimerAssumption DEF Leaving
  <2>3. \A x \in Timers : ~Contains(warping, x)
    BY <1>1, <2>1, IdleLists
  <2> SUFFICES ASSUME NEW x \in gone \cup S
               PROVE  ~Places(x)' /\ ~In(x, toLoad') /\ (~stale' => ~In(x, file'))
    BY <2>1 DEF GoneIsGone
  <2>4. x \in Timers
    BY <1>1
  <2>5. ~Contains(list, x) /\ ~Contains(processed', x)
    BY <2>1, <2>2, <2>4 DEF GoneIsGone, Places
  <2>6. ~Places(x)'
    BY <2>1, <2>3, <2>4, <2>5 DEF Places
  <2>7. ~In(x, toLoad')
    BY <2>1 DEF In
  <2> QED BY <2>1, <2>4, <2>5, <2>6, <2>7
<1>4. CASE Restarting
  <2>1. Start(file')
    BY <1>4 DEF Restarting
  <2>2. /\ toLoad' = file' /\ list' = <<>> /\ processed' = <<>> /\ warping' = <<>>
        /\ gone' = {e \in gone : ~In(e, file')}
    BY <2>1 DEF Start
  <2>3. \A x : ~Places(x)'
    BY <2>2 DEF Contains, Places
  <2> QED BY <2>2, <2>3 DEF GoneIsGone
<1>5. CASE Adding
  <2>1. PICK e \in Timers : /\ Handled(e) /\ In(e, toLoad) /\ UNCHANGED warping
                            /\ \A x : In(x, toLoad') => In(x, toLoad)
    BY <1>5, LoadStep, ReadingStep DEF Adding
  <2>2. UNCHANGED <<gone, file, stale>>
    BY <1>5, ReadingStep DEF Adding
  <2>3. e \notin gone
    BY <2>1 DEF GoneIsGone
  <2>4. \A x \in Timers \ {e} : Places(x)' => Places(x)
    BY <1>1, <2>1, AddingPlaces DEF Settled
  <2> QED BY <1>1, <2>1, <2>2, <2>3, <2>4 DEF GoneIsGone
<1>6. ASSUME NEW e \in Timers, Recording(e) PROVE GoneIsGone'
  <2>1. /\ e \notin gone /\ UNCHANGED <<gone, file, stale, toLoad>>
        /\ \E b \in Begins : Record(e, b)
    BY <1>6 DEF Recording
  <2>2. Handled(e)
    BY <1>1, <2>1, RecordStep
  <2>3. UNCHANGED warping
    BY <2>1 DEF Record, Undisturbed
  <2>4. \A x \in Timers \ {e} : Places(x)' => Places(x)
    BY <1>1, <2>2, <2>3, AddingPlaces DEF Settled
  <2> QED BY <1>1, <2>1, <2>4 DEF GoneIsGone
<1>7. CASE Dropping
  <2>1. UNCHANGED <<gone, file, stale>> /\ \A x : In(x, toLoad') => In(x, toLoad)
    BY <1>7, ReadingStep DEF Dropping
  <2>2. UNCHANGED <<list, processed, warping>>
    BY <1>7, DroppingIsQuiet DEF vars, listVars
  <2> QED BY <2>1, <2>2 DEF GoneIsGone, Places
<1> QED BY <1>2, <1>3, <1>4, <1>5, <1>6, <1>7, StoreSteps

(* A removed timer stays away, over restarts and over timers that are      *)
(* saved while it is being removed (RecordTimer.py:1436-1472, 653): the    *)
(* last saveTimer() runs when the entry has left both lists, and nothing   *)
(* puts it back.                                                           *)
THEOREM RemovedForGood ==
  ASSUME Undamaged, Steady
  PROVE  StoreSpec => []RemovedStaysAway
<1>1. StoreInv /\ AwayInv /\ [StoreNext]_allVars => AwayInv'
  <2> SUFFICES ASSUME StoreInv, AwayInv, [StoreNext]_allVars PROVE AwayInv'
    OBVIOUS
  <2>1. Punctual' /\ Onward' /\ Leaving'
    BY Undamaged, StoreOnTime DEF AwayInv
  <2>2. GoneIsGone'
    BY GoneStep DEF AwayInv
  <2> QED BY <2>1, <2>2 DEF AwayInv
<1>2. StoreInit => AwayInv
  <2> SUFFICES ASSUME StoreInit PROVE AwayInv
    OBVIOUS
  <2>1. Punctual
    BY OnTimeInit DEF StoreInit
  <2>2. Onward /\ Leaving
    BY DEF StoreInit, Init, Onward, Leaving
  <2>3. GoneIsGone
    BY DEF StoreInit, GoneIsGone
  <2> QED BY <2>1, <2>2, <2>3 DEF AwayInv
<1>3. AwayInv => RemovedStaysAway
  BY DEF AwayInv, GoneIsGone, RemovedStaysAway, Known, Places
<1> QED BY <1>1, <1>2, <1>3, StoreAlways, PTL DEF StoreSpec

-----------------------------------------------------------------------------
(* Recorders that run *)

(* A recorder that runs is that of an entry that is queued, or that the    *)
(* user has disabled while it ran: such an entry repeats and is kept.      *)
Tended(e) ==
  entry[e].recorder = "recording" =>
    IF Contains(list, e)
    THEN ~entry[e].disabled /\ (entry[e].repeats \/ entry[e].state = Running)
    ELSE entry[e].disabled /\ entry[e].repeats /\ Places(e)

(* The user may also have removed it, or be about to. *)
Watched == \A e \in Timers : Tended(e) \/ e \in gone \/ e = removing

(* An entry that may be queued: with a recorder running it is not skipped, *)
(* unless because it is disabled.                                          *)
Fit(r) ==
  r.recorder = "recording" =>
    r.state # Ended /\ (r.repeats \/ (r.state = Running /\ ~r.disabled))

(* A repeated entry ends ahead, and is otherwise as it was.                *)
LEMMA RepeatedEndsAhead ==
  ASSUME NEW r \in Entry, now \in Int, r.repeats
  PROVE  ProcessRepeated(r, TRUE).end > now
<1>1. Day \in Nat \ {0} /\ r.end \in Int
  BY RecordTimerAssumption DEF Entry
<1>2. r.end + Day * DaysAhead(r.end) > now
  <2>1. CASE now < r.end
    BY <1>1, <2>1 DEF DaysAhead
  <2>2. CASE ~(now < r.end)
    <3>1. PICK d \in Nat \ {0} : d = Day
      BY <1>1
    <3>2. PICK late \in Nat : late = now - r.end
      BY <1>1, <2>2
    <3>3. PICK k \in Int : k = late \div d
      BY <3>1, <3>2
    <3>4. d * (k + 1) > late
      BY <3>1, <3>2, <3>3
    <3>5. DaysAhead(r.end) = k + 1
      BY <2>2, <3>1, <3>2, <3>3 DEF DaysAhead
    <3>6. PICK m \in Int : m = d * (k + 1)
      BY <3>1, <3>3
    <3> QED BY <1>1, <3>1, <3>2, <3>4, <3>5, <3>6
  <2> QED BY <2>1, <2>2
<1>3. PICK shift \in Int : shift = Day * DaysAhead(r.end)
  BY <1>1, DaysAheadType
<1>4. ProcessRepeated(r, TRUE) = TimesSet([r EXCEPT !.begin = @ + shift, !.end = @ + shift])
  BY <1>3 DEF ProcessRepeated
<1> QED BY <1>1, <1>2, <1>3, <1>4 DEF TimesSet, Entry

LEMMA TimesSetFlags ==
  ASSUME NEW r \in Entry
  PROVE  /\ TimesSet(r).recorder = r.recorder /\ TimesSet(r).disabled = r.disabled
         /\ TimesSet(r).repeats = r.repeats
BY DEF TimesSet, Entry

LEMMA WokenFlags ==
  ASSUME NEW r \in Entry
  PROVE  LET q == [r EXCEPT !.state = Waiting]
         IN  /\ q \in Entry /\ q.state = Waiting /\ q.recorder = r.recorder
             /\ q.disabled = r.disabled /\ q.repeats = r.repeats
<1>1. [r EXCEPT !.state = Waiting] \in Entry
  BY StateType, EachState
<1> QED BY <1>1 DEF Entry

LEMMA AddTends ==
  ASSUME TimerInv, NEW e \in Timers, NEW r \in Entry, NEW l, NEW p, NEW recalc,
         Taken(e, l, p), AddTimerEntry(e, r, l, p, recalc), Fit(r)
  PROVE  Tended(e)'
<1> DEFINE q == ProcessRepeated(r, TRUE)
           k == SkipChecked(q)
<1>0. now \in Int /\ entry \in [Timers -> Entry]
  BY DEF TimerInv, Typed
<1>1. q \in Entry /\ q.recorder = r.recorder /\ q.state = r.state
  BY <1>0, RepeatedCarries DEF Carries
<1>2. q.disabled = r.disabled /\ q.repeats = r.repeats
  BY <1>0, RepeatedFlags
<1>3. r.repeats => q.end > now
  BY <1>0, RepeatedEndsAhead
<1>4. CASE ShouldSkip(q) \/ q.state = Ended
  <2>1. /\ entry' = [entry EXCEPT ![e] = [k EXCEPT !.state = Ended]]
        /\ list' = l /\ processed' = Append(p, e)
    BY <1>4 DEF AddTimerEntry
  <2> HIDE DEF q
  <2>2. k \in Entry /\ k.recorder = q.recorder /\ (q.repeats => k = q)
    BY <1>1, SkipCarries DEF Carries
  <2> HIDE DEF k
  <2>3. /\ entry'[e].recorder = q.recorder
        /\ entry'[e].disabled = k.disabled /\ entry'[e].repeats = k.repeats
    BY <1>0, <2>1, <2>2 DEF Entry
  <2>4. ~Contains(list', e) /\ Contains(processed', e)
    BY <2>1, AppendPuts DEF Taken
  <2>5. ASSUME q.recorder = "recording" PROVE q.disabled /\ q.repeats
    <3>1. r.state # Ended /\ (r.repeats \/ (r.state = Running /\ ~r.disabled))
      BY <1>1, <2>5 DEF Fit
    <3>2. ShouldSkip(q)
      BY <1>1, <1>4, <3>1
    <3>3. q.end \in Int
      BY <1>1 DEF Entry
    <3> QED BY <1>0, <1>1, <1>2, <1>3, <3>1, <3>2, <3>3 DEF ShouldSkip, Running, Waiting
  <2> QED BY <2>2, <2>3, <2>4, <2>5 DEF Tended, Places
<1>5. CASE ~(ShouldSkip(q) \/ q.state = Ended)
  <2>1. entry' = [entry EXCEPT ![e] = q] /\ Insort(l, e, q)
    BY <1>5 DEF AddTimerEntry
  <2> HIDE DEF q
  <2>2. entry'[e] = q
    BY <1>0, <2>1
  <2>3. Contains(list', e)
    BY <2>1, InsortPuts DEF Taken
  <2>4. ~q.disabled
    BY <1>5 DEF ShouldSkip
  <2> QED BY <1>1, <1>2, <2>2, <2>3, <2>4 DEF Fit, Tended
<1> QED BY <1>4, <1>5

LEMMA TimeChangedTends ==
  ASSUME TimerInv, NEW e \in Timers, Known(e), NEW r \in Entry, r.state = entry[e].state,
         r.recorder = "recording" =>
           r.repeats \/ (Contains(list, e) /\ r.state = Running /\ ~r.disabled),
         TimeChanged(e, r)
  PROVE  Tended(e)'
<1> DEFINE q == TimesSet(r)
           w == [q EXCEPT !.state = Waiting]
<1>1. q \in Entry /\ q.state = r.state
  BY TimesSetCarries
<1>2. q.recorder = r.recorder /\ q.disabled = r.disabled /\ q.repeats = r.repeats
  BY TimesSetFlags
<1>3. Placed(e) /\ Lists /\ Within(list, list)
  BY OneEntry DEF TimerInv, Within
<1>4. CASE r.state = Ended
  <2>1. AddTimerEntry(e, w, list, RemoveFirst(processed, e), TRUE)
    BY <1>4 DEF TimeChanged
  <2> HIDE DEF q
  <2>2. w \in Entry /\ w.state = Waiting /\ w.recorder = q.recorder /\ w.repeats = q.repeats
    BY <1>1, WokenFlags
  <2> HIDE DEF w
  <2>3. Taken(e, list, RemoveFirst(processed, e))
    BY <1>3, <1>4, RemoveFirstTakes DEF Lists, Taken, Placed
  <2>4. Fit(w)
    BY <1>2, <1>3, <1>4, <2>2 DEF Fit, Placed, Waiting, Ended
  <2> QED BY <2>1, <2>2, <2>3, <2>4, AddTends
<1>5. CASE r.state # Ended
  <2>1. Contains(list, e) /\ ~Contains(processed, e)
    BY <1>3, <1>5 DEF Placed, Known
  <2>2. AddTimerEntry(e, q, RemoveFirst(list, e), processed, TRUE)
    BY <1>5, <2>1 DEF TimeChanged
  <2> HIDE DEF q
  <2>3. Taken(e, RemoveFirst(list, e), processed)
    BY <1>3, <2>1, RemoveFirstTakes DEF Lists, Taken
  <2>4. Fit(q)
    BY <1>1, <1>2, <1>5 DEF Fit
  <2> QED BY <1>1, <2>2, <2>3, <2>4, AddTends
<1> QED BY <1>4, <1>5

(* doActivate() puts an entry that has not ended back into timer_list.     *)
LEMMA RequeuedTends ==
  ASSUME TimerInv, NEW w \in Timers, NEW r, Settle(w, r), r.state < Ended, r.state # Ended,
         r.recorder = "recording" => ~r.disabled /\ (r.repeats \/ r.state = Running)
  PROVE  Tended(w)'
<1> DEFINE l == RemoveFirst(list, w)
<1>1. entry' = [entry EXCEPT ![w] = r] /\ Insort(l, w, r)
  BY Zenon DEF Settle
<1>2. l \in Seq(Timers) /\ Distinct(l) /\ ~Contains(l, w)
  BY RemoveFirstTakes DEF TimerInv, Lists
<1> HIDE DEF l
<1>3. entry'[w] = r
  BY <1>1 DEF TimerInv, Typed
<1>4. Contains(list', w)
  BY <1>1, <1>2, InsortPuts
<1> QED BY <1>3, <1>4 DEF Tended

LEMMA SettleTends ==
  ASSUME TimerInv, NEW w \in Timers, Contains(list, w), NEW r \in Entry, Settle(w, r),
         r.recorder = "recording" =>
           /\ ~r.disabled
           /\ r.repeats \/ r.state = Running
  PROVE  Tended(w)'
<1> DEFINE l == RemoveFirst(list, w)
           q == ProcessRepeated(r, TRUE)
           v == [q EXCEPT !.state = Waiting]
<1>0. /\ now \in Int /\ entry \in [Timers -> Entry] /\ ~Contains(processed, w)
      /\ Lists
  BY OneEntry DEF TimerInv, Typed, Placed
<1>1. /\ l \in Seq(Timers) /\ Distinct(l) /\ Within(l, list)
      /\ \A x : Contains(l, x) <=> Contains(list, x) /\ x # w
  BY <1>0, RemoveFirstTakes DEF Lists
<1>2. CASE r.state < Ended
  <2>1. r.state # Ended
    BY <1>2 DEF Ended
  <2> QED BY <1>2, <2>1, RequeuedTends
<1>3. CASE r.state = Ended /\ r.repeats
  <2>1. ~(r.state < Ended)
    BY <1>3 DEF Ended
  <2>2. AddTimerEntry(w, v, l, processed, TRUE)
    BY <1>3, <2>1, Zenon DEF Settle
  <2>3. q \in Entry
    BY <1>0, RepeatedCarries
  <2>4. q.repeats
    BY <1>0, <1>3, RepeatedFlags
  <2> HIDE DEF q
  <2>5. v \in Entry /\ v.state = Waiting /\ v.repeats
    BY <2>3, <2>4, WokenFlags
  <2> HIDE DEF v
  <2>6. Fit(v)
    BY <2>5 DEF Fit, Waiting, Ended
  <2>7. Taken(w, l, processed)
    BY <1>0, <1>1 DEF Taken, Lists
  <2> HIDE DEF l
  <2> QED BY <2>2, <2>5, <2>6, <2>7, AddTends
<1>4. CASE r.state = Ended /\ ~r.repeats
  <2>1. entry' = [x \in Timers |-> IF x = w THEN r
                    ELSE IF Contains(processed, x) THEN SkipChecked(entry[x]) ELSE entry[x]]
    BY <1>4 DEF Settle, Ended
  <2>2. entry'[w].recorder # "recording"
    BY <1>4, <2>1 DEF Running, Ended
  <2> QED BY <2>2 DEF Tended
<1> QED
  <2>1. r.state \in Waiting .. Ended
    BY DEF Entry
  <2> QED BY <1>2, <1>3, <1>4, <2>1 DEF Waiting, Ended

(* What a handler does to the others. *)
LEMMA OthersTended ==
  ASSUME TimerInv, NEW x \in Timers, Tended(x), Settled(x),
         Contains(list', x) <=> Contains(list, x),
         \/ entry'[x] = entry[x]
         \/ Contains(processed, x) /\ ~entry[x].repeats /\ entry'[x].recorder = entry[x].recorder
  PROVE  Tended(x)'
<1> SUFFICES ASSUME entry'[x].recorder = "recording"
             PROVE  IF Contains(list', x)
                    THEN ~entry'[x].disabled /\ (entry'[x].repeats \/ entry'[x].state = Running)
                    ELSE entry'[x].disabled /\ entry'[x].repeats /\ Places(x)'
  BY DEF Tended
<1>1. entry[x].recorder = "recording" /\ Placed(x)
  BY OneEntry
<1>2. CASE Contains(list, x)
  BY <1>1, <1>2 DEF Tended, Placed
<1>3. CASE ~Contains(list, x)
  <2>1. entry[x].disabled /\ entry[x].repeats /\ Places(x)
    BY <1>1, <1>3 DEF Tended
  <2>2. entry'[x] = entry[x]
    BY <2>1
  <2>3. Kept(entry'[x])
    BY <2>1, <2>2 DEF Kept
  <2> QED BY <1>3, <2>1, <2>2, <2>3 DEF Settled
<1> QED BY <1>2, <1>3

LEMMA ActivateTends ==
  ASSUME TimerInv, NEW w \in Timers, Chosen(w), Tended(w)
  PROVE  Tended(w)'
<1> DEFINE o == entry[w]
<1>1. o \in Entry /\ now \in Int
  BY OneEntry
<1>2. Contains(list, w)
  <2>1. list # <<>> /\ w = Head(list)
    BY DEF Chosen, DoActivate, Skip, DiskNotReady, DiskFull, Prepare, PrepareFails, PrepareRefused,
           PassStart, ZapRefused, StartRecording, StartFails, End, Starts, Activated, Activates, FirstIsDue
  <2> QED BY <2>1, TailDrops DEF TimerInv, Lists
<1>3. o.recorder = "recording" => ~o.disabled /\ (o.repeats \/ o.state = Running)
  BY <1>2 DEF Tended
<1>4. ASSUME NEW r, Settle(w, r), r.state < Ended, r.state # Ended,
             r.recorder = "recording" =>
               ~o.disabled /\ r.disabled = o.disabled /\ (r.state = Running \/ r.repeats)
      PROVE  Tended(w)'
  BY <1>4, RequeuedTends
<1>5. CASE Skip(w, entry[w])
  <2> DEFINE k == SkipChecked(o)
             r == [k EXCEPT !.state = Ended]
  <2>1. Settle(w, r) /\ ShouldSkip(o)
    BY <1>5 DEF Skip
  <2>2. k \in Entry /\ k.recorder = o.recorder /\ (o.repeats => k = o)
    BY <1>1, SkipCarries DEF Carries
  <2>3. o.recorder = "recording" => ~o.disabled /\ o.repeats
    BY <1>3, <2>1 DEF ShouldSkip, Waiting, Running
  <2> HIDE DEF o, k
  <2>4. /\ r \in Entry /\ r.recorder = k.recorder /\ r.disabled = k.disabled
        /\ r.repeats = k.repeats
    BY <2>2, StateType, EachState DEF Entry
  <2> HIDE DEF r
  <2> QED BY <1>2, <2>1, <2>2, <2>3, <2>4, SettleTends
<1>6. CASE End(w, entry[w])
  <2>1. Settle(w, Finished(o))
    BY <1>6 DEF End
  <2>2. Finished(o) \in Entry /\ Finished(o).recorder = "none"
    BY <1>1, FinishedType
  <2> QED BY <1>2, <2>1, <2>2, SettleTends
<1>7. CASE DiskNotReady(w, entry[w])
  <2> DEFINE r == [o EXCEPT !.retries = @ + 1, !.prep = now + RetryDelay]
  <2>1. Settle(w, r) /\ o.state = Waiting
    BY <1>7 DEF DiskNotReady, Activated
  <2> HIDE DEF o
  <2>2. r.state = o.state /\ r.recorder = o.recorder /\ r.disabled = o.disabled /\ r.repeats = o.repeats
    BY <1>1 DEF Entry
  <2> HIDE DEF r
  <2> QED BY <1>3, <1>4, <2>1, <2>2 DEF Waiting, Running, Ended
<1>8. CASE DiskFull(w, entry[w])
  <2> DEFINE r == [GivenUp(o) EXCEPT !.state = Prepared]
  <2>1. Settle(w, r) /\ o.state = Waiting
    BY <1>8 DEF DiskFull, Activated
  <2> HIDE DEF o
  <2>2. r.state = Prepared /\ r.recorder = o.recorder /\ r.disabled = o.disabled /\ r.repeats = o.repeats
    BY <1>1 DEF GivenUp, Entry
  <2> HIDE DEF r
  <2> QED BY <1>3, <1>4, <2>1, <2>2 DEF Waiting, Prepared, Running, Ended
<1>9. CASE Prepare(w, entry[w])
  <2> DEFINE p == [o EXCEPT !.state = Prepared, !.backoff = 0]
             r == [p EXCEPT !.retries = 0, !.recorder = "ready"]
  <2>1. (Settle(w, p) \/ Settle(w, r)) /\ o.state = Waiting
    BY <1>9 DEF Prepare, Activated
  <2> HIDE DEF o
  <2>2. /\ p.state = Prepared /\ p.recorder = o.recorder /\ p.disabled = o.disabled
        /\ p.repeats = o.repeats
    BY <1>1 DEF Entry
  <2>3. r.state = Prepared /\ r.recorder = "ready"
    BY <1>1 DEF Entry
  <2> HIDE DEF p, r
  <2> QED BY <1>3, <1>4, <2>1, <2>2, <2>3 DEF Waiting, Prepared, Running, Ended
<1>10. CASE PrepareFails(w, entry[w])
  <2> DEFINE r == [o EXCEPT !.retries = 0, !.recorder = "none",
                     !.backoff = NextBackoff(o), !.prep = now + NextBackoff(o)]
  <2>1. Settle(w, r) /\ o.state = Waiting
    BY <1>10 DEF PrepareFails, Activated
  <2> HIDE DEF o
  <2>2. r.state = o.state /\ r.recorder = "none"
    BY <1>1 DEF Entry
  <2> HIDE DEF r
  <2> QED BY <1>4, <2>1, <2>2 DEF Waiting, Ended
<1>11. CASE PrepareRefused(w, entry[w])
  <2> DEFINE r == [o EXCEPT !.retries = 0, !.recorder = "none"]
  <2>1. Settle(w, r) /\ o.state = Waiting
    BY <1>11 DEF PrepareRefused, Activated
  <2> HIDE DEF o
  <2>2. r.state = o.state /\ r.recorder = "none"
    BY <1>1 DEF Entry
  <2> HIDE DEF r
  <2> QED BY <1>4, <2>1, <2>2 DEF Waiting, Ended
<1>12. CASE PassStart(w, entry[w])
  <2> DEFINE r == [o EXCEPT !.state = Running]
  <2>1. Settle(w, r)
    BY <1>12 DEF PassStart
  <2> HIDE DEF o
  <2>2. r.state = Running /\ r.recorder = o.recorder /\ r.disabled = o.disabled
    BY <1>1 DEF Entry
  <2> HIDE DEF r
  <2> QED BY <1>3, <1>4, <2>1, <2>2 DEF Running, Ended
<1>15. CASE ZapRefused(w, entry[w])
  <2>1. Settle(w, o) /\ o.state = Prepared
    BY <1>15 DEF ZapRefused, Activated
  <2> HIDE DEF o
  <2> QED BY <1>3, <1>4, <2>1 DEF Prepared, Ended
<1>13. CASE StartRecording(w, entry[w])
  <2> DEFINE r == [o EXCEPT !.state = Running, !.recorder = "recording"]
  <2>1. Settle(w, r) /\ ~o.disabled
    BY <1>13 DEF StartRecording, Starts, Activated, ShouldSkip
  <2> HIDE DEF o
  <2>2. r.state = Running /\ r.disabled = o.disabled
    BY <1>1 DEF Entry
  <2> HIDE DEF r
  <2> QED BY <1>4, <2>1, <2>2 DEF Running, Ended
<1>14. CASE StartFails(w, entry[w])
  <2> DEFINE r == [o EXCEPT !.backoff = NextBackoff(o), !.begin = now + NextBackoff(o)]
  <2>1. Settle(w, r) /\ o.state = Prepared
    BY <1>14 DEF StartFails, Starts, Activated
  <2> HIDE DEF o
  <2>2. r.state = o.state /\ r.recorder = o.recorder /\ r.disabled = o.disabled /\ r.repeats = o.repeats
    BY <1>1 DEF Entry
  <2> HIDE DEF r
  <2> QED BY <1>3, <1>4, <2>1, <2>2 DEF Prepared, Running, Ended
<1> QED
  BY <1>5, <1>6, <1>7, <1>8, <1>9, <1>10, <1>11, <1>12, <1>13, <1>14, <1>15
     DEF Chosen, DoActivate

LEMMA ReevaluateTends ==
  ASSUME TimerInv, Reevaluate, NEW e \in Timers, e = Head(warping), Tended(e)
  PROVE  Tended(e)'
<1> DEFINE o == entry[e]
           w == [o EXCEPT !.state = Waiting, !.cancelled = FALSE]
           r == TimesSet(w)
<1>1. warping \in Seq(Timers) /\ Distinct(warping) /\ warping # <<>>
  BY DEF TimerInv, Lists, Reevaluate
<1>2. Contains(warping, e)
  BY <1>1, TailDrops
<1>3. o \in Entry /\ ~Contains(list, e) /\ ~Contains(processed, e)
  BY <1>2, OneEntry DEF Placed
<1>4. AddTimerEntry(e, r, list, processed, FALSE)
  BY DEF Reevaluate
<1>5. o.recorder = "recording" => o.repeats
  BY <1>3 DEF Tended
<1> HIDE DEF o
<1>6. ASSUME NEW s \in Waiting .. Ended, NEW c \in BOOLEAN
      PROVE  [o EXCEPT !.state = s, !.cancelled = c] \in Entry
  BY <1>3 DEF Entry
<1>7. w \in Entry
  BY <1>6, EachState, Zenon
<1>8. w.state = Waiting /\ w.recorder = o.recorder /\ w.repeats = o.repeats
  BY <1>3 DEF Entry
<1> HIDE DEF w
<1>9. r \in Entry /\ r.state = Waiting /\ r.recorder = w.recorder /\ r.repeats = w.repeats
  BY <1>7, <1>8, TimesSetCarries, TimesSetFlags
<1> HIDE DEF r
<1>10. Fit(r)
  BY <1>5, <1>8, <1>9 DEF Fit, Waiting, Ended
<1>11. Within(list, list)
  BY DEF Within
<1>12. Taken(e, list, processed)
  BY <1>3, <1>11 DEF TimerInv, Lists, Taken
<1> QED BY <1>4, <1>9, <1>10, <1>12, AddTends

(* A recorder that runs stays with its entry when the user edits, disables *)
(* or enables it: one that runs can be disabled only if it repeats.        *)
LEMMA ChangingTends ==
  ASSUME TimerInv, NEW e \in Timers, Tended(e),
         (\E b \in Begins : Edit(e, b)) \/ Disable(e) \/ Enable(e)
  PROVE  Tended(e)'
<1> DEFINE o == entry[e]
<1>1. o \in Entry /\ Placed(e) /\ (o.state = Running => Contains(list, e))
  BY OneEntry, KnownOrNot DEF Running, Waiting, Ended
<1>2. Known(e)
  BY DEF Edit, Disable, Enable
<1>3. o.recorder = "recording" =>
        o.repeats \/ (Contains(list, e) /\ o.state = Running /\ ~o.disabled)
  BY DEF Tended
<1>4. ASSUME NEW b \in Begins, Edit(e, b) PROVE Tended(e)'
  <2> DEFINE r == IF o.state = Running THEN [o EXCEPT !.end = b + Length]
                  ELSE [o EXCEPT !.begin = b, !.end = b + Length]
  <2>1. TimeChanged(e, r)
    BY <1>4 DEF Edit
  <2>2. b \in Int /\ b + Length \in Int
    BY RecordTimerAssumption
  <2> HIDE DEF o
  <2>3. r \in Entry
    <3>1. ASSUME NEW c \in Int PROVE [o EXCEPT !.end = c] \in Entry
      BY <1>1 DEF Entry
    <3>2. ASSUME NEW c \in Int PROVE [o EXCEPT !.begin = b, !.end = c] \in Entry
      BY <1>1, <2>2, MovedType
    <3> QED BY <2>2, <3>1, <3>2, Zenon
  <2>4. /\ r.state = o.state /\ r.recorder = o.recorder /\ r.repeats = o.repeats
        /\ r.disabled = o.disabled
    BY <1>1 DEF Entry
  <2> HIDE DEF r
  <2> QED BY <1>2, <1>3, <2>1, <2>3, <2>4, TimeChangedTends DEF o
<1>5. CASE Disable(e)
  <2> DEFINE r == [o EXCEPT !.disabled = TRUE]
  <2>1. TimeChanged(e, r) /\ (o.state = Running => o.repeats)
    BY <1>5 DEF Disable
  <2> HIDE DEF o
  <2>2. /\ r \in Entry /\ r.state = o.state /\ r.recorder = o.recorder
        /\ r.repeats = o.repeats
    BY <1>1 DEF Entry
  <2> HIDE DEF r
  <2> QED BY <1>2, <1>3, <2>1, <2>2, TimeChangedTends DEF o
<1>6. CASE Enable(e)
  <2> DEFINE r == [o EXCEPT !.disabled = FALSE]
  <2>1. TimeChanged(e, r)
    BY <1>6 DEF Enable
  <2> HIDE DEF o
  <2>2. /\ r \in Entry /\ r.state = o.state /\ r.recorder = o.recorder
        /\ r.repeats = o.repeats /\ ~r.disabled
    BY <1>1 DEF Entry
  <2> HIDE DEF r
  <2> QED BY <1>2, <1>3, <2>1, <2>2, TimeChangedTends DEF o
<1> QED BY <1>4, <1>5, <1>6

LEMMA HandledTends ==
  ASSUME TimerInv, NEW e \in Timers, NEW x \in Timers, Tended(x), Settled(x), x # e,
         Handled(e) \/ (InPlace(e) /\ ~Contains(list, e))
  PROVE  Tended(x)'
<1>1. CASE Handled(e)
  <2>1. Relisted(e) /\ Carries(entry[x], entry'[x])
    BY <1>1 DEF Handled, Moved
  <2>2. /\ Contains(list', x) <=> Contains(list, x)
        /\ \/ entry'[x] = entry[x]
           \/ Contains(processed, x) /\ ~entry[x].repeats
    BY <2>1 DEF Relisted
  <2> QED BY <2>1, <2>2, OthersTended DEF Carries
<1>2. CASE InPlace(e)
  <2>1. list' = list /\ entry'[x] = entry[x]
    BY <1>2 DEF InPlace, TimerInv, Typed
  <2> QED BY <2>1, OthersTended
<1> QED BY <1>1, <1>2

(* A recorder stays tended until its entry is removed, or is aborted.      *)
LEMMA TendedStep ==
  ASSUME TimerInv, [Next]_vars, NEW x \in Timers, Tended(x), Settled(x)
  PROVE  Tended(x)' \/ removing' = x
<1>1. CASE UNCHANGED <<list, entry>>
  BY <1>1, OthersTended
<1>2. CASE Reevaluate
  <2>1. Head(warping) \in Timers /\ Handled(Head(warping))
    BY <1>2, ReevaluateStep
  <2>2. CASE x = Head(warping)
    BY <1>2, <2>2, ReevaluateTends
  <2>3. CASE x # Head(warping)
    BY <2>1, <2>3, HandledTends
  <2> QED BY <2>2, <2>3
<1>3. ASSUME NEW w \in Timers, Chosen(w) PROVE Tended(x)'
  <2>1. CASE x = w
    BY <1>3, <2>1, ActivateTends
  <2>2. CASE x # w
    BY <1>3, <2>2, ActivateStep, HandledTends
  <2> QED BY <2>1, <2>2
<1>4. ASSUME NEW e \in Timers, (\E b \in Begins : Edit(e, b)) \/ Disable(e) \/ Enable(e)
      PROVE  Tended(x)'
  <2>1. Handled(e)
    BY <1>4, EditStep, DisableStep
  <2>2. CASE x = e
    BY <1>4, <2>2, ChangingTends
  <2> QED BY <2>1, <2>2, HandledTends
<1>5. ASSUME NEW e \in Timers, NEW b \in Begins, Record(e, b) PROVE Tended(x)'
  <2>1. Handled(e) /\ entry'[e].recorder = "none"
    BY <1>5, RecordStep
  <2>2. CASE x = e
    BY <2>1, <2>2 DEF Tended
  <2> QED BY <2>1, <2>2, HandledTends
<1>6. ASSUME NEW e \in Timers, RemoveEntry(e) \/ RecordAborted(e)
      PROVE  Tended(x)' \/ removing' = x
  <2>1. AbortEntry(e) /\ (Known(e) \/ entry[e].recorder # "none")
    BY <1>6 DEF RemoveEntry, RecordAborted
  <2>2. removing' = e
    BY <2>1 DEF AbortEntry
  <2> QED BY <2>1, <2>2, AbortStep, HandledTends
<1>7. ASSUME NEW e \in Timers, WriteError(e) PROVE Tended(x)'
  <2>1. UNCHANGED list /\ entry' = [entry EXCEPT ![e] = [GivenUp(entry[e]) EXCEPT !.recorder = "none"]]
    BY <1>7 DEF WriteError
  <2>2. CASE x = e
    <3>1. GivenUp(entry[e]) \in Entry
      BY OneEntry, GivenUpType
    <3>2. entry'[e].recorder = "none"
      BY <2>1, <3>1 DEF TimerInv, Typed, Entry
    <3> QED BY <2>2, <3>2 DEF Tended
  <2>3. CASE x # e
    <3>1. entry'[x] = entry[x]
      BY <2>1, <2>3 DEF TimerInv, Typed
    <3> QED BY <2>1, <3>1, OthersTended
  <2> QED BY <2>2, <2>3
<1>8. ASSUME NEW e \in Timers, GstRecordEnded(e) PROVE Tended(x)'
  <2>1. CASE x = e
    <3> DEFINE r == Finished(StreamOf(e))
    <3>1. Settle(e, r)
      BY <1>8, StreamRuns DEF End
    <3>2. StreamOf(e) \in Entry
      BY <1>8, StreamRuns
    <3>3. r \in Entry /\ r.recorder = "none"
      BY <3>2, FinishedType
    <3>4. Contains(list, e)
      BY <1>8, StreamRuns
    <3> HIDE DEF r
    <3> QED BY <2>1, <3>1, <3>3, <3>4, SettleTends
  <2>2. CASE x # e
    BY <1>8, <2>2, GstRecordEndedStep, HandledTends
  <2> QED BY <2>1, <2>2
<1>9. CASE Calc \/ Reevaluated \/ SetNextActivation \/ TimerFires \/ Removed \/ Tick
           \/ Cleanup \/ \E t \in 0 .. MaxTime : SetClock(t)
  <2>1. UNCHANGED <<list, entry>>
    BY <1>9 DEF Calc, Reevaluated, SetNextActivation, TimerFires, Removed, Tick, Cleanup, SetClock,
           listVars
  <2> QED BY <1>1, <2>1
<1>10. CASE UNCHANGED vars
  <2>1. UNCHANGED <<list, entry>>
    BY <1>10 DEF vars, listVars
  <2> QED BY <1>1, <2>1
<1> QED
  BY <1>2, <1>3, <1>4, <1>5, <1>6, <1>7, <1>8, <1>9, <1>10 DEF Next, CalcNextActivation, Chosen

(* While an entry is being removed, nothing else is. *)
LEMMA RemovingStays ==
  ASSUME [Next]_vars, removing # NoTimer
  PROVE  removing' = removing \/ Removed
<1>1. CASE Calc \/ Reevaluate \/ Reevaluated \/ SetNextActivation \/ UNCHANGED vars
  BY <1>1 DEF Calc, Reevaluate, Reevaluated, SetNextActivation, vars
<1>2. ASSUME NEW w \in Timers, Chosen(w) PROVE UNCHANGED removing
  BY <1>2 DEF Chosen, DoActivate, Skip, DiskNotReady, DiskFull, Prepare, PrepareFails, PrepareRefused,
         PassStart, ZapRefused, StartRecording, StartFails, End, Quiet
<1>3. CASE TimerFires \/ Tick \/ Cleanup \/ \E t \in 0 .. MaxTime : SetClock(t)
  BY <1>3 DEF TimerFires, Tick, Cleanup, SetClock, Idle
<1>4. ASSUME NEW e \in Timers,
             \/ \E b \in Begins : Record(e, b) \/ Edit(e, b)
             \/ Disable(e) \/ Enable(e) \/ WriteError(e) \/ GstRecordEnded(e)
             \/ RemoveEntry(e) \/ RecordAborted(e)
      PROVE  FALSE
  BY <1>4, StreamKeeps DEF Record, Edit, Disable, Enable, WriteError, RemoveEntry,
         RecordAborted, Idle
<1> QED BY <1>1, <1>2, <1>3, <1>4 DEF Next, CalcNextActivation, Chosen

LEMMA WatchedStep ==
  ASSUME StoreInv, Watched, [StoreNext]_allVars
  PROVE  Watched'
<1>0. TimerInv /\ removing \in Timers \cup {NoTimer} /\ NoTimer \notin Timers
  BY RecordTimerAssumption DEF StoreInv, TimerInv, Bounded
<1>1. CASE Keeping
  <2> SUFFICES ASSUME NEW x \in Timers PROVE Tended(x)' \/ x \in gone' \/ x = removing'
    BY DEF Watched
  <2>1. [Next]_vars /\ gone' = gone /\ (Settled(x) \/ Lost(x))
    BY <1>1 DEF Keeping
  <2>2. CASE x \in gone
    BY <2>1, <2>2
  <2>3. CASE x = removing
    <3>1. ~Removed
      BY <1>0, <1>1, <2>3 DEF Keeping, Removed, Aborted
    <3> QED BY <1>0, <2>1, <2>3, <3>1, RemovingStays
  <2>4. CASE Tended(x)
    <3>1. CASE Settled(x)
      BY <1>0, <2>1, <2>4, <3>1, TendedStep
    <3>2. CASE Lost(x)
      <4>1. ~Places(x)
        BY <3>2 DEF Lost
      <4>2. entry[x].recorder # "recording"
        BY <2>4, <4>1 DEF Tended, Places
      <4>3. removing' = x
        BY <3>2, <4>2 DEF Lost, WriteError
      <4> QED BY <4>3
    <3> QED BY <2>1, <3>1, <3>2
  <2> QED BY <2>2, <2>3, <2>4 DEF Watched
<1>2. ASSUME NEW S \in SUBSET Timers, Removing(S) PROVE Watched'
  <2> SUFFICES ASSUME NEW x \in Timers PROVE Tended(x)' \/ x \in gone' \/ x = removing'
    BY DEF Watched
  <2>1. /\ UNCHANGED <<list, entry, warping>> /\ gone' = gone \cup S
        /\ removing \in S \cup {NoTimer}
        /\ Contains(processed', x) <=> Contains(processed, x) /\ x \notin S
    BY <1>2 DEF Removing
  <2>2. CASE Tended(x) /\ x \notin S
    <3>1. Settled(x)
      BY <2>1, <2>2 DEF Settled, Places
    <3> QED BY <1>0, <2>1, <2>2, <3>1, OthersTended
  <2> QED BY <1>0, <2>1, <2>2 DEF Watched
<1>3. CASE Restarting
  <2>1. entry' = [e \in Timers |-> NewEntry(e)]
    BY <1>3 DEF Restarting, Start
  <2>2. ASSUME NEW x \in Timers PROVE entry'[x].recorder = "none"
    BY <2>1 DEF NewEntry
  <2> QED BY <2>2 DEF Watched, Tended
<1>4. ASSUME NEW e \in Timers, Handled(e), entry'[e].recorder = "none",
             UNCHANGED <<warping, gone, removing>>
      PROVE  Watched'
  <2>1. \A x \in Timers \ {e} : Settled(x)
    BY <1>0, <1>4, AddingPlaces
  <2>2. ASSUME NEW x \in Timers PROVE Tended(x)' \/ x \in gone' \/ x = removing'
    <3>1. CASE x = e
      BY <1>4, <3>1 DEF Tended
    <3>2. CASE x # e
      BY <1>0, <1>4, <2>1, <3>2, HandledTends DEF Watched
    <3> QED BY <3>1, <3>2
  <2> QED BY <2>2 DEF Watched
<1>5. CASE Adding
  <2>1. /\ Head(toLoad).timer \in Timers /\ Handled(Head(toLoad).timer)
        /\ entry'[Head(toLoad).timer].recorder = "none" /\ UNCHANGED <<warping, gone, removing>>
    BY <1>5, LoadStep, ReadingStep DEF Adding
  <2> QED BY <1>4, <2>1
<1>6. ASSUME NEW e \in Timers, Recording(e) PROVE Watched'
  <2>1. PICK b \in Begins : Record(e, b)
    BY <1>6 DEF Recording
  <2>2. UNCHANGED <<warping, gone, removing>>
    BY <1>6, <2>1 DEF Recording, Record, Undisturbed
  <2> QED BY <1>0, <1>4, <2>1, <2>2, RecordStep
<1>7. CASE Dropping
  <2>1. UNCHANGED <<list, processed, warping, entry, removing, gone>>
    BY <1>7, DroppingIsQuiet, ReadingStep DEF Dropping, vars, listVars
  <2> QED BY <2>1 DEF Watched, Tended, Places
<1> QED BY <1>1, <1>2, <1>3, <1>5, <1>6, <1>7, StoreSteps

-----------------------------------------------------------------------------
(* Nothing is lost *)

(* A timer of the file is in memory or still to be loaded, or the user has *)
(* removed it, or is about to, or it has been dropped because it is old or *)
(* double.                                                                 *)
Held(e) ==
  \/ Places(e) \/ In(e, toLoad) \/ e \in gone \cup dropped \/ Old(e)
  \/ Aborted /\ e = removing

FileInv == \A e \in Timers : In(e, file) => Held(e)

LEMMA ClockStep ==
  ASSUME StoreInv, [StoreNext]_allVars
  PROVE  \/ UNCHANGED <<now, clockSets>>
         \/ now' = now + 1 /\ clockSets' = clockSets
         \/ clockSets' = clockSets + 1
<1>1. ASSUME [Next]_vars
      PROVE  \/ UNCHANGED <<now, clockSets>>
             \/ now' = now + 1 /\ clockSets' = clockSets
             \/ clockSets' = clockSets + 1
  <2>1. CASE Calc \/ Reevaluate \/ Reevaluated \/ SetNextActivation \/ UNCHANGED vars
    BY <2>1 DEF Calc, Reevaluate, Reevaluated, SetNextActivation, vars, clockVars, bounds
  <2>2. ASSUME NEW w \in Timers, Chosen(w) PROVE UNCHANGED <<now, clockSets>>
    BY <2>2 DEF Chosen, DoActivate, Skip, DiskNotReady, DiskFull, Prepare, PrepareFails, PrepareRefused,
           PassStart, ZapRefused, StartRecording, StartFails, End, Quiet, clockVars, bounds
  <2>3. CASE TimerFires \/ Removed \/ Tick \/ Cleanup \/ \E t \in 0 .. MaxTime : SetClock(t)
    BY <2>3 DEF TimerFires, Removed, Tick, Cleanup, Edited, Undisturbed, SetClock, clockVars, bounds
  <2>4. ASSUME NEW e \in Timers,
               \/ \E b \in Begins : Record(e, b) \/ Edit(e, b)
               \/ Disable(e) \/ Enable(e) \/ WriteError(e) \/ GstRecordEnded(e)
               \/ RemoveEntry(e) \/ RecordAborted(e)
        PROVE  UNCHANGED <<now, clockSets>>
    BY <2>4, StreamKeeps DEF Record, Edit, Disable, Enable, WriteError, RemoveEntry,
           RecordAborted, AbortEntry, Edited, Undisturbed, Quiet, clockVars, bounds
  <2> QED BY <1>1, <2>1, <2>2, <2>3, <2>4 DEF Next, CalcNextActivation, Chosen
<1>2. Restarting => UNCHANGED <<now, clockSets>>
  BY DEF Restarting, Start, bounds
<1>3. Adding \/ Dropping => UNCHANGED <<now, clockSets>>
  BY ReadingStep DEF Adding, Dropping, clockVars, bounds
<1>4. Keeping \/ (\E S \in SUBSET Timers : Removing(S)) \/ (\E e \in Timers : Recording(e))
        => [Next]_vars
  BY DEF Keeping, Removing, Recording, Next
<1> QED BY <1>1, <1>2, <1>3, <1>4, StoreSteps

(* The latest time that the clock has shown never goes back.               *)
LEMMA LatestGrows ==
  ASSUME StoreInv, [StoreNext]_allVars
  PROVE  now \in Int /\ Latest \in Int /\ Latest' \in Int /\ now <= Latest /\ Latest <= Latest'
<1>1. /\ now \in 0 .. MaxTime /\ now' \in 0 .. MaxTime
      /\ clockSets \in 0 .. MaxClockSets /\ clockSets' \in 0 .. MaxClockSets
  BY StoreTimerStep DEF StoreInv, TimerInv, Bounded
<1>2. MaxTime \in Nat /\ MaxClockSets \in Nat
  BY RecordTimerAssumption
<1> QED BY <1>1, <1>2, ClockStep DEF Latest

(* What is old stays old as long as it is not changed, and what            *)
(* cleanupDaily() drops is old.                                            *)
LEMMA OldStays ==
  ASSUME StoreInv, [StoreNext]_allVars, NEW e \in Timers,
         \/ Old(e) /\ entry'[e] = entry[e]
         \/ ~Kept(entry'[e])
  PROVE  Old(e)'
<1>1. entry'[e] \in Entry
  BY StoreTimerStep DEF TimerInv, Typed
<1>2. entry'[e].end \in Int /\ KeepTime \in Nat
  BY <1>1, RecordTimerAssumption DEF Entry
<1> QED BY <1>2, LatestGrows DEF Old, Kept

(* A timer that is held stays so, where the lists have settled.            *)
LEMMA SettledIsHeld ==
  ASSUME StoreInv, [StoreNext]_allVars, NEW e \in Timers, Settled(e),
         Places(e) \/ (Old(e) /\ ~Places(e))
  PROVE  Places(e)' \/ Old(e)'
BY OldStays DEF Settled

Forgets ==
  \A e \in Timers : In(e, file) /\ ~In(e, file') => e \in gone' \cup dropped \/ Old(e)

LEMMA KeepingHolds ==
  ASSUME StoreInv, Watched, FileInv, [StoreNext]_allVars, Keeping
  PROVE  FileInv' /\ Forgets
<1>1. \/ file' = file
      \/ ~Aborted /\ toLoad = <<>> /\ \A x \in Timers : In(x, file') <=> Places(x)
  BY DEF Keeping
<1>2. ASSUME NEW x \in Timers, In(x, file) PROVE Held(x)
  BY <1>2 DEF FileInv
<1>3. ASSUME NEW x \in Timers, In(x, file), ~In(x, file')
      PROVE  x \in gone' \cup dropped \/ Old(x)
  <2>1. ~Aborted /\ toLoad = <<>> /\ ~Places(x)
    BY <1>1, <1>3
  <2>2. ~In(x, toLoad)
    BY <2>1 DEF In
  <2> QED BY <1>2, <1>3, <2>1, <2>2 DEF Held, Keeping
<1>4. ASSUME NEW x \in Timers, In(x, file') PROVE Held(x)'
  <2>1. Held(x)
    BY <1>1, <1>2, <1>4 DEF Held
  <2>2. CASE In(x, toLoad) \/ x \in gone \cup dropped
    BY <2>2 DEF Keeping, Held
  <2>3. CASE Aborted /\ x = removing
    BY <2>3 DEF Keeping, Held, Aborted
  <2>4. CASE Places(x) \/ (Old(x) /\ ~Places(x))
    <3>1. CASE Settled(x)
      BY <2>4, <3>1, SettledIsHeld DEF Held
    <3>2. CASE Lost(x)
      <4>1. ~WriteError(x) \/ x \in gone
        <5>1. CASE Tended(x)
          BY <3>2, <5>1 DEF Lost, Tended, Places, WriteError
        <5>2. CASE x = removing
          BY <5>2, RecordTimerAssumption DEF WriteError, Idle
        <5> QED BY <5>1, <5>2 DEF Watched
      <4>2. x \in gone \/ (loop' = "idle" /\ removing' = x)
        BY <3>2, <4>1 DEF Lost
      <4> QED BY <2>2, <4>2, RecordTimerAssumption DEF Held, Aborted
    <3> QED BY <3>1, <3>2 DEF Keeping
  <2> QED BY <2>1, <2>2, <2>3, <2>4 DEF Held
<1> QED BY <1>3, <1>4 DEF FileInv, Forgets

LEMMA RemovingHolds ==
  ASSUME StoreInv, FileInv, [StoreNext]_allVars, NEW S \in SUBSET Timers, Removing(S)
  PROVE  FileInv' /\ Forgets
<1>1. /\ gone' = gone \cup S /\ UNCHANGED <<toLoad, dropped>> /\ toLoad = <<>> /\ loop = "idle"
      /\ UNCHANGED <<list, warping, entry>> /\ removing \in S \cup {NoTimer}
      /\ \A x \in Timers : Contains(processed', x) <=> Contains(processed, x) /\ x \notin S
      /\ \/ file' = file
         \/ \A x \in Timers : In(x, file') <=> Contains(list, x) \/ Contains(processed', x)
  BY DEF Removing
<1>2. ASSUME NEW x \in Timers, x \notin S
      PROVE  /\ Places(x) => Contains(list, x) \/ Contains(processed', x)
             /\ Contains(list, x) \/ Contains(processed', x) => Places(x)'
  <2>1. ~Contains(warping, x)
    BY <1>1, IdleLists DEF StoreInv
  <2> QED BY <1>1, <1>2, <2>1 DEF Places
<1>3. ASSUME NEW x \in Timers, x \notin S, In(x, file)
      PROVE  Places(x) \/ x \in gone \cup dropped \/ Old(x)
  <2>1. ~In(x, toLoad)
    BY <1>1 DEF In
  <2> QED BY <1>1, <1>3, <2>1, RecordTimerAssumption DEF FileInv, Held
<1>4. ASSUME NEW x \in Timers, In(x, file), ~In(x, file')
      PROVE  x \in gone' \cup dropped \/ Old(x)
  BY <1>1, <1>2, <1>3, <1>4
<1>5. ASSUME NEW x \in Timers, In(x, file') PROVE Held(x)'
  <2>1. CASE x \in S
    BY <1>1, <2>1 DEF Held
  <2>2. CASE x \notin S
    <3>1. Places(x)' \/ x \in gone \cup dropped \/ Old(x)
      BY <1>1, <1>2, <1>3, <1>5, <2>2
    <3>2. Old(x) => Old(x)'
      BY <1>1, OldStays
    <3> QED BY <1>1, <3>1, <3>2 DEF Held
  <2> QED BY <2>1, <2>2
<1> QED BY <1>4, <1>5 DEF FileInv, Forgets

LEMMA RestartingHolds ==
  ASSUME StoreInv, FileInv, Restarting
  PROVE  FileInv' /\ Forgets
<1>1. /\ toLoad' = file' /\ gone' = {e \in gone : ~In(e, file')}
      /\ \/ file' = file
         \/ ~Aborted /\ toLoad = <<>> /\ \A x \in Timers : In(x, file') <=> Places(x)
  BY DEF Restarting, Start
<1>2. FileInv'
  BY <1>1 DEF FileInv, Held
<1>3. ASSUME NEW x \in Timers, In(x, file), ~In(x, file')
      PROVE  x \in gone' \cup dropped \/ Old(x)
  <2>1. ~Aborted /\ toLoad = <<>> /\ ~Places(x)
    BY <1>1, <1>3
  <2>2. ~In(x, toLoad)
    BY <2>1 DEF In
  <2> QED BY <1>1, <1>3, <2>1, <2>2 DEF FileInv, Held
<1> QED BY <1>2, <1>3 DEF Forgets

(* record() and loadTimer() put an entry into the lists.                   *)
LEMMA AddingHolds ==
  ASSUME StoreInv, FileInv, [StoreNext]_allVars, NEW e \in Timers, Handled(e),
         UNCHANGED <<warping, file, gone, dropped>>, loop = "idle", removing = NoTimer,
         \A x \in Timers \ {e} : In(x, toLoad) => In(x, toLoad')
  PROVE  FileInv' /\ Forgets
<1>1. Places(e)' /\ \A x \in Timers \ {e} : Settled(x)
  BY AddingPlaces DEF StoreInv
<1>2. ASSUME NEW x \in Timers, In(x, file) PROVE Held(x)'
  <2>1. CASE x = e
    BY <1>1, <2>1 DEF Held
  <2>2. CASE x # e
    <3>1. Held(x) /\ ~Aborted /\ Settled(x)
      BY <1>1, <1>2, <2>2 DEF FileInv, Aborted
    <3>2. CASE In(x, toLoad) \/ x \in gone \cup dropped
      BY <2>2, <3>2 DEF Held
    <3>3. CASE Places(x) \/ (Old(x) /\ ~Places(x))
      BY <3>1, <3>3, SettledIsHeld DEF Held
    <3> QED BY <3>1, <3>2, <3>3 DEF Held
  <2> QED BY <2>1, <2>2
<1> QED BY <1>2 DEF FileInv, Forgets

LEMMA HeldStep ==
  ASSUME StoreInv, Watched, FileInv, [StoreNext]_allVars
  PROVE  FileInv' /\ Forgets
<1>1. CASE Adding
  <2> DEFINE e == Head(toLoad).timer
  <2>1. /\ e \in Timers /\ Handled(e) /\ loop = "idle" /\ removing = NoTimer
        /\ UNCHANGED <<warping, file, gone, dropped>>
    BY <1>1, LoadStep, ReadingStep DEF Adding
  <2>2. \A x : In(x, toLoad') <=> In(x, toLoad) /\ x # e
    BY <1>1, ReadingStep DEF Adding
  <2> HIDE DEF e
  <2> QED BY <2>1, <2>2, AddingHolds
<1>2. ASSUME NEW e \in Timers, Recording(e) PROVE FileInv' /\ Forgets
  <2>1. UNCHANGED <<gone, dropped, file, toLoad>> /\ \E b \in Begins : Record(e, b)
    BY <1>2 DEF Recording
  <2>2. Handled(e)
    BY <2>1, RecordStep DEF StoreInv
  <2>3. UNCHANGED warping /\ loop = "idle" /\ removing = NoTimer
    BY <2>1 DEF Record, Idle, Undisturbed
  <2> QED BY <2>1, <2>2, <2>3, AddingHolds
<1>3. CASE Dropping
  <2> DEFINE e == Head(toLoad).timer
  <2>1. /\ dropped' = dropped \cup {e} /\ UNCHANGED <<file, gone>>
        /\ \A x : In(x, toLoad') <=> In(x, toLoad) /\ x # e
    BY <1>3, ReadingStep DEF Dropping
  <2>2. UNCHANGED <<list, processed, warping, entry>> /\ ~Aborted
    BY <1>3, DroppingIsQuiet DEF vars, listVars
  <2> HIDE DEF e
  <2>3. ASSUME NEW x \in Timers, In(x, file) PROVE Held(x)'
    <3>1. Places(x) \/ In(x, toLoad) \/ x \in gone \cup dropped \/ Old(x)
      BY <2>2, <2>3 DEF FileInv, Held
    <3>2. Old(x) => Old(x)'
      BY <2>2, OldStays
    <3>3. Places(x) => Places(x)'
      BY <2>2 DEF Places
    <3> QED BY <2>1, <3>1, <3>2, <3>3 DEF Held
  <2> QED BY <2>1, <2>3 DEF FileInv, Forgets
<1> QED BY <1>1, <1>2, <1>3, KeepingHolds, RemovingHolds, RestartingHolds, StoreSteps

(* A timer stays in the file until it is removed, through any number of    *)
(* restarts and failed writings and also when it ended while the receiver  *)
(* was off (RecordTimer.py:1083-1116): what is written is what is in       *)
(* memory, loadTimer() has put all of the file there before anything is    *)
(* written, or has taken it for double (1258-1260), and only cleanupDaily() *)
(* takes an entry out that is not being removed: what cleanup() takes, the *)
(* user has removed.                                                       *)
THEOREM StaysUntilOld ==
  ASSUME Steady
  PROVE  StoreSpec => StaysInFile
<1>1. StoreInv /\ Watched /\ [StoreNext]_allVars => Watched'
  BY WatchedStep
<1>2. StoreInv /\ Watched /\ FileInv /\ [StoreNext]_allVars => FileInv' /\ [Forgets]_allVars
  BY HeldStep
<1>3. StoreInit => Watched /\ FileInv
  <2> SUFFICES ASSUME StoreInit PROVE Watched /\ FileInv
    OBVIOUS
  <2>1. ASSUME NEW x \in Timers PROVE entry[x].recorder = "none"
    BY DEF StoreInit, Init, NewEntry
  <2> QED BY <2>1 DEF StoreInit, Watched, Tended, FileInv, In
<1>4. StoreInv /\ Watched /\ FileInv /\ [StoreNext]_allVars
        => [\A e \in Timers : In(e, file) /\ ~In(e, file')
                              => e \in gone' \cup dropped \/ Old(e)]_allVars
  BY <1>2 DEF Forgets
<1> QED BY <1>1, <1>2, <1>3, <1>4, StoreAlways, PTL DEF StoreSpec, StaysInFile
=============================================================================
