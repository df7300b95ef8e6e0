-------------------------- MODULE RepeatTimeProofs --------------------------
(***************************************************************************)
(* FirstWanted for the parameter findRunningEvent at its default, True:    *)
(* whatever the length of the day and of the week, the missing hours, the  *)
(* days of the timer and the arguments.                                    *)
(***************************************************************************)
EXTENDS RepeatTime, TLAPS

(* As long as no hour was missing, begin and end have moved together by    *)
(* one day per step, and none of the days left behind was wanted.          *)
TypeInv ==
  /\ start \in [begin : Int, end : Int]
  /\ begin \in Int /\ end \in Int /\ now \in Int /\ days \in Nat /\ done \in BOOLEAN

Moved ==
  Regular(days) => /\ begin = start.begin + days * Hours
                   /\ ~done => end = start.end + days * Hours

PassedOver ==
  Regular(days) =>
    \A k \in 0 .. days - 1 : ~Wanted(start.begin + k * Hours, start.end + k * Hours)

Inv == TypeInv /\ Moved /\ PassedOver /\ (done => Wanted(begin, end))

(* The loop invariant holds before the first step of nextRepeatTime().     *)
LEMMA LoopEntered == Init => Inv
<1> SUFFICES ASSUME Init PROVE Inv
  OBVIOUS
<1>1. TypeInv
  <2>1. begin \in Nat /\ now \in Nat /\ days = 0 /\ done = FALSE
    BY RepeatTimeAssumption DEF Init
  <2>2. PICK length \in Lengths : end = begin + length
    BY DEF Init
  <2>3. end \in Int
    BY <2>1, <2>2, RepeatTimeAssumption
  <2>4. start = [begin |-> begin, end |-> end]
    BY DEF Init
  <2>5. begin \in Int /\ now \in Int /\ days \in Nat
    BY <2>1
  <2>6. start \in [begin : Int, end : Int]
    BY <2>3, <2>4, <2>5
  <2>7. done \in BOOLEAN
    BY <2>1
  <2> QED
    BY <2>3, <2>5, <2>6, <2>7 DEF TypeInv
<1>2. days * Hours = 0
  BY RepeatTimeAssumption DEF Init
<1>3. Moved
  BY <1>1, <1>2 DEF Init, Moved, TypeInv
<1>4. PassedOver /\ ~done
  BY DEF Init, PassedOver
<1> QED
  BY <1>1, <1>3, <1>4 DEF Inv

(* One more day keeps it (timer.py:91-97).                                 *)
LEMMA LoopStep ==
  ASSUME FindRunningEvent, Inv, TryNextDay
  PROVE  Inv'
<1> USE RepeatTimeAssumption
<1>1. /\ days \in Nat /\ Hours \in Nat /\ days' = days + 1 /\ ~done /\ done' = done
      /\ start.begin \in Int /\ start.end \in Int /\ begin \in Int /\ end \in Int
  BY DEF Inv, TypeInv, TryNextDay
<1>2. /\ start' = start /\ day' = day /\ first' = first /\ now' = now
      /\ begin' = AddOneDay(begin) /\ end' = AddOneDay(end)
  BY DEF TryNextDay, arguments
<1>3. days' * Hours = days * Hours + Hours
  BY <1>1
<1>4. TypeInv'
  BY <1>1, <1>2 DEF Inv, TypeInv, AddOneDay
<1>5. ASSUME Regular(days)'
      PROVE  /\ Regular(days)
             /\ start.begin + days' * Hours \notin Missing
             /\ start.end + days' * Hours \notin Missing
  <2>1. \A k \in 1 .. days + 1 : {start.begin + k * Hours, start.end + k * Hours} \cap Missing = {}
    BY <1>1, <1>2, <1>5 DEF Regular
  <2>2. days + 1 \in 1 .. days + 1 /\ \A k \in 1 .. days : k \in 1 .. days + 1
    BY <1>1
  <2>3. Regular(days)
    BY <2>1, <2>2 DEF Regular
  <2>4. {start.begin + (days + 1) * Hours, start.end + (days + 1) * Hours} \cap Missing = {}
    BY <2>1, <2>2
  <2> QED
    BY <1>1, <2>3, <2>4
<1>6. Moved'
  <2> SUFFICES ASSUME Regular(days)'
               PROVE  begin' = start.begin + days' * Hours /\ end' = start.end + days' * Hours
    BY <1>2 DEF Moved
  <2>1. begin = start.begin + days * Hours /\ end = start.end + days * Hours
    BY <1>1, <1>5 DEF Inv, Moved
  <2>2. days * Hours \in Int
    BY <1>1
  <2>3. begin + Hours = start.begin + days' * Hours /\ end + Hours = start.end + days' * Hours
    BY <1>1, <1>3, <2>1, <2>2
  <2> QED
    BY <1>2, <1>5, <2>3 DEF AddOneDay
<1>7. PassedOver'
  <2> SUFFICES ASSUME Regular(days)', NEW k \in 0 .. days
               PROVE  ~Wanted(start.begin + k * Hours, start.end + k * Hours)
    BY <1>1, <1>2 DEF PassedOver, Wanted
  <2>1. CASE k = days
    <3>1. ~Wanted(begin, end)
      BY DEF TryNextDay, Fits, Wanted
    <3> QED
      BY <1>1, <1>5, <2>1, <3>1 DEF Inv, Moved
  <2>2. CASE k # days
    <3>1. k \in 0 .. days - 1
      BY <1>1, <2>2
    <3> QED
      BY <1>5, <3>1 DEF Inv, PassedOver
  <2> QED
    BY <2>1, <2>2
<1> QED
  BY <1>1, <1>4, <1>6, <1>7 DEF Inv

(* Returning keeps it: what fits is wanted (timer.py:102-106).             *)
LEMMA LoopExit ==
  ASSUME FindRunningEvent, Inv, Return
  PROVE  Inv'
<1> USE RepeatTimeAssumption
<1>1. /\ begin' = begin /\ start' = start /\ days' = days /\ done' = TRUE
      /\ day' = day /\ first' = first /\ now' = now
  BY DEF Return, arguments
<1>2. end' \in Int /\ (end' = end \/ end' = end + 1)
  BY DEF Return, Inv, TypeInv
<1>3. TypeInv'
  BY <1>1, <1>2 DEF Inv, TypeInv
<1>4. Moved'
  BY <1>1 DEF Inv, Moved, Regular
<1>5. PassedOver'
  BY <1>1 DEF Inv, PassedOver, Wanted, Regular
<1>6. Wanted(begin, end)'
  <2>1. Weekday(begin) \in day /\ begin >= first /\ now < end
    BY DEF Return, Fits
  <2>2. Weekday(begin)' = Weekday(begin)
    BY <1>1 DEF Weekday
  <2>3. now < end'
    BY <1>2, <2>1 DEF Inv, TypeInv
  <2> QED
    BY <1>1, <2>1, <2>2, <2>3 DEF Wanted
<1> QED
  BY <1>1, <1>3, <1>4, <1>5, <1>6 DEF Inv

(* nextRepeatTime() returns the first day that is wanted: its begin and    *)
(* end are those of one later day, that day fits what the comment at       *)
(* timer.py:80-89 asks for, and no day before it does.                     *)
THEOREM ReturnsFirst ==
  ASSUME FindRunningEvent
  PROVE  Spec => []FirstWanted
<1>1. Init => Inv
  BY LoopEntered
<1>2. Inv /\ [Next]_vars => Inv'
  <2> SUFFICES ASSUME Inv, [Next]_vars PROVE Inv'
    OBVIOUS
  <2>1. CASE TryNextDay
    BY <2>1, LoopStep
  <2>2. CASE Return
    BY <2>2, LoopExit
  <2>3. CASE UNCHANGED vars
    BY <2>3 DEF vars, arguments, Inv, TypeInv, Moved, PassedOver, Wanted, Regular
  <2> QED
    BY <2>1, <2>2, <2>3 DEF Next
<1>3. Inv => FirstWanted
  BY DEF Inv, Moved, PassedOver, FirstWanted
<1> QED
  BY <1>1, <1>2, <1>3, PTL DEF Spec
=============================================================================
