----------------------------- MODULE RepeatTime -----------------------------
(***************************************************************************)
(* nextRepeatTime() of timer.py: the next time a timer that repeats on     *)
(* some days of the week runs.  begin and end are advanced one day at a    *)
(* time, in local time, until a day fits.                                  *)
(*                                                                         *)
(* Local time is a number of hours; the week begins at 0.  On the day the  *)
(* clocks go forward an hour is missing, and addOneDay() steps over the    *)
(* day on which the hour it wants is missing.                              *)
(***************************************************************************)
EXTENDS Integers

CONSTANTS
  Hours,             \* of a day
  Week,              \* days of a week
  Begins, Lengths, Nows,   \* the arguments: begin, end - begin, localnow
  FindRunningEvent,  \* the parameter findRunningEvent
  Missing            \* the missing hours

ASSUME RepeatTimeAssumption ==
  /\ Hours \in Nat \ {0} /\ Week \in Nat \ {0}
  /\ Begins \subseteq Nat /\ Lengths \subseteq Nat /\ Nows \subseteq Nat
  /\ FindRunningEvent \in BOOLEAN
  /\ Missing \subseteq Nat

VARIABLES
  day,         \* the days of the week on which the timer repeats
  first,       \* repeatedbegindate
  now,         \* localnow
  start,       \* the arguments begin and end
  begin, end,  \* localbegin, localend
  days,        \* how many steps have been made
  done

arguments == <<day, first, now, start>>
vars == <<arguments, begin, end, days, done>>

Weekday(t) == (t \div Hours) % Week

Init ==
  /\ day \in (SUBSET (0 .. Week - 1)) \ {{}}
  /\ begin \in Begins /\ \E length \in Lengths : end = begin + length
  /\ start = [begin |-> begin, end |-> end]
  /\ first \in Begins /\ now \in Nows
  /\ days = 0 /\ done = FALSE

(* Seeded fault: a running event must have begun. *)
FitsBegun(b, e) ==
  IF FindRunningEvent THEN Weekday(b) \in day /\ b >= first /\ now <= e ELSE now < b

(* The condition of the loop: the conditional expression takes all of it. *)
Fits(b, e) ==
  IF FindRunningEvent THEN Weekday(b) \in day /\ b >= first /\ now < e ELSE now < b

AddOneDay(t) == IF t + Hours \in Missing THEN t + 2 * Hours ELSE t + Hours

TryNextDay ==
  /\ ~done /\ ~Fits(begin, end)
  /\ begin' = AddOneDay(begin) /\ end' = AddOneDay(end)
  /\ days' = days + 1
  /\ UNCHANGED <<arguments, done>>

Return ==
  /\ ~done /\ Fits(begin, end)
  /\ done' = TRUE
  /\ end' = IF begin = end THEN end + 1 ELSE end
  /\ UNCHANGED <<arguments, begin, days>>

Next == TryNextDay \/ Return

Spec == Init /\ [][Next]_vars

-----------------------------------------------------------------------------
(* Properties *)

(* "Step through the days until the day for the new timer start/end is"    *)
(* (timer.py:80-89), for one day's begin and end.                          *)
Wanted(b, e) ==
  /\ Weekday(b) \in day
  /\ b >= first
  /\ IF FindRunningEvent THEN now < e ELSE now < b

(* The first n days have the hours that begin and end want. *)
Regular(n) ==
  \A k \in 1 .. n : {start.begin + k * Hours, start.end + k * Hours} \cap Missing = {}

(* What is returned fits, and it is the first day that does: no earlier    *)
(* occurrence is passed over (timer.py:63-106), unless the clocks went     *)
(* forward over one.                                                       *)
FirstWanted ==
  done => /\ Wanted(begin, end)
          /\ Regular(days) =>
               /\ begin = start.begin + days * Hours
               /\ \A k \in 0 .. days - 1 :
                     ~Wanted(start.begin + k * Hours, start.end + k * Hours)

(* The comment at timer.py:80-89 on what is returned.                      *)
ReturnsWanted == done => Wanted(begin, end)
=============================================================================
