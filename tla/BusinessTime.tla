---------------------------- MODULE BusinessTime ----------------------------
(* Business calendars: adding, subtracting and counting working time.  Time is  *)
(* counted in hours; a calendar gives each day of its week a window of hours.   *)
EXTENDS Integers, FiniteSets

CONSTANTS DayLength,   \* hours of a day
          Calendars,   \* working hours: functions from the days of a week to windows
          LastDay      \* bound: days of the model

ASSUME CalendarAssumption ==
    /\ DayLength \in Nat \ {0} /\ LastDay \in Nat
    /\ \A c \in Calendars : \E last \in 0..6 :
         c \in [0..last -> [start : 0..DayLength, end : 0..DayLength]]

-----------------------------------------------------------------------------

Day(t) == t \div DayLength
Midnight(d) == d * DayLength
End == Midnight(LastDay + 1)

\* A holiday is a day whose window is empty.
Window(c, d) == c[d % Cardinality(DOMAIN c)]
WorkingDay(c, d) == Window(c, d).end > Window(c, d).start

\* A date has no hour 24: Temporal constrains it to 23.
AtHour(d, h) == Midnight(d) + (IF h = DayLength THEN h - 1 ELSE h)
Opens(c, d) == AtHour(d, Window(c, d).start)
Closes(c, d) == AtHour(d, Window(c, d).end)

Later(a, b) == IF a > b THEN a ELSE b
Earlier(a, b) == IF a < b THEN a ELSE b

\* What is left of the day's window at t, and what has passed of it.
Ahead(c, d, t) == IF WorkingDay(c, d) THEN Later(0, Closes(c, d) - Later(t, Opens(c, d))) ELSE 0
Behind(c, d, t) == IF WorkingDay(c, d) THEN Later(0, Earlier(t, Closes(c, d)) - Opens(c, d)) ELSE 0

\* Mutant: the remaining time is not reduced by a day that was used up.
AddBusinessForgetful(c, from, n) ==
    LET fitting == {d \in Day(from)..LastDay : Ahead(c, d, from) > 0 /\ n <= Ahead(c, d, from)}
        day == CHOOSE d \in fitting : \A e \in fitting : d <= e
    IN IF n = 0 THEN from ELSE IF fitting = {} THEN End ELSE Later(from, Opens(c, day)) + n

\* The search takes what each day leaves of the remaining time to the next, and
\* ends on the first day that has room for it.
AddBusiness(c, from, n) ==
    LET left[d \in Day(from)..LastDay + 1] ==
            IF d = Day(from) THEN n ELSE left[d - 1] - Ahead(c, d - 1, from)
        fitting == {d \in Day(from)..LastDay : Ahead(c, d, from) > 0 /\ left[d] <= Ahead(c, d, from)}
        day == CHOOSE d \in fitting : \A e \in fitting : d <= e
    IN IF n = 0 THEN from ELSE IF fitting = {} THEN End ELSE Later(from, Opens(c, day)) + left[day]

\* The search backwards enters a day at its last second.
SubtractBusiness(c, from, n) ==
    LET left[d \in 0..Day(from)] ==
            IF d = Day(from) THEN n ELSE left[d + 1] - Behind(c, d + 1, from)
        fitting == {d \in 0..Day(from) : Behind(c, d, from) > 0 /\ left[d] <= Behind(c, d, from)}
        day == CHOOSE d \in fitting : \A e \in fitting : e <= d
    IN IF n = 0 THEN from ELSE IF fitting = {} THEN 0 ELSE Earlier(from, Closes(c, day)) - left[day]

BusinessBetween(c, from, to) ==
    LET total[d \in 0..LastDay + 1] ==
            IF d > Day(to) \/ d > LastDay THEN 0
            ELSE Later(0, Ahead(c, d, from) - Ahead(c, d, to)) + total[d + 1]
    IN IF to <= from THEN 0 ELSE total[Day(from)]

-----------------------------------------------------------------------------
(* The reference: the hours a calendar declares as working *)

Working(c) == {t \in 0..End - 1 :
    t % DayLength \in Window(c, Day(t)).start..Window(c, Day(t)).end - 1}
Worked(c, from, to) == Cardinality({t \in Working(c) : from <= t /\ t < to})

\* No window reaches midnight.
ClosesByNight(c) == \A d \in DOMAIN c : c[d].end < DayLength

\* Of each calendar: do counting, adding and subtracting agree with its hours?
Exact == [c \in Calendars |-> \A t \in 0..End - 1 :
    /\ \A u \in 0..End : BusinessBetween(c, t, u) = Worked(c, t, u)
    /\ \A n \in 1..Worked(c, t, End) : LET u == AddBusiness(c, t, n) IN
         u \in 1..End /\ u - 1 \in Working(c) /\ Worked(c, t, u) = n
    /\ \A n \in 1..Worked(c, 0, t) : LET u == SubtractBusiness(c, t, n) IN
         u \in Working(c) /\ Worked(c, u, t) = n]
=============================================================================
