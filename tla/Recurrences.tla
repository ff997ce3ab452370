---------------------------- MODULE Recurrences ----------------------------
(***************************************************************************)
(* When a recurring workflow fires: Next of internal/cronlike, which the   *)
(* goroutine of Logic Apps (fireLoop) calls after every run.  Intervals    *)
(* are counted from an anchor, the start time or the time of creation; a   *)
(* fixed interval is a time.Duration, a signed integer that wraps round,   *)
(* and a month is added with AddDate, which carries a day that the month   *)
(* has not over into the next one.                                         *)
(*                                                                         *)
(* Time is a count of ticks, and of days for months.                       *)
(***************************************************************************)
EXTENDS Integers, Sequences, FiniteSets

CONSTANTS
    Units,        \* ticks of each frequency but "month"
    Intervals,    \* the intervals tried
    Anchors,      \* the anchors tried
    MonthDays,    \* the days of the months of a calendar, which repeat
    MaxDuration,  \* the largest time.Duration
    Late,         \* how late a timer may be
    MaxTime       \* bound on the time at which a workflow fires

ASSUME RecurrencesAssumption ==
    /\ \A f \in DOMAIN Units : Units[f] \in Nat \ {0}
    /\ Anchors \subseteq Nat /\ Intervals \subseteq Nat \ {0}
    /\ MonthDays \in Seq(Nat \ {0}) /\ MonthDays # <<>>
    /\ MaxDuration \in Nat /\ Late \in Nat /\ MaxTime \in Nat

VARIABLES
    frequency, interval, anchor,
    now,          \* when the loop last looked at the clock
    due,          \* what Next answered, or has counted to
    loop          \* "asking", "counting" months, "waiting", or "panicked"

firing == <<frequency, interval, anchor, now, due, loop>>

-----------------------------------------------------------------------------

\* The first day of each month, counted from month 0.
StartOf[m \in Nat] ==
    IF m = 0 THEN 0 ELSE StartOf[m - 1] + MonthDays[((m - 1) % Len(MonthDays)) + 1]

MonthOf(t) == CHOOSE m \in 0..t : StartOf[m] <= t /\ t < StartOf[m + 1]

\* AddDate(0, n, 0).
AddMonths(t, n) == StartOf[MonthOf(t) + n] + (t - StartOf[MonthOf(t)])

\* The arithmetic of time.Duration; Sub saturates, a product wraps round, and
\* a quotient is truncated towards zero.
Wrapped(d) == ((d + MaxDuration + 1) % (2 * (MaxDuration + 1))) - (MaxDuration + 1)
Sub(t, u) == IF t - u > MaxDuration THEN MaxDuration ELSE t - u
Quotient(d, e) == IF e > 0 THEN d \div e ELSE -(d \div (-e))

FixedStep == Wrapped(Units[frequency] * interval)

\* A broken NextFixed: the interval in progress is counted as over.
NextFixedEarly(after) ==
    IF anchor > after THEN anchor
    ELSE anchor + Wrapped(FixedStep * Quotient(Sub(after, anchor), FixedStep))

NextFixed(after) ==
    IF anchor > after THEN anchor
    ELSE anchor + Wrapped(FixedStep * (Quotient(Sub(after, anchor), FixedStep) + 1))

FiringInit ==
    /\ frequency \in DOMAIN Units \union {"month"}
    /\ interval \in Intervals
    /\ anchor \in Anchors
    /\ now = 0
    /\ due = 0
    /\ loop = "asking"

\* Next, at the head of the loop: months are counted, durations computed; a
\* step of zero divides by zero.
Ask ==
    /\ loop = "asking"
    /\ \/ /\ frequency = "month"
          /\ due' = anchor
          /\ loop' = "counting"
       \/ /\ frequency # "month" /\ (FixedStep # 0 \/ anchor > now)
          /\ due' = NextFixed(now)
          /\ loop' = "waiting"
       \/ /\ frequency # "month" /\ FixedStep = 0 /\ anchor <= now
          /\ loop' = "panicked"
          /\ UNCHANGED due
    /\ UNCHANGED <<frequency, interval, anchor, now>>

\* A turn of the loop that counts months, and its end.
CountMonths ==
    /\ loop = "counting"
    /\ \/ due <= now /\ due' = AddMonths(due, interval) /\ UNCHANGED loop
       \/ due > now /\ loop' = "waiting" /\ UNCHANGED due
    /\ UNCHANGED <<frequency, interval, anchor, now>>

\* The timer, of no time when the answer is past, and the run that it starts.
Fire ==
    /\ loop = "waiting"
    /\ \E t \in now..MaxTime : due <= t /\ t <= (IF due > now THEN due ELSE now) + Late /\ now' = t
    /\ loop' = "asking"
    /\ UNCHANGED <<frequency, interval, anchor, due>>

FiringNext == Ask \/ CountMonths \/ Fire

-----------------------------------------------------------------------------

\* The durations involved are within the width.
DurationsFit == /\ Units[frequency] * interval <= MaxDuration
                /\ now - anchor + Units[frequency] * interval <= MaxDuration

\* The anchor's day is one that every month has.
DayInEveryMonth == \A m \in DOMAIN MonthDays : anchor - StartOf[MonthOf(anchor)] < MonthDays[m]

\* The times at which the recurrence is to fire, from the anchor on.
Grid ==
    IF frequency = "month"
    THEN {StartOf[MonthOf(anchor) + k * interval] + (anchor - StartOf[MonthOf(anchor)]) : k \in 0..(MaxTime + 1)}
    ELSE {anchor + k * (Units[frequency] * interval) : k \in 0..(MaxTime + 1)}

\* Next answers the first time of the recurrence after the one it is given,
\* however late the timer was: what is past is not made up for, no time still
\* to come is left out or fired twice, and the anchor keeps its phase, while
\* the durations fit their width and, for months, while every month has the
\* anchor's day.  (A day carried over stays so for the rest; the answer is
\* later than the time given all the same.)
NextIsTheFollowing ==
    loop = "waiting" =>
       /\ frequency = "month" => due > now
       /\ (IF frequency = "month" THEN DayInEveryMonth ELSE DurationsFit) =>
             /\ due > now /\ due \in Grid
             /\ \A t \in Grid : t > now => due <= t

=============================================================================
