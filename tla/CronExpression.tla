---------------------------- MODULE CronExpression ---------------------------
(***************************************************************************)
(* scheduler::CronExpression: the minutes at which a task is due, and the  *)
(* search for the next of them, as TaskScheduler calls it: when a task is  *)
(* scheduled, and again each time it has run.  The calendar is a small     *)
(* one; std::localtime and std::mktime keep to it.                         *)
(***************************************************************************)
EXTENDS Integers, Sequences

CONSTANTS
    Expressions,      \* the five fields of each: sequences of field records
    Minute,           \* seconds in a minute
    Hour,             \* minutes in an hour
    Day,              \* hours in a day
    Days,             \* the days of the calendar's cycle: <<day of month, month>>
    MonthDays,        \* days of the longest month
    Months,           \* months in a year
    Week,             \* days in a week
    max_iterations,   \* minutes that are searched
    MaxTime,          \* bound: the time of the last search
    Delays,           \* how late a task may end, in seconds
    Nothing

VARIABLES
    fields,   \* minutes_, hours_, days_, months_, weekdays_
    from,     \* the time of the last search
    due,      \* what it returned, or Nothing when it threw
    earlier   \* history: the time the task was due before

vars == <<fields, from, due, earlier>>

(* A field: base "*", a range of first to last or the single value first,   *)
(* and the step behind a slash, 1 if there is none.                         *)
Field(base, first, last, step) == [base |-> base, first |-> first, last |-> last, step |-> step]

Steps(first, last, step) == {i \in first .. last : (i - first) % step = 0}

(* The empty set stands for the exception of a malformed field. *)
parseField(field, min, max) ==
    IF field.step <= 0 THEN {}
    ELSE IF field.base = "range"
    THEN IF field.first < min \/ field.last > max THEN {} ELSE Steps(field.first, field.last, field.step)
    ELSE IF field.base = "*" THEN Steps(min, max, field.step)
    ELSE IF field.first < min \/ field.first > max THEN {}
    ELSE IF field.step > 1 THEN Steps(field.first, max, field.step)
    ELSE {field.first}

CronFields(e) ==
    <<parseField(e[1], 0, Hour - 1), parseField(e[2], 0, Day - 1),
      parseField(e[3], 1, MonthDays), parseField(e[4], 1, Months), parseField(e[5], 0, Week - 1)>>

(* std::localtime: the minute, hour, day of the month, month and weekday. *)
localtime(t) ==
    LET m == t \div Minute
        d == m \div (Hour * Day)
        date == Days[(d % Len(Days)) + 1]
    IN  <<m % Hour, (m \div Hour) % Day, date[1], date[2], d % Week>>

(* Every field must match, the day of the month and the weekday too. *)
matches(t) == \A i \in 1 .. 5 : localtime(t)[i] \in fields[i]

(* The seconds are dropped and a minute is added; then minute by minute. *)
Start_of_this_minute(t) == (t \div Minute) * Minute
Start(t) == (t \div Minute + 1) * Minute

RECURSIVE Search(_, _)
Search(t, i) ==
    IF i = max_iterations THEN Nothing
    ELSE IF matches(t) THEN t ELSE Search(t + Minute, i + 1)

nextExecutionTime(t) == Search(Start(t), 0)

-----------------------------------------------------------------------------
(* TaskScheduler::schedule.  A malformed expression is not scheduled. *)
Init ==
    /\ \E e \in Expressions : fields = CronFields(e)
    /\ {} \notin {fields[i] : i \in 1 .. 5}
    /\ from \in 0 .. 2 * Minute
    /\ due = nextExecutionTime(from)
    /\ earlier = -1

(* The task is called when it is due, and the next time is found when it   *)
(* returns.  When the search throws, nothing in workerLoop catches that.   *)
RunAndReschedule(delay) ==
    /\ due # Nothing
    /\ due + delay < MaxTime
    /\ from' = due + delay
    /\ due' = nextExecutionTime(due + delay)
    /\ earlier' = due
    /\ UNCHANGED fields

(* Another task, at the first minute; where the search threw in workerLoop, *)
(* in another process.                                                      *)
ScheduleAnother ==
    /\ due \notin 0 .. MaxTime - 1
    /\ from' = 0 /\ earlier' = -1
    /\ due' = nextExecutionTime(0)
    /\ UNCHANGED fields

Next == (\E delay \in Delays : RunAndReschedule(delay)) \/ ScheduleAnother

Spec == Init /\ [][Next]_vars

-----------------------------------------------------------------------------
(* "Calculate the next execution time after the given time point": what     *)
(* nextExecutionTime returns is a minute that has not begun when it is      *)
(* called and in which every field matches, and no such minute comes        *)
(* before; it throws only if none does within the minutes it searches.  So  *)
(* a task that ends in the minute it was due is not called in it again.     *)
NextIsTheFirst ==
    LET Begun == (from \div Minute) * Minute
        later == {Begun + k * Minute : k \in 1 .. max_iterations}
        due_then == {t \in later : matches(t)}
    IN  IF due = Nothing THEN due_then = {}
        ELSE due \in due_then /\ due > earlier /\ \A t \in due_then : due <= t
=============================================================================
