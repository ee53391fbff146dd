------------------------------ MODULE Calendar ------------------------------
(***************************************************************************)
(* Dates and times (jiutai/jf_date.c, jiutai/jf_time.c): the conversions   *)
(* between dates and days since 1970, days of the week, periods and times  *)
(* as strings.  The calendar runs day by day, and the clock of a day second*)
(* by second, next to what the conversions make of them.                   *)
(***************************************************************************)
EXTENDS Integers, Sequences, SequencesExt

CONSTANTS Starts,         \* dates, with their days since 1970 and day of the week
          MaxDays,        \* bound: days from each of them
          SecStep,        \* seconds between two looks at the clock
          Fields          \* what may stand in a field of a string, as characters

VARIABLES kside,          \* what runs: "date", "clock" or "text"
          date,           \* the date: year, mon, day
          days, week,     \* days since 1970 from 1 on, day of the week from 0 on
          gone,           \* days gone since the start
          sec,            \* second of the day
          fields          \* a string of three fields
calVars == <<kside, date, days, week, gone, sec, fields>>

-----------------------------------------------------------------------------
IsLeapYear(year) == (year % 4 = 0 /\ year % 100 # 0) \/ year % 400 = 0

DaysOfMonth(year, mon) ==
    CASE mon \in {1, 3, 5, 7, 8, 10, 12} -> 31
      [] mon = 2 -> IF IsLeapYear(year) THEN 29 ELSE 28
      [] OTHER -> 30

DaysOfYear(year) == IF IsLeapYear(year) THEN 366 ELSE 365

(* The array a of the two conversions, with a[2] set in a leap year.       *)
MonthDays(year) == <<31, IF IsLeapYear(year) THEN 29 ELSE 28, 31, 30, 31, 30, 31, 31, 30, 31, 30, 31>>
Before(year, mon) == FoldLeft(LAMBDA a, b : a + b, 0, SubSeq(MonthDays(year), 1, mon - 1))

(* jf_date_convertDateToDaysFrom1970.                                      *)
RECURSIVE YearsTo(_)
YearsTo(year) == IF year <= 1970 THEN 0 ELSE DaysOfYear(year - 1) + YearsTo(year - 1)

DateToDays(year, mon, day) == day + Before(year, mon) + YearsTo(year)

(* jf_date_convertDaysFrom1970ToDate.                                      *)
RECURSIVE YearOf(_, _)
YearOf(n, year) == IF n <= DaysOfYear(year) THEN <<year, n>> ELSE YearOf(n - DaysOfYear(year), year + 1)

DaysToDate(n) ==
    LET y == YearOf(n, 1970)[1]
        rest == YearOf(n, 1970)[2]
        mon == CHOOSE m \in 1..12 : rest > Before(y, m) /\ rest <= Before(y, m) + MonthDays(y)[m]
    IN <<y, mon, rest - Before(y, mon)>>

(* jf_date_getDayOfWeekFromDate; division and % of C truncate, the sum may *)
(* be negative.                                                            *)
Rem(a, b) == IF a < 0 THEN -((-a) % b) ELSE a % b

DayOfWeek(year, mon, day) ==
    LET m == IF mon <= 2 THEN mon + 12 ELSE mon
        y == IF mon <= 2 THEN year - 1 ELSE year
        w == Rem(((y \div 100) \div 4) - 2 * (y \div 100) + (y % 100) + ((y % 100) \div 4)
                 + ((13 * (m + 1)) \div 5) + day - 1, 7)
    IN IF w < 0 THEN w + 7 ELSE w

NextDayOfWeek(w) == IF w = 6 THEN 0 ELSE w + 1
IsWeekend(year, mon, day) == DayOfWeek(year, mon, day) \in {0, 6}

-----------------------------------------------------------------------------
(* Strings are sequences of characters: digits are their value, a sign is  *)
(* "-", anything else "x".  Number is sscanf with %0wd: a sign counts as   *)
(* one of the w characters; what follows the number is not looked at.      *)
IsDigit(c) == c \in 0..9
Sign == 10
Other == 11

RECURSIVE Leading(_, _, _)
Leading(s, w, v) == IF w = 0 \/ s = <<>> \/ ~IsDigit(Head(s)) THEN v ELSE Leading(Tail(s), w - 1, 10 * v + Head(s))

Number(s, w) ==
    LET minus == s # <<>> /\ Head(s) = Sign
        rest == IF minus THEN Tail(s) ELSE s
    IN IF rest = <<>> \/ ~IsDigit(Head(rest)) THEN {}
       ELSE {IF minus THEN -Leading(rest, w - 1, 0) ELSE Leading(rest, w, 0)}

In(s, w, lo, hi) == {v \in Number(s, w) : v >= lo /\ v <= hi}

(* _getDateFromString of the fields between the separators; {} for an error.*)
GetDate(f) ==
    {t \in In(f[1], 4, 1970, 2037) \X In(f[2], 2, 1, 12) \X In(f[3], 2, 1, 31) :
        t[3] <= DaysOfMonth(t[1], t[2])}

(* jf_time_getTimeFromString: the value is unsigned, a sign is too large.  *)
GetTime(f) == {<<h, m, s>> : h \in In(f[1], 2, 0, 23), m \in In(f[2], 2, 0, 59), s \in In(f[3], 2, 0, 59)}

(* jf_date_getStringDate2 and jf_time_getStringTime: %4d, %02d.            *)
Two(n) == <<n \div 10, n % 10>>
Four(n) == <<n \div 1000, (n \div 100) % 10, (n \div 10) % 10, n % 10>>
StringDate2(t) == <<Four(t[1]), Two(t[2]), Two(t[3])>>
StringTime(t) == <<Two(t[1]), Two(t[2]), Two(t[3])>>

TimeToSeconds(h, m, s) == h * 3600 + m * 60 + s

(* jf_time_getStringTimePeriod: the parts that are not zero.               *)
TimePeriod(n) ==
    IF n = 0 THEN <<<<0, "sec">>>>
    ELSE SelectSeq(<<<<n \div 3600, "hr">>, <<(n % 3600) \div 60, "min">>, <<(n % 3600) % 60, "sec">>>>, LAMBDA p : p[1] > 0)

-----------------------------------------------------------------------------
CalInit == /\ kside \in {"date", "clock", "text"}
           /\ \E s \in Starts : date = s.date /\ days = s.days /\ week = s.week
           /\ kside = "date" \/ days = 1
           /\ gone = 0 /\ sec = 0 /\ fields = <<<<>>, <<>>, <<>>>>

(* Midnight.                                                               *)
NextDay ==
    /\ kside = "date" /\ gone < MaxDays /\ gone' = gone + 1
    /\ date' = IF date[3] < DaysOfMonth(date[1], date[2]) THEN <<date[1], date[2], date[3] + 1>>
               ELSE IF date[2] < 12 THEN <<date[1], date[2] + 1, 1>>
               ELSE <<date[1] + 1, 1, 1>>
    /\ days' = days + 1 /\ week' = (week + 1) % 7
    /\ UNCHANGED <<kside, sec, fields>>

Later == /\ kside = "clock" /\ sec + SecStep < 86400 /\ sec' = sec + SecStep
         /\ UNCHANGED <<kside, date, days, week, gone, fields>>

Type(i, f) == /\ kside = "text" /\ fields' = [fields EXCEPT ![i] = f]
              /\ UNCHANGED <<kside, date, days, week, gone, sec>>

CalNext == NextDay \/ Later \/ \E i \in 1..3, f \in Fields : Type(i, f)
CalSpec == CalInit /\ [][CalNext]_calVars

-----------------------------------------------------------------------------
(* The conversions follow the calendar day by day, over ends of months,    *)
(* leap years and centuries: dates and days since 1970 are converted into  *)
(* each other and the day of the week is the next one, Sunday and Saturday *)
(* the weekend.                                                            *)
DatesExact ==
    /\ DateToDays(date[1], date[2], date[3]) = days
    /\ DaysToDate(days) = date
    /\ DayOfWeek(date[1], date[2], date[3]) = week
    /\ NextDayOfWeek(week) = (week + 1) % 7
    /\ IsWeekend(date[1], date[2], date[3]) <=> week \in {0, 6}

(* A date or time written as a string is read back, the date if its year   *)
(* is one that is accepted; whatever the fields of a string hold, what is  *)
(* read is a date of the calendar or a time of the day.  A period names the*)
(* seconds it was made of.                                                 *)
Unit == [hr |-> 3600, min |-> 60, sec |-> 1]
StringsExact ==
    /\ GetDate(StringDate2(date)) = IF date[1] <= 2037 THEN {date} ELSE {}
    /\ \A t \in GetDate(fields) : DaysToDate(DateToDays(t[1], t[2], t[3])) = t
    /\ \A t \in GetTime(fields) : TimeToSeconds(t[1], t[2], t[3]) \in 0..86399
    /\ LET t == <<sec \div 3600, (sec % 3600) \div 60, sec % 60>> IN
       GetTime(StringTime(t)) = {t} /\ TimeToSeconds(t[1], t[2], t[3]) = sec
    /\ FoldLeft(LAMBDA a, p : a + p[1] * Unit[p[2]], 0, TimePeriod(sec)) = sec
=============================================================================
