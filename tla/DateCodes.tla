----------------------------- MODULE DateCodes -----------------------------
(***************************************************************************)
(* Dates and timestamps as numbers: the parser turns the text into a       *)
(* number of days or seconds, in months of 31 days, and the exporter turns *)
(* the number into text again.  A text is the numbers that stand in it.    *)
(***************************************************************************)
EXTENDS Integers

Stamp ==
    [year : Int, month : 1 .. 12, day : 1 .. 31,
     hour : 0 .. 23, minute : 0 .. 59, second : 0 .. 59]

kBaseYear == 1970
kMonthsPerYear == 12
kDaysPerMonth == 31
kSecondsPerMinute == 60
kSecondsPerHour == 60 * 60
kSecondsPerDay == 24 * 60 * 60

\* Integer division of C++ rounds towards zero, and the remainder has the sign
\* of the dividend.
Quotient(a, b) == IF a >= 0 THEN a \div b ELSE -((-a) \div b)
Remainder(a, b) == a - b * Quotient(a, b)

----------------------------------------------------------------------------
(* csv_type_parser.h *)

\* Mutant: months and days count from one.
DaysFromOne(d) ==
    ((d.year - kBaseYear) * kMonthsPerYear + d.month) * kDaysPerMonth + d.day

DateToDays(d) ==
    ((d.year - kBaseYear) * kMonthsPerYear + (d.month - 1)) * kDaysPerMonth
      + (d.day - 1)

\* Mutant: the hour is worth a minute.
SecondsOfShortHours(t) ==
    DateToDays(t) * kSecondsPerDay + t.hour * kSecondsPerMinute
      + t.minute * kSecondsPerMinute + t.second

TimeToSeconds(t) ==
    DateToDays(t) * kSecondsPerDay + t.hour * kSecondsPerHour
      + t.minute * kSecondsPerMinute + t.second

----------------------------------------------------------------------------
(* csv_exporter.cpp *)

\* FormatDateCode and FormatTimestamp: what is printed.
FormatDateCode(days) ==
    LET months == Quotient(days, kDaysPerMonth)
    IN  [year |-> kBaseYear + Quotient(months, kMonthsPerYear),
         month |-> Remainder(months, kMonthsPerYear) + 1,
         day |-> Remainder(days, kDaysPerMonth) + 1]

FormatTimestamp(seconds) ==
    LET date == FormatDateCode(Quotient(seconds, kSecondsPerDay))
        time == Remainder(seconds, kSecondsPerDay)
        rest == Remainder(time, kSecondsPerHour)
    IN  [year |-> date.year, month |-> date.month, day |-> date.day,
         hour |-> Quotient(time, kSecondsPerHour),
         minute |-> Quotient(rest, kSecondsPerMinute),
         second |-> Remainder(rest, kSecondsPerMinute)]
=============================================================================
