----------------------------- MODULE CsvDates -----------------------------
(***************************************************************************)
(* Dates and timestamps on their way through a .kiodb file: a CSV row is   *)
(* read, its timestamp becomes a number, and an export prints the number.  *)
(***************************************************************************)
EXTENDS DateCodes

CONSTANTS
    Years, Months, DaysOfMonth, Hours, Minutes, Seconds  \* the values of each field

ASSUME FieldsAssumption ==
    /\ Years \subseteq Int /\ Months \subseteq 1 .. 12
    /\ DaysOfMonth \subseteq 1 .. 31
    /\ Hours \subseteq 0 .. 23
    /\ Minutes \subseteq 0 .. 59 /\ Seconds \subseteq 0 .. 59

\* The timestamps a CSV file may hold.
Stamps ==
    [year : Years, month : Months, day : DaysOfMonth,
     hour : Hours, minute : Minutes, second : Seconds]

----------------------------------------------------------------------------
VARIABLES
    stamp,   \* the timestamp of the row read last
    code,    \* the number a .kiodb file holds for it
    printed  \* what an export of the file writes for it

dateVars == <<stamp, code, printed>>

Row(t) ==
    /\ stamp' = t
    /\ code' = TimeToSeconds(t)
    /\ printed' = FormatTimestamp(code')

DatesInit ==
    /\ stamp \in Stamps
    /\ code = TimeToSeconds(stamp)
    /\ printed = FormatTimestamp(code)

DatesNext == \E t \in Stamps : Row(t)

DatesSpec == DatesInit /\ [][DatesNext]_dateVars

----------------------------------------------------------------------------
(* Properties *)

\* t is before u: by year, month, day, hour, minute and second, in this order.
Before(t, u) ==
    \/ t.year < u.year
    \/ t.year = u.year /\ t.month < u.month
    \/ t.year = u.year /\ t.month = u.month /\ t.day < u.day
    \/ /\ t.year = u.year /\ t.month = u.month /\ t.day = u.day
       /\ \/ t.hour < u.hour
          \/ t.hour = u.hour /\ t.minute < u.minute
          \/ t.hour = u.hour /\ t.minute = u.minute /\ t.second < u.second

\* A timestamp is exported as the text it was read from (csv_type_parser.h:39
\* against csv_exporter.cpp:70).
StampSurvives == printed = stamp

\* The stored numbers are ordered as the timestamps are, which is what min/max
\* pruning, ORDER BY and MIN/MAX over dates rely on.
CodesKeepOrder == [][Before(stamp, stamp') <=> code < code']_dateVars
=============================================================================
