-------------------------- MODULE CsvDates_proofs --------------------------
(***************************************************************************)
(* Timestamps from 1970 on survive an import and an export, and the stored *)
(* numbers of all timestamps are ordered as the timestamps are.            *)
(***************************************************************************)
EXTENDS CsvDates, TLAPS

\* The fields of a timestamp, as numbers with bounds.
LEMMA Fields ==
    ASSUME NEW t \in Stamp
    PROVE  /\ t.year \in Int /\ t.month \in Int /\ t.day \in Int
           /\ t.hour \in Int /\ t.minute \in Int /\ t.second \in Int
           /\ 1 <= t.month /\ t.month <= 12 /\ 1 <= t.day /\ t.day <= 31
           /\ 0 <= t.hour /\ t.hour <= 23 /\ 0 <= t.minute /\ t.minute <= 59
           /\ 0 <= t.second /\ t.second <= 59
           /\ t = [year |-> t.year, month |-> t.month, day |-> t.day,
                   hour |-> t.hour, minute |-> t.minute, second |-> t.second]
<1>1. /\ t.year \in Int /\ t.month \in 1 .. 12 /\ t.day \in 1 .. 31
      /\ t.hour \in 0 .. 23 /\ t.minute \in 0 .. 59 /\ t.second \in 0 .. 59
  BY DEF Stamp
<1>2. t = [year |-> t.year, month |-> t.month, day |-> t.day,
           hour |-> t.hour, minute |-> t.minute, second |-> t.second]
  BY DEF Stamp
<1> QED
  BY <1>1, <1>2, SMT

\* The counts from zero that the numbers are made of.
Y(t) == t.year - 1970
M(t) == t.month - 1
D(t) == t.day - 1
Days(t) == (Y(t) * 12 + M(t)) * 31 + D(t)
Rest(t) == t.minute * 60 + t.second
Time(t) == t.hour * 3600 + Rest(t)

LEMMA Counts ==
    ASSUME NEW t \in Stamp
    PROVE  /\ Y(t) \in Int /\ M(t) \in Int /\ D(t) \in Int /\ Days(t) \in Int
           /\ 0 <= M(t) /\ M(t) <= 11 /\ 0 <= D(t) /\ D(t) <= 30
           /\ Rest(t) \in Int /\ 0 <= Rest(t) /\ Rest(t) < 3600
           /\ Time(t) \in Int /\ 0 <= Time(t) /\ Time(t) < 86400
           /\ 1970 + Y(t) = t.year /\ M(t) + 1 = t.month /\ D(t) + 1 = t.day
<1>1. /\ Y(t) \in Int /\ M(t) \in Int /\ D(t) \in Int
      /\ 0 <= M(t) /\ M(t) <= 11 /\ 0 <= D(t) /\ D(t) <= 30
      /\ 1970 + Y(t) = t.year /\ M(t) + 1 = t.month /\ D(t) + 1 = t.day
  BY Fields, SMT DEF Y, M, D
<1>2. Days(t) \in Int
  BY <1>1, SMT DEF Days
<1>3. Rest(t) \in Int /\ Time(t) \in Int
  BY Fields, SMT DEF Rest, Time
<1>4. /\ t.hour \in Int /\ 0 <= t.hour /\ t.hour <= 23
      /\ t.minute \in Int /\ 0 <= t.minute /\ t.minute <= 59
      /\ t.second \in Int /\ 0 <= t.second /\ t.second <= 59
  BY Fields
<1>5. /\ 0 <= Rest(t) /\ Rest(t) < 3600 /\ 0 <= Time(t) /\ Time(t) < 86400
  BY <1>4, SMT DEF Rest, Time
<1> QED
  BY <1>1, <1>2, <1>3, <1>5

LEMMA SecondsOfCounts ==
    ASSUME NEW t \in Stamp
    PROVE  DateToDays(t) = Days(t) /\ TimeToSeconds(t) = Days(t) * 86400 + Time(t)
<1>1. DateToDays(t) = Days(t)
  BY DEF DateToDays, Days, Y, M, D, kBaseYear, kMonthsPerYear, kDaysPerMonth
<1>2. TimeToSeconds(t) = Days(t) * (24 * 60 * 60) + t.hour * (60 * 60)
                           + t.minute * 60 + t.second
  BY <1>1 DEF TimeToSeconds, kSecondsPerDay, kSecondsPerHour, kSecondsPerMinute
<1>3. TimeToSeconds(t) = Days(t) * 86400 + Time(t)
  BY <1>2, Fields, Counts, SMT DEF Time, Rest
<1> QED
  BY <1>1, <1>3

----------------------------------------------------------------------------
\* A date from 1970 on is printed as it was parsed.
LEMMA DatePrinted ==
    ASSUME NEW t \in Stamp, t.year >= 1970
    PROVE  /\ 0 <= Days(t)
           /\ FormatDateCode(Days(t)) =
                [year |-> t.year, month |-> t.month, day |-> t.day]
<1> DEFINE months == Y(t) * 12 + M(t)
<1>1. /\ Y(t) \in Int /\ 0 <= Y(t)
      /\ M(t) \in Int /\ 0 <= M(t) /\ M(t) <= 11
      /\ D(t) \in Int /\ 0 <= D(t) /\ D(t) <= 30
  BY Fields, Counts, SMT DEF Y
<1>2. months \in Int /\ 0 <= months
  BY <1>1, SMT
<1>3. Quotient(months, 12) = Y(t) /\ Remainder(months, 12) = M(t)
  BY <1>1, SMT DEF Quotient, Remainder
<1>4. Days(t) = months * 31 + D(t)
  BY DEF Days
<1> HIDE DEF months
<1>5. /\ 0 <= Days(t)
      /\ Quotient(Days(t), 31) = months /\ Remainder(Days(t), 31) = D(t)
  BY <1>1, <1>2, <1>4, SMT DEF Quotient, Remainder
<1> QED
  BY <1>3, <1>5, Counts
  DEF FormatDateCode, kBaseYear, kMonthsPerYear, kDaysPerMonth

\* So is a timestamp.
LEMMA StampPrinted ==
    ASSUME NEW t \in Stamp, t.year >= 1970
    PROVE  FormatTimestamp(TimeToSeconds(t)) = t
<1>1. /\ 0 <= Days(t)
      /\ FormatDateCode(Days(t)) = [year |-> t.year, month |-> t.month, day |-> t.day]
  BY DatePrinted
<1>2. /\ Days(t) \in Int
      /\ Time(t) \in Int /\ 0 <= Time(t) /\ Time(t) < 86400
      /\ Rest(t) \in Int /\ 0 <= Rest(t) /\ Rest(t) < 3600
      /\ TimeToSeconds(t) = Days(t) * 86400 + Time(t)
  BY Counts, SecondsOfCounts
<1>3. /\ t.hour \in Int /\ 0 <= t.hour
      /\ t.minute \in Int /\ 0 <= t.minute
      /\ t.second \in Int /\ 0 <= t.second /\ t.second <= 59
  BY Fields
<1>4. /\ Quotient(TimeToSeconds(t), 86400) = Days(t)
      /\ Remainder(TimeToSeconds(t), 86400) = Time(t)
  BY <1>1, <1>2, SMT DEF Quotient, Remainder
<1>5. /\ Quotient(Time(t), 3600) = t.hour /\ Remainder(Time(t), 3600) = Rest(t)
      /\ Quotient(Rest(t), 60) = t.minute /\ Remainder(Rest(t), 60) = t.second
  <2>1. Time(t) = t.hour * 3600 + Rest(t) /\ Rest(t) = t.minute * 60 + t.second
    BY DEF Time, Rest
  <2>2. Quotient(Time(t), 3600) = t.hour /\ Remainder(Time(t), 3600) = Rest(t)
    BY <1>2, <1>3, <2>1, SMT DEF Quotient, Remainder
  <2>3. Quotient(Rest(t), 60) = t.minute /\ Remainder(Rest(t), 60) = t.second
    <3>1. /\ Rest(t) = t.minute * 60 + t.second
          /\ t.minute \in Int /\ 0 <= t.minute
          /\ t.second \in Int /\ 0 <= t.second /\ t.second <= 59
      BY <1>3, <2>1
    <3> QED
      BY <3>1, SMT DEF Quotient, Remainder
  <2> QED
    BY <2>2, <2>3
<1>6. kSecondsPerDay = 86400 /\ kSecondsPerHour = 3600 /\ kSecondsPerMinute = 60
  BY SMT DEF kSecondsPerDay, kSecondsPerHour, kSecondsPerMinute
<1>7. FormatTimestamp(TimeToSeconds(t)) =
        [year |-> t.year, month |-> t.month, day |-> t.day,
         hour |-> t.hour, minute |-> t.minute, second |-> t.second]
  BY <1>1, <1>4, <1>5, <1>6 DEF FormatTimestamp
<1> QED
  BY <1>7, Fields

\* The number of seconds grows with the timestamp, and only with it.
LEMMA SecondsKeepOrder ==
    ASSUME NEW t \in Stamp, NEW u \in Stamp
    PROVE  Before(t, u) <=> TimeToSeconds(t) < TimeToSeconds(u)
<1>1. /\ Y(t) < Y(u) <=> t.year < u.year
      /\ Y(t) = Y(u) <=> t.year = u.year
      /\ M(t) < M(u) <=> t.month < u.month
      /\ M(t) = M(u) <=> t.month = u.month
      /\ D(t) < D(u) <=> t.day < u.day
      /\ D(t) = D(u) <=> t.day = u.day
  BY Fields, SMT DEF Y, M, D
<1>2. /\ Y(t) \in Int /\ M(t) \in Int /\ D(t) \in Int /\ Days(t) \in Int
      /\ 0 <= M(t) /\ M(t) <= 11 /\ 0 <= D(t) /\ D(t) <= 30
      /\ Time(t) \in Int /\ 0 <= Time(t) /\ Time(t) < 86400
      /\ Y(u) \in Int /\ M(u) \in Int /\ D(u) \in Int /\ Days(u) \in Int
      /\ 0 <= M(u) /\ M(u) <= 11 /\ 0 <= D(u) /\ D(u) <= 30
      /\ Time(u) \in Int /\ 0 <= Time(u) /\ Time(u) < 86400
  BY Counts
<1>3. /\ Days(t) < Days(u)
           <=> (Y(t) < Y(u)
                 \/ (Y(t) = Y(u) /\ (M(t) < M(u) \/ (M(t) = M(u) /\ D(t) < D(u)))))
      /\ Days(t) = Days(u) <=> (Y(t) = Y(u) /\ M(t) = M(u) /\ D(t) = D(u))
  BY <1>2, SMT DEF Days
<1>4. Time(t) < Time(u)
        <=> (t.hour < u.hour
              \/ (t.hour = u.hour
                    /\ (t.minute < u.minute
                          \/ (t.minute = u.minute /\ t.second < u.second))))
  <2>1. /\ t.hour \in Int /\ t.minute \in Int /\ t.second \in Int
        /\ u.hour \in Int /\ u.minute \in Int /\ u.second \in Int
        /\ 0 <= t.minute /\ t.minute <= 59 /\ 0 <= t.second /\ t.second <= 59
        /\ 0 <= u.minute /\ u.minute <= 59 /\ 0 <= u.second /\ u.second <= 59
    BY Fields
  <2>2. /\ Rest(t) < Rest(u)
             <=> (t.minute < u.minute \/ (t.minute = u.minute /\ t.second < u.second))
        /\ Rest(t) \in Int /\ 0 <= Rest(t) /\ Rest(t) < 3600
        /\ Rest(u) \in Int /\ 0 <= Rest(u) /\ Rest(u) < 3600
    BY <2>1, SMT DEF Rest
  <2>3. Time(t) < Time(u) <=> (t.hour < u.hour \/ (t.hour = u.hour /\ Rest(t) < Rest(u)))
    <3>1. /\ t.hour \in Int /\ u.hour \in Int /\ Rest(t) \in Int /\ Rest(u) \in Int
          /\ 0 <= Rest(t) /\ Rest(t) < 3600 /\ 0 <= Rest(u) /\ Rest(u) < 3600
      BY <2>1, <2>2
    <3>2. t.hour * 3600 + Rest(t) < u.hour * 3600 + Rest(u)
            <=> (t.hour < u.hour \/ (t.hour = u.hour /\ Rest(t) < Rest(u)))
      BY <3>1, SMT
    <3> QED
      BY <3>2 DEF Time
  <2> QED
    BY <2>2, <2>3
<1>5. TimeToSeconds(t) < TimeToSeconds(u)
        <=> (Days(t) < Days(u) \/ (Days(t) = Days(u) /\ Time(t) < Time(u)))
  <2>1. /\ TimeToSeconds(t) = Days(t) * 86400 + Time(t)
        /\ TimeToSeconds(u) = Days(u) * 86400 + Time(u)
    BY SecondsOfCounts
  <2>2. Days(t) * 86400 + Time(t) < Days(u) * 86400 + Time(u)
          <=> (Days(t) < Days(u) \/ (Days(t) = Days(u) /\ Time(t) < Time(u)))
    <3>1. /\ Days(t) \in Int /\ Days(u) \in Int /\ Time(t) \in Int /\ Time(u) \in Int
          /\ 0 <= Time(t) /\ Time(t) < 86400 /\ 0 <= Time(u) /\ Time(u) < 86400
      BY <1>2
    <3> QED
      BY <3>1, SMT
  <2> QED
    BY <2>1, <2>2, SMT
<1> QED
  BY <1>1, <1>3, <1>4, <1>5 DEF Before

----------------------------------------------------------------------------
\* The three variables are of one row.
DatesInv ==
    stamp \in Stamps /\ code = TimeToSeconds(stamp) /\ printed = FormatTimestamp(code)

LEMMA DatesInvariant == DatesSpec => []DatesInv
<1>1. DatesInit => DatesInv
  BY DEF DatesInit, DatesInv
<1>2. DatesInv /\ [DatesNext]_dateVars => DatesInv'
  BY DEF DatesInv, DatesNext, Row, dateVars
<1> QED
  BY <1>1, <1>2, PTL DEF DatesSpec

LEMMA StampsAreTimestamps == Stamps \subseteq Stamp
BY FieldsAssumption DEF Stamps, Stamp

\* Every timestamp of a file that holds none before 1970 is exported as the
\* text it was imported from (csv_exporter.cpp:70).
THEOREM StampsSurvive ==
    ASSUME \A year \in Years : year >= 1970
    PROVE  DatesSpec => []StampSurvives
<1>1. DatesInv => StampSurvives
  <2>1. \A t \in Stamps : t \in Stamp /\ t.year >= 1970
    BY StampsAreTimestamps DEF Stamps
  <2> QED
    BY <2>1, StampPrinted DEF DatesInv, StampSurvives
<1> QED
  BY <1>1, DatesInvariant, PTL

\* The numbers of a .kiodb file are ordered as the timestamps, of any year
\* (csv_type_parser.h:39).
THEOREM CodesAreOrdered == DatesSpec => CodesKeepOrder
<1>1. DatesInv /\ DatesInv' => (Before(stamp, stamp') <=> code < code')
  BY SecondsKeepOrder, StampsAreTimestamps DEF DatesInv
<1> QED
  BY <1>1, DatesInvariant, PTL DEF CodesKeepOrder
=============================================================================
