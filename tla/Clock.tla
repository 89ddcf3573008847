-------------------------------- MODULE Clock --------------------------------
(***************************************************************************)
(* The calendar of clock.c: closed formulas for the number of a day, its   *)
(* date, the day of the week and of the year, the week, the last such day  *)
(* of a month, the summer time, the sum of times, and the date-time of     *)
(* COSEM in bytes.  The reference is a calendar that is turned day by day. *)
(***************************************************************************)
EXTENDS Integers, Sequences, FiniteSets

CONSTANTS
    FirstYears,     \* years on whose first day a calendar starts
    Turns,          \* bound: how many years it is turned
    Spans,          \* spans of hours, minutes and seconds that are added
    DayValues,      \* values of the number of days that a sum returns: 2^32 in the code
    Deviations      \* deviations of a date-time

\* A year is a uint16_t and a deviation an int16_t.
ASSUME ClockAssumption ==
    /\ Turns \in Nat \ {0} /\ DayValues \in Nat \ {0}
    /\ FirstYears \subseteq 1..65536 - Turns
    /\ \A span \in Spans : span.hour \in Int /\ span.min \in Int /\ span.sec \in Int
    /\ \A d \in Deviations : d \in Int /\ -32768 <= d /\ d < 32768

\* The sums of add_time are of int, which has no value beyond 2^31: the spans stay below.
ASSUME SpanAssumption ==
    \A span \in Spans :
        /\ -2000000000 <= span.hour /\ span.hour <= 2000000000
        /\ -2000000000 <= span.min /\ span.min <= 2000000000
        /\ -2000000000 <= span.sec /\ span.sec <= 2000000000

VARIABLE today      \* a date, its day of the week and year, its number, and a time

-----------------------------------------------------------------------------
(* Dates of clock.c                                                         *)

isleap(yr) == yr % 400 = 0 \/ (yr % 4 = 0 /\ yr % 100 # 0)

days == << 31, 28, 31, 30, 31, 30, 31, 31, 30, 31, 30, 31 >>

months_to_days(month) == (month * 3057 - 3007) \div 100

years_to_days(yr) == yr * 365 + (yr \div 4) - (yr \div 100) + (yr \div 400)

ymd_to_scalar(yr, mo, day) ==
    day + months_to_days(mo) + years_to_days(yr - 1)
        - (IF mo <= 2 THEN 0 ELSE IF isleap(yr) THEN 1 ELSE 2)

\* The year is searched from below.
YearOf(scalar) ==
    LET n0 == (scalar * 400) \div 146097
    IN  CHOOSE n \in n0..n0 + 2 :
            /\ years_to_days(n) >= scalar
            /\ \A k \in n0..n - 1 : years_to_days(k) < scalar

\* The month undoes months_to_days.
scalar_to_ymd(scalar) ==
    LET yr  == YearOf(scalar)
        n1  == scalar - years_to_days(yr - 1)
        n   == IF n1 <= 59 THEN n1
               ELSE n1 + 2 - (IF ~isleap(yr) THEN 0 ELSE IF n1 + 2 > 61 THEN 1 ELSE 2)
        mo  == (n * 100 + 3007) \div 3057
    IN  [yr |-> yr, mo |-> mo, day |-> n - months_to_days(mo)]

clk_dow(yr, mo, day) == (ymd_to_scalar(yr, mo, day) - 1) % 7

clk_is_valid_month(mo) == mo \in 1..12

clk_is_valid_date(yr, mo, day) ==
    /\ clk_is_valid_month(mo)
    /\ day \in 1..days[mo] + (IF mo = 2 /\ isleap(yr) THEN 1 ELSE 0)

\* The last day of the month is that of a year that is not leap.
clk_last_dow(yr, mo, dow) ==
    LET last == clk_dow(yr, mo, days[mo])
    IN  IF dow <= last THEN days[mo] - (last - dow) ELSE days[mo] - (7 - (dow - last))

clk_daynum(yr, mo, day) == ymd_to_scalar(yr, mo, day) - ymd_to_scalar(yr, 1, 1) + 1

\* Variant: the first week is that of the first day of the year.
clk_weeknumFirst(yr, mo, day) == (clk_daynum(yr, mo, day) - 1) \div 7 + 1

clk_weeknum(yr, mo, day) ==
    LET jan1 == (ymd_to_scalar(yr, 1, 1) - 1) % 7
    IN  (clk_daynum(yr, mo, day) + jan1 - 1) \div 7 + (IF jan1 < 4 THEN 1 ELSE 0)

-----------------------------------------------------------------------------
(* Unix time                                                                *)

\* clk_to_epoch, for the years that it takes.
InEpoch(yr) == yr \in 1970..2020

clk_to_epoch(yr, mo, day, sec) ==
    (ymd_to_scalar(yr, mo, day) - ymd_to_scalar(1970, 1, 1)) * 86400 + sec

clk_to_datetime(timer) ==
    LET d == scalar_to_ymd(timer \div 86400 + ymd_to_scalar(1970, 1, 1))
    IN  [yr |-> d.yr, mo |-> d.mo, day |-> d.day, sec |-> timer % 86400,
         yday |-> ymd_to_scalar(d.yr, d.mo, d.day) - ymd_to_scalar(d.yr, 1, 1),
         wday |-> clk_dow(d.yr, d.mo, d.day)]

-----------------------------------------------------------------------------
(* Summer time                                                              *)

SUNDAY == 6

\* Variant: the rule starts a month late.
DST_start_moLate == 5

DST_start_mo == 4
DST_start_dt == 1
DST_stop_mo == 10
DST_stop_dt == 31

\* The first day that is SUNDAY modulo 7 from the start on, and the last up to the stop.  (The
\* number of a day is not its day of the week, which clk_dow has from the day before.)  Of a
\* date that does not exist, of which the code returns -1, nothing is asked.
clk_is_dst(yr, mo, day) ==
    LET date  == ymd_to_scalar(yr, mo, day)
        from  == ymd_to_scalar(yr, DST_start_mo, DST_start_dt)
        to    == ymd_to_scalar(yr, DST_stop_mo, DST_stop_dt)
        Start == CHOOSE n \in from..from + 6 : n % 7 = SUNDAY
        Stop  == CHOOSE n \in to - 6..to : n % 7 = SUNDAY
    IN  date >= Start /\ date < Stop

-----------------------------------------------------------------------------
(* Sums of times                                                            *)

\* Variant: a sum below zero is not corrected.
CarryCut(x, n) ==
    IF x >= 0 THEN [quot |-> x \div n, rem |-> x % n]
              ELSE [quot |-> -((-x) \div n), rem |-> n - ((-x) % n)]

\* div() of C, which cuts towards zero, and the correction of add_time for a sum
\* below zero.
Carry(x, n) ==
    IF x >= 0 THEN [quot |-> x \div n, rem |-> x % n]
              ELSE [quot |-> -((-x) \div n) - 1, rem |-> n - ((-x) % n)]

\* A base out of range is refused, and nothing is written.
OutOfRange(base) == base.hour > 24 \/ base.min > 59 \/ base.sec > 59

\* add_time; the base of 24 hours is midnight, and a number of days below zero is stored in
\* an unsigned word.
add_time(base, span) ==
    LET s == Carry(base.sec + span.sec, 60)
        m == Carry(base.min + span.min + s.quot, 60)
        h == Carry((IF base.hour = 24 THEN 0 ELSE base.hour) + span.hour + m.quot, 24)
    IN  IF OutOfRange(base) THEN [ret |-> -1]
        ELSE [ret |-> 0, hour |-> h.rem, min |-> m.rem, sec |-> s.rem,
              days |-> h.quot % DayValues]

-----------------------------------------------------------------------------
(* Date-time of COSEM                                                       *)

clk_is_valid_time(h, m, s) == h <= 23 /\ m <= 59 /\ s <= 59

clk_is_valid_deviation(d) == -720 <= d /\ d <= 720

\* clk_cosem_update_status: the summer time in the high bit, an invalid value in the low one.
Status(c) ==
    IF ~clk_is_valid_date(c.year, c.month, c.day) \/ ~clk_is_valid_time(c.hour, c.minute, c.second)
          \/ ~clk_is_valid_deviation(c.deviation)
    THEN 1 ELSE IF clk_is_dst(c.year, c.month, c.day) THEN 128 ELSE 0

\* clk_cosem_init
CosemInit ==
    LET c == [year |-> 2000, month |-> 1, day |-> 1, dow |-> clk_dow(2000, 1, 1), hour |-> 0,
              minute |-> 0, second |-> 0, hundredths |-> 0, deviation |-> -60, status |-> 0]
    IN  [c EXCEPT !.status = Status(c)]

\* clk_set_undefined
CosemUndefined ==
    [year |-> 65535, month |-> 255, day |-> 255, dow |-> 255, hour |-> 255, minute |-> 255,
     second |-> 255, hundredths |-> 0, deviation |-> -32768, status |-> 255]

HighByte(n) == (n % 65536) \div 256
LowByte(n)  == n % 256

clk_date_to_cosem(c) == << HighByte(c.year), LowByte(c.year), c.month, c.day, c.dow >>
clk_time_to_cosem(c) == << c.hour, c.minute, c.second, c.hundredths >>

clk_datetime_to_cosem(c) ==
    clk_date_to_cosem(c) \o clk_time_to_cosem(c)
        \o << HighByte(c.deviation), LowByte(c.deviation), c.status >>

\* Variant: the deviation is read as an unsigned word.
SignedNot(hi, lo) == 256 * hi + lo

\* A word of two bytes as int16_t.
Signed(hi, lo) == LET n == 256 * hi + lo IN IF n >= 32768 THEN n - 65536 ELSE n

\* clk_datetime_from_cosem of b; it fails at the end of the bytes.
clk_datetime_from_cosem(b) ==
    [year |-> 256 * b[1] + b[2], month |-> b[3], day |-> b[4], dow |-> b[5], hour |-> b[6],
     minute |-> b[7], second |-> b[8], hundredths |-> b[9],
     deviation |-> Signed(b[10], b[11]), status |-> b[12]]

-----------------------------------------------------------------------------
(* The calendar that is turned                                              *)

Leap(y) == y % 4 = 0 /\ (y % 100 = 0 => y % 400 = 0)

LastDay(y, m) ==
    CASE m \in {4, 6, 9, 11} -> 30
      [] m = 2 -> IF Leap(y) THEN 29 ELSE 28
      [] OTHER -> 31

\* The number of the week in which a year begins.
FirstWeek(dow) == IF dow <= 3 THEN 1 ELSE 0

\* The first day of the year y, counted from the first of January of the year 1, a Monday.
NewYear(y) ==
    LET n == 365 * (y - 1) + Cardinality({k \in 1..y - 1 : Leap(k)}) + 1
    IN  [y |-> y, m |-> 1, d |-> 1, dow |-> (n - 1) % 7, yday |-> 1, n |-> n,
         week |-> FirstWeek((n - 1) % 7),
         hour |-> 0, min |-> 0, sec |-> 0, turns |-> Turns]

InitClock == \E y \in FirstYears : today = NewYear(y)

\* The next day.  The time only gives the sums a different base every day.
NextDay ==
    LET dow   == (today.dow + 1) % 7
        moved == [today EXCEPT !.dow = dow, !.n = @ + 1, !.yday = @ + 1,
                    !.week = IF dow = 0 THEN @ + 1 ELSE @,
                    !.hour = (@ + 5) % 24, !.min = (@ + 7) % 60, !.sec = (@ + 11) % 60]
    IN
    \/ /\ today.d < LastDay(today.y, today.m)
       /\ today' = [moved EXCEPT !.d = @ + 1]
    \/ /\ today.d = LastDay(today.y, today.m) /\ today.m < 12
       /\ today' = [moved EXCEPT !.d = 1, !.m = @ + 1]
    \/ /\ today.d = 31 /\ today.m = 12 /\ today.turns > 1
       /\ today' = [moved EXCEPT !.d = 1, !.m = 1, !.yday = 1, !.y = @ + 1,
                      !.week = FirstWeek(dow), !.turns = @ - 1]

ClockSpec == InitClock /\ [][NextDay]_today

-----------------------------------------------------------------------------
(* Properties                                                               *)

\* The 29th of February, on which three formulas fail.
LeapDay == today.m = 2 /\ today.d = 29
SecondOfDay(t) == 3600 * t.hour + 60 * t.min + t.sec

\* A number of a day is its date again: Unix time is turned into the day it was made of.
DateIsKept ==
    scalar_to_ymd(ymd_to_scalar(today.y, today.m, today.d))
        = [yr |-> today.y, mo |-> today.m, day |-> today.d]

\* The formulas agree with the calendar on every day: its number, its day of the week and of
\* the year, its week, which begins on Monday and is the first when it has a Thursday, which
\* days exist, the last Monday, ... of a month, and Unix time there and back, for the years
\* that it takes.  The leap day is left out where they do not: of the date of its number, of
\* the last such day of February, and of Unix time.  (A year may have a week 53, beyond the
\* 52 of clock.c:233.)
CalendarAgrees ==
    LET y == today.y  m == today.m  d == today.d IN
    /\ ymd_to_scalar(y, m, d) = today.n
    /\ clk_dow(y, m, d) = today.dow
    /\ clk_daynum(y, m, d) = today.yday
    /\ clk_weeknum(y, m, d) = today.week
    /\ clk_is_valid_date(y, m, d)
    /\ clk_is_valid_date(y, m, d + 1) <=> d < LastDay(y, m)
    /\ ~LeapDay =>
          /\ DateIsKept
          /\ d + 7 > LastDay(y, m) => clk_last_dow(y, m, today.dow) = d
          /\ InEpoch(y) =>
                clk_to_datetime(clk_to_epoch(y, m, d, SecondOfDay(today))) =
                    [yr |-> y, mo |-> m, day |-> d, sec |-> SecondOfDay(today),
                     yday |-> today.yday - 1, wday |-> today.dow]

\* The summer time begins on one of the first seven days of April and ends on one of the last
\* seven of October, once each in a year, and changes at no other time.  Which day of the week
\* it is the property leaves open: clock.c:349-358 says a Sunday, by the rules of the U.S.,
\* and the code, which takes the number of a day modulo 7 for its day of the week, turns on
\* the Saturday before.
DstOf(t) == clk_is_dst(t.y, t.m, t.d)
DstTurns ==
    [][ DstOf(today') # DstOf(today) =>
            IF DstOf(today') THEN today'.m = 4 /\ today'.d \in 1..7
                             ELSE today'.m = 10 /\ today'.d \in 25..31 ]_today

\* No second is lost in a sum of times with its carries and borrows: it differs from the base
\* and the span by whole days, whose number is returned modulo 2^32, so that one below zero
\* comes out as a large number and not as the negative one of clock.c:289-290.  The result is
\* a time of the day but for what clock.c:279-281 excludes and the code leaves: seconds or
\* minutes of 60, hours of 24, when their sum is negative and whole, and then only.  A base of
\* 24 hours is midnight, and one beyond it is refused.
InRange(x, sum, n) == x \in 0..n - 1 \/ (x = n /\ sum < 0 /\ sum % n = 0)
SumAgrees(r, span) ==
    LET s    == today.sec + span.sec
        m    == today.min + span.min + ((s - r.sec) \div 60)
        h    == today.hour + span.hour + ((m - r.min) \div 60)
        over == SecondOfDay(today) + SecondOfDay(span) - SecondOfDay(r)
    IN
    /\ r.ret = 0
    /\ InRange(r.sec, s, 60) /\ InRange(r.min, m, 60) /\ InRange(r.hour, h, 24)
    /\ over % 86400 = 0 /\ r.days = (over \div 86400) % DayValues
TimeAt(hour) == [hour |-> hour, min |-> today.min, sec |-> today.sec]
AddTimeAgrees ==
    \A span \in Spans :
        /\ SumAgrees(add_time(TimeAt(today.hour), span), span)
        /\ add_time(TimeAt(24), span) = add_time(TimeAt(0), span)
        /\ add_time(TimeAt(25), span) = [ret |-> -1]

\* A date-time that is written is read back, with any deviation, and undefined too; that of
\* a day of the calendar is marked as valid.
Moment(d) ==
    [year |-> today.y, month |-> today.m, day |-> today.d, dow |-> today.dow,
     hour |-> today.hour, minute |-> today.min, second |-> today.sec,
     hundredths |-> 99, deviation |-> d, status |-> 0]
IsReadBack(v) == clk_datetime_from_cosem(clk_datetime_to_cosem(v)) = v
CosemAgrees ==
    /\ \A d \in Deviations :
          /\ IsReadBack([Moment(d) EXCEPT !.status = Status(Moment(d))])
          /\ Status(Moment(d)) % 2 = 0 <=> -720 <= d /\ d <= 720
    /\ IsReadBack(CosemUndefined) /\ IsReadBack(CosemInit)
=============================================================================
