---------------------------- MODULE ApproxiDate ----------------------------
(***************************************************************************)
(* approxidate.h, git's date parser, over words instead of characters: a   *)
(* date is a sequence of words and is read one word at a time by both      *)
(* passes of git_date_offset_parse, the exact one (parse_date_basic) and   *)
(* the one that guesses (approxidate_str), whose result counts when the    *)
(* first fails.                                                            *)
(*                                                                         *)
(* Words are records with a kind k: "num" (v, n digits), "multi"           *)
(* (a c b [c d], d = -1 when missing), "off" (sign, hour, min), "header"   *)
(* (stamp, n digits, nine: begins with 9), "month", "wday", "tz", "name"   *)
(* (one .. ten), "unit" (seconds it has), "hour" (noon, midnight, tea) and *)
(* "PM", "AM", "yesterday", "never", "now", "last", "months", "years",     *)
(* "junk".  Two-part numbers are written with two digits, years with four. *)
(***************************************************************************)
EXTENDS Integers, Sequences, SequencesExt

CONSTANTS
    Words,     \* the words read
    Nows,      \* values of time(NULL)
    LocalOff,  \* minutes local time is ahead of UTC, the same all year
    MaxWords,  \* bound: words of a date
    MaxUnits   \* bound: the largest number put before a unit

VARIABLES in, now, basic, approx

vars == <<in, now, basic, approx>>

-----------------------------------------------------------------------------
\* The C library.  Days since 1970-01-01 of a date of the Gregorian calendar,
\* with any day of the month; and the date of a day.
Days(year, mon, mday) ==
    LET y == year + 1900 - (IF mon < 2 THEN 1 ELSE 0)
        m == (mon + 10) % 12
    IN  365 * y + (y \div 4) - (y \div 100) + (y \div 400) + ((153 * m + 2) \div 5) + mday - 719469

Midnight(d) ==
    LET z == d + 719468
        e == z % 146097
        y == (e - (e \div 1460) + (e \div 36524) - (e \div 146096)) \div 365
        r == e - (365 * y + (y \div 4) - (y \div 100))
        m == (5 * r + 2) \div 153
        mon == (m + 2) % 12
    IN  [year |-> y + 400 * (z \div 146097) - 1900 + (IF mon < 2 THEN 1 ELSE 0),
         mon |-> mon, mday |-> r - ((153 * m + 2) \div 5) + 1,
         hour |-> 0, min |-> 0, sec |-> 0, wday |-> (d + 4) % 7]

Clock(tm) == tm.hour * 3600 + tm.min * 60 + tm.sec

timegm(tm) == Days(tm.year, tm.mon, tm.mday) * 86400 + Clock(tm)

gmtime(t) ==
    LET s == t % 86400 IN
    [Midnight(t \div 86400) EXCEPT !.hour = s \div 3600, !.min = (s % 3600) \div 60, !.sec = s % 60]

mktime(tm)   == timegm(tm) - LocalOff * 60
localtime(t) == gmtime(t + LocalOff * 60)

-----------------------------------------------------------------------------
Bug_BeforeLeapDay(mon, year) == (year + 2) % 4 # 0

\* The date is before the leap day, or in a year without one.
BeforeLeapDay(mon, year) == mon < 2 \/ (year + 2) % 4 # 0

mdays == <<0, 31, 59, 90, 120, 151, 181, 212, 243, 273, 304, 334>>

\* tm_to_time_t: the seconds of a date from 1970 to 2099, -1 for others and
\* for dates without month or time of day.
tm_to_time_t(tm) ==
    LET year == tm.year - 70
        day  == tm.mday - (IF BeforeLeapDay(tm.mon, year) THEN 1 ELSE 0)
    IN  IF year \notin 0 .. 129 \/ tm.mon \notin 0 .. 11 \/ tm.hour < 0 \/ tm.min < 0 \/ tm.sec < 0
        THEN -1
        ELSE (year * 365 + ((year + 1) \div 4) + mdays[tm.mon + 1] + day) * 86400 + Clock(tm)

\* A month and a day, and a year with or without its century; refused when it
\* lies more than ten days ahead, if the time of day is known already.
YearOf(y) == CASE y = -1              -> gmtime(now).year
               [] y \in 1970 .. 2099  -> y - 1900
               [] y \in 71 .. 99      -> y
               [] y \in 0 .. 37       -> y + 100
               [] OTHER               -> -2

is_date(y, m, d, tm) ==
    /\ m \in 1 .. 12 /\ d \in 1 .. 31 /\ YearOf(y) # -2
    /\ now + 864000 >= tm_to_time_t([tm EXCEPT !.mon = m - 1, !.mday = d, !.year = YearOf(y)])

\* The ways to read three numbers, in the order they are tried.
Readings(a, c, b, d) ==
    (IF a > 70 THEN << <<a, b, d>>, <<a, d, b>> >> ELSE << >>)
        \o (IF c = "." THEN << <<d, b, a>>, <<d, a, b>> >> ELSE << <<d, a, b>>, <<d, b, a>> >>)

\* match_multi_number: the readings that make a time or a date.
IsTime(a, b, d) == a \in 0 .. 24 /\ b \in 0 .. 59 /\ d \in -1 .. 60

Dates(a, c, b, d, tm) ==
    SelectSeq(Readings(a, c, b, d), LAMBDA r : is_date(r[1], r[2], r[3], tm))

IsMulti(a, c, b, d, tm) == IF c = ":" THEN IsTime(a, b, d) ELSE Dates(a, c, b, d, tm) # << >>

match_multi_number(a, c, b, d, tm) ==
    IF c = ":"
    THEN [tm EXCEPT !.hour = a, !.min = b, !.sec = IF d < 0 THEN 0 ELSE d]
    ELSE LET r == Head(Dates(a, c, b, d, tm)) IN
         [tm EXCEPT !.mon = r[2] - 1, !.mday = r[3], !.year = IF r[1] = -1 THEN @ ELSE YearOf(r[1])]

-----------------------------------------------------------------------------
\* parse_date_basic: s is [tm, offset, gmt], with -1 for what is not known.
Unknown == [year |-> -1, mon |-> -1, mday |-> -1, hour |-> -1, min |-> -1, sec |-> -1, wday |-> 0]
Basic0  == [tm |-> Unknown, offset |-> -1, gmt |-> FALSE]

nodate(tm) == \A f \in {"year", "mon", "mday", "hour", "min", "sec"} : tm[f] < 0

\* match_digit: a number on its own.
match_digit(s, v, n) ==
    CASE v >= 100000000 /\ nodate(s.tm) -> [s EXCEPT !.tm = gmtime(v), !.gmt = TRUE]
      [] n = 4 /\ v <= 1400 /\ s.offset = -1 -> [s EXCEPT !.offset = (v \div 100) * 60 + (v % 100)]
      [] n = 4 /\ v \in 1901 .. 2099 -> [s EXCEPT !.tm.year = v - 1900]
      [] n > 2 -> s
      [] v \in 1 .. 31 /\ s.tm.mday < 0 -> [s EXCEPT !.tm.mday = v]
      [] n = 2 /\ s.tm.year < 0 /\ v < 10 /\ s.tm.mday >= 0 -> [s EXCEPT !.tm.year = v + 100]
      [] n = 2 /\ s.tm.year < 0 /\ v >= 70 -> [s EXCEPT !.tm.year = v]
      [] v \in 1 .. 12 /\ s.tm.mon < 0 -> [s EXCEPT !.tm.mon = v - 1]
      [] OTHER -> s

match_tz(s, sign, hour, min) ==
    IF min < 60 /\ hour < 24 THEN [s EXCEPT !.offset = sign * (hour * 60 + min)] ELSE s

Digits(v) == IF v >= 1000 THEN 4 ELSE 2

\* Numbers that are no date or time are read one by one; one after a "-" is
\* taken for a time zone.
BasicPair(s, a, c, b) ==
    IF b = -1 THEN match_digit(s, a, Digits(a))
    ELSE IF IsMulti(a, c, b, -1, s.tm)
    THEN [s EXCEPT !.tm = match_multi_number(a, c, b, -1, @)]
    ELSE LET first == match_digit(s, a, Digits(a)) IN
         IF c = "-" THEN match_tz(first, -1, b, 0) ELSE match_digit(first, b, Digits(b))

BasicMulti(s, w) ==
    IF IsMulti(w.a, w.c, w.b, w.d, s.tm)
    THEN [s EXCEPT !.tm = match_multi_number(w.a, w.c, w.b, w.d, @)]
    ELSE LET first  == match_digit(s, w.a, Digits(w.a))
             second == match_tz(first, -1, w.b, 0)
         IN  IF w.c # "-" THEN BasicPair(first, w.b, w.c, w.d)
             ELSE IF w.d = -1 THEN second ELSE match_tz(second, -1, w.d, 0)

\* The sign of the C remainder is that of the dividend.
Half(hour) == IF hour < 0 THEN -((-hour) % 12) ELSE hour % 12

\* match_alpha: a month, a weekday, a time zone or half a day; the rest is skipped.
match_alpha(s, w) ==
    CASE w.k = "month" -> [s EXCEPT !.tm.mon = w.v]
      [] w.k = "wday"  -> [s EXCEPT !.tm.wday = w.v]
      [] w.k = "tz"    -> IF s.offset = -1 THEN [s EXCEPT !.offset = w.v] ELSE s
      [] w.k = "PM"    -> [s EXCEPT !.tm.hour = Half(@) + 12]
      [] w.k = "AM"    -> [s EXCEPT !.tm.hour = Half(@)]
      [] OTHER         -> s

\* One round of the loop.
BasicStep(s, w) ==
    CASE w.k = "num"    -> match_digit(s, w.v, w.n)
      [] w.k = "multi"  -> BasicMulti(s, w)
      [] w.k = "off"    -> match_tz(s, w.sign, w.hour, w.min)
      [] w.k = "header" -> match_tz(match_digit(s, w.v, w.n), w.sign, w.hour, w.min)
      [] OTHER          -> match_alpha(s, w)

\* match_object_header_date: "@" stamp and offset are the whole date.
IsHeader == Len(in) = 1 /\ in[1].k = "header" /\ ~in[1].nine

BasicFails == ~IsHeader /\ tm_to_time_t(basic.tm) = -1

\* Without an offset the time is local; the offset of an epoch is ignored.
BasicTime ==
    IF IsHeader THEN in[1].v
    ELSE tm_to_time_t(basic.tm) -
         (IF basic.gmt THEN 0 ELSE 60 * (IF basic.offset = -1 THEN LocalOff ELSE basic.offset))

-----------------------------------------------------------------------------
\* approxidate_str: s is [tm, num, touched]; year, month and day are unknown at
\* first, the time of day is the current one.
Approx0(t) == [tm |-> [localtime(t) EXCEPT !.year = -1, !.mon = -1, !.mday = -1],
               num |-> 0, touched |-> FALSE]

\* update_tm: what is not known yet is taken from the current date, the year so
\* that the month is not ahead; then some seconds are subtracted.
Filled(tm) ==
    LET n == localtime(now)
        mon == IF tm.mon < 0 THEN n.mon ELSE tm.mon
    IN  [tm EXCEPT !.mday = IF @ < 0 THEN n.mday ELSE @, !.mon = mon,
                   !.year = IF @ >= 0 THEN @ ELSE IF mon > n.mon THEN n.year - 1 ELSE n.year]

update_tm(tm, sec) == localtime(mktime(Filled(tm)) - sec)

\* pending_number: a number that no word used is a day, a month or a year.
pending_number(s) ==
    LET m == s.num IN
    CASE m = 0 -> s
      [] m # 0 /\ s.tm.mday < 0 /\ m < 32 -> [s EXCEPT !.num = 0, !.tm.mday = m]
      [] m # 0 /\ ~(s.tm.mday < 0 /\ m < 32) /\ s.tm.mon < 0 /\ m < 13 ->
            [s EXCEPT !.num = 0, !.tm.mon = m - 1]
      [] OTHER -> [s EXCEPT !.num = 0,
                            !.tm.year = IF @ >= 0 THEN @
                                        ELSE IF m \in 1970 .. 2099 THEN m - 1900
                                        ELSE IF m \in 70 .. 99 THEN m
                                        ELSE IF m < 38 THEN m + 100 ELSE @]

\* approxidate_digit; zeroes are put before small numbers only.
Number(s, v) == [pending_number(s) EXCEPT !.num = v, !.touched = TRUE]

Padded(v, n) == n > 2 /\ v < 10 ^ (n - 1)

NumberWord(s, v, n) ==
    IF Padded(v, n) THEN [pending_number(s) EXCEPT !.touched = TRUE] ELSE Number(s, v)

ApproxPair(s, a, c, b) ==
    LET p == pending_number(s) IN
    IF b # -1 /\ IsMulti(a, c, b, -1, p.tm)
    THEN [p EXCEPT !.tm = match_multi_number(a, c, b, -1, @), !.touched = TRUE]
    ELSE IF b = -1 THEN Number(s, a) ELSE Number(Number(s, a), b)

ApproxMulti(s, w) ==
    LET p == pending_number(s) IN
    IF IsMulti(w.a, w.c, w.b, w.d, p.tm)
    THEN [p EXCEPT !.tm = match_multi_number(w.a, w.c, w.b, w.d, @), !.touched = TRUE]
    ELSE ApproxPair(Number(s, w.a), w.b, w.c, w.d)

\* date_time: noon, midnight or tea, today or yesterday.
date_time(tm, hour) ==
    [(IF tm.hour < hour THEN update_tm(tm, 86400) ELSE tm) EXCEPT !.hour = hour, !.min = 0, !.sec = 0]

\* date_pm, date_am: the number before it is the hour.
date_pm(s, half) ==
    LET tm == IF s.num = 0 THEN s.tm ELSE [s.tm EXCEPT !.hour = s.num, !.min = 0, !.sec = 0] IN
    [s EXCEPT !.num = 0, !.tm = [tm EXCEPT !.hour = (@ % 12) + half]]

Bug_DaysBack(wday, i, n) == (wday - i) + 7 * (n - 1)

\* The last weekday but n - 1, counted back from the day reached so far.
DaysBack(wday, i, n) == (wday - i) + 7 * (IF wday <= i THEN n ELSE n - 1)

MonthsBack(tm, n) == LET m == tm.mon - n IN [tm EXCEPT !.mon = m % 12, !.year = @ + (m \div 12)]

\* The words that count only after a number.
Counted(s, w) ==
    CASE w.k = "unit"   -> update_tm(s.tm, w.v * s.num)
      [] w.k = "wday"   -> update_tm(s.tm, 86400 * DaysBack(s.tm.wday, w.v, s.num))
      [] w.k = "months" -> MonthsBack(update_tm(s.tm, 0), s.num)
      [] w.k = "years"  -> [update_tm(s.tm, 0) EXCEPT !.year = @ - s.num]

Countable == {"unit", "wday", "months", "years"}

\* approxidate_alpha: months, special words, names of numbers and units.
approxidate_alpha(s, w) ==
    LET Touch(tm) == [s EXCEPT !.tm = tm, !.touched = TRUE] IN
    CASE w.k = "month"     -> Touch([s.tm EXCEPT !.mon = w.v])
      [] w.k = "yesterday" -> Touch(update_tm(s.tm, 86400))
      [] w.k = "now"       -> Touch(update_tm(s.tm, 0))
      [] w.k = "never"     -> Touch(localtime(0))
      [] w.k = "hour"      -> Touch(date_time(s.tm, w.v))
      [] w.k = "PM"        -> [date_pm(s, 12) EXCEPT !.touched = TRUE]
      [] w.k = "AM"        -> [date_pm(s, 0) EXCEPT !.touched = TRUE]
      [] w.k = "name" /\ s.num = 0 -> [s EXCEPT !.num = w.v, !.touched = TRUE]
      [] w.k = "last" /\ s.num = 0 -> [s EXCEPT !.num = 1, !.touched = TRUE]
      [] w.k \in Countable /\ s.num # 0 -> [s EXCEPT !.tm = Counted(s, w), !.num = 0, !.touched = TRUE]
      [] OTHER -> s

\* One round of the loop.
ApproxStep(s, w) ==
    CASE w.k = "num"    -> NumberWord(s, w.v, w.n)
      [] w.k = "multi"  -> ApproxMulti(s, w)
      [] w.k = "off"    -> NumberWord(s, w.hour * 100 + w.min, 4)
      [] w.k = "header" -> NumberWord(NumberWord(s, w.v, w.n), w.hour * 100 + w.min, 4)
      [] OTHER          -> approxidate_alpha(s, w)

ApproxFails == ~approx.touched
ApproxTime  == mktime(Filled(pending_number(approx).tm))

-----------------------------------------------------------------------------
Init ==
    /\ now \in Nows
    /\ in = << >> /\ basic = Basic0 /\ approx = Approx0(now)

\* Both passes read one more word.
Read(w) ==
    /\ Len(in) < MaxWords
    /\ w.k \in Countable => approx.num <= MaxUnits
    /\ in' = Append(in, w)
    /\ basic' = BasicStep(basic, w)
    /\ approx' = ApproxStep(approx, w)
    /\ UNCHANGED now

Next == \E w \in Words : Read(w)

Spec == Init /\ [][Next]_vars

\* git_date_offset_parse
ParseFails == BasicFails /\ ApproxFails
Parsed     == IF BasicFails THEN ApproxTime ELSE BasicTime

-----------------------------------------------------------------------------
WordsOf(kinds) == SelectSeq(in, LAMBDA w : w.k \in kinds)
Only(kinds)    == \A x \in 1 .. Len(in) : in[x].k \in kinds

IsoDate(w) == w.k = "multi" /\ w.c = "-"
IsoTime(w) == w.k = "multi" /\ w.c = ":"

\* A calendar date, a time of day and perhaps an offset and a weekday give that
\* time, in whatever order they come and whichever pass reads them: nothing of
\* one is taken for another.
ExplicitDateParsed ==
    LET d == SelectSeq(in, IsoDate)
        t == SelectSeq(in, IsoTime)
        o == WordsOf({"off", "tz"})
        Off(w) == IF w.k = "tz" THEN w.v ELSE w.sign * (w.hour * 60 + w.min)
        day == Days(d[1].a - 1900, d[1].b - 1, d[1].d) * 86400
    IN  /\ Only({"multi", "off", "tz", "wday"}) /\ Len(d) = 1 /\ Len(t) = 1 /\ Len(d) + Len(t) = Len(WordsOf({"multi"}))
        /\ Len(o) <= 1 /\ day < now
        => /\ ~ParseFails
           /\ Parsed = day + t[1].a * 3600 + t[1].b * 60 + (IF t[1].d < 0 THEN 0 ELSE t[1].d)
                           - 60 * (IF o = << >> THEN LocalOff ELSE Off(o[1]))

\* A date made of "2 weeks", "last friday", "yesterday", "noon" and the like is
\* never in the future, on any day of any month.
RelativeIsPast ==
    LET Numbers == {"num", "name", "last"} IN
    /\ Only({"num", "name", "last", "unit", "wday", "months", "years", "yesterday", "hour", "never", "now"})
    /\ \A x \in 1 .. Len(in) : in[x].k \in Numbers => x < Len(in) /\ in[x + 1].k \in Countable
    => Parsed <= now
=============================================================================
