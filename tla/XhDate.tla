------------------------------- MODULE XhDate -------------------------------
(***************************************************************************)
(* xh_date.h: date queries of xap_helper.h.  A date is parsed by           *)
(* ApproxiDate and turned into a number in the format of the value slot it *)
(* is compared with; the slots were filled by SearchIdx.pm.                *)
(*                                                                         *)
(* A number with a date and a time of day is the pair of the two: the      *)
(* decimal number does not fit TLC's integers, and the second part stays   *)
(* below 10^6.                                                             *)
(***************************************************************************)
EXTENDS ApproxiDate

Formats == {"YYYYmmdd", "YYYYmmddHHMMSS", "epoch_sec"}

YMD(tm) == (tm.year + 1900) * 10000 + (tm.mon + 1) * 100 + tm.mday
HMS(tm) == tm.hour * 10000 + tm.min * 100 + tm.sec

\* strftime of the UTC time in the format of a slot.
Bug_Format(fmt, t) ==
    LET tm == [gmtime(t) EXCEPT !.mon = @ - 1] IN
    CASE fmt = "YYYYmmdd"       -> <<YMD(tm), 0>>
      [] fmt = "YYYYmmddHHMMSS" -> <<YMD(tm), HMS(tm)>>
      [] fmt = "epoch_sec"      -> <<t, 0>>

Format(fmt, t) ==
    LET tm == gmtime(t) IN
    CASE fmt = "YYYYmmdd"       -> <<YMD(tm), 0>>
      [] fmt = "YYYYmmddHHMMSS" -> <<YMD(tm), HMS(tm)>>
      [] fmt = "epoch_sec"      -> <<t, 0>>

\* What SearchIdx.pm stores for a message of time t.
Slot(fmt, t) ==
    LET tm == gmtime(t) IN
    CASE fmt = "YYYYmmdd"       -> <<YMD(tm), 0>>
      [] fmt = "YYYYmmddHHMMSS" -> <<YMD(tm), HMS(tm)>>
      [] fmt = "epoch_sec"      -> <<t, 0>>

\* to_column_fmt: a date that is already in the format is not parsed; t is what
\* the parser makes of it.
Ready(fmt) ==
    /\ Len(in) = 1 /\ in[1].k = "num"
    /\ \/ fmt = "YYYYmmdd" /\ in[1].n = 8
       \/ fmt = "epoch_sec" /\ in[1].n >= 5

to_column_fmt(fmt, t) == IF Ready(fmt) THEN <<in[1].v, 0>> ELSE Format(fmt, t)

Leq(x, y) == x[1] < y[1] \/ (x[1] = y[1] /\ x[2] <= y[2])

\* The queries for DATE.., ..DATE and DATE1..DATE2 (GitDateRangeProcessor),
\* given the numbers of the dates and of a message.
From(b, m)     == Leq(b, m)
To(e, m)       == Leq(m, e)
Range2(b, e, m) == Leq(b, m) /\ Leq(m, e)

\* GitDateFieldProcessor: the query for a DATE on its own adds the seconds of a
\* day to the number.
Field(fmt, b, m) ==
    Range2(b, IF fmt = "YYYYmmddHHMMSS" THEN <<b[1], b[2] + 86400>> ELSE <<b[1] + 86400, 0>>, m)

-----------------------------------------------------------------------------
\* The precision of a slot.
Grain(fmt, t) == IF fmt = "YYYYmmdd" THEN t \div 86400 ELSE t

\* Messages around a time: in the same second, and next to it.
Around(t) == {t - 1, t, t + 1}

\* A date with a meaning, the same for all slots.
Understood == ~ParseFails /\ \A fmt \in Formats : Ready(fmt) => in[1].v >= 100000000

\* A range selects the messages between its ends and no others, whatever the
\* date means and however near its ends they are.
RangeIsExact ==
    Understood =>
        LET p == Parsed
            g(fmt) == Grain(fmt, p)
        IN  \A fmt \in Formats :
                LET b == to_column_fmt(fmt, p)
                    e == Format(fmt, now)
                IN  \A t \in Around(p) :
                        LET m == Slot(fmt, t) IN
                        /\ From(b, m) <=> g(fmt) <= Grain(fmt, t)
                        /\ To(b, m) <=> Grain(fmt, t) <= g(fmt)
                        /\ Range2(b, e, m) <=> g(fmt) <= Grain(fmt, t) /\ Grain(fmt, t) <= Grain(fmt, now)

\* A date on its own selects the messages of the day that begins with it, as
\* Search.pm and t/search.t expand it.
FieldIsDay ==
    Understood =>
        \A fmt \in Formats, t \in Around(Parsed) \union Around(Parsed + 86400) :
            Field(fmt, to_column_fmt(fmt, Parsed), Slot(fmt, t)) <=>
                Grain(fmt, Parsed) <= Grain(fmt, t) /\ Grain(fmt, t) <= Grain(fmt, Parsed + 86400)
=============================================================================
