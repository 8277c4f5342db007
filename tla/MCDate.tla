------------------------------- MODULE MCDate -------------------------------
(***************************************************************************)
(* Words and clock readings for ApproxiDate and XhDate.                    *)
(***************************************************************************)
EXTENDS XhDate

Num(v, n) == [k |-> "num", v |-> v, n |-> n]
Multi(a, c, b, d) == [k |-> "multi", a |-> a, c |-> c, b |-> b, d |-> d]
Off(sign, hour, min) == [k |-> "off", sign |-> sign, hour |-> hour, min |-> min]
Of(k, v) == [k |-> k, v |-> v]
Just(k) == [k |-> k, v |-> 0]

MCWords ==
    {Num(2, 1), Num(2010, 4), Num(1300000000, 10),
     Multi(2010, "-", 10, 2), Multi(2012, "-", 2, 29), Multi(2030, "-", 1, 31),
     Multi(13, "/", 10, 11), Multi(1, ".", 2, -1), Multi(5, ":", 41, 23), Multi(24, ":", 0, -1),
     Off(1, 2, 0), Off(-1, 10, 30), Of("tz", -420),
     [k |-> "header", v |-> 86399, n |-> 5, nine |-> FALSE, sign |-> -1, hour |-> 1, min |-> 0],
     Of("month", 1), Of("wday", 5), Of("name", 10), Of("unit", 604800), Of("hour", 12),
     Just("PM"), Just("yesterday"), Just("never"), Just("last"), Just("months"), Just("years")}

\* 2012-03-31 10:00:00 and 2016-02-29 22:59:59
MCNows == {1333188000, 1456786799}
=============================================================================
