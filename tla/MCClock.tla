------------------------------ MODULE MCClock --------------------------------
(***************************************************************************)
(* Clock for TLC: times and dates next to a carry, and arguments on either *)
(* side of the ranges.                                                     *)
(***************************************************************************)
EXTENDS Clock

T(h, m, s) == [hour |-> h, minute |-> m, second |-> s]
D(d, m, y) == [day |-> d, month |-> m, year |-> y]

MCStartTimes == {T(9, 58, 58), T(9, 59, 58), T(23, 59, 58), T(10, 0, 0)}
MCStartDates == {D(28, 2, 3), D(28, 2, 4), D(30, 4, 5), D(31, 12, 99)}
MCGivenTimes == {T(9, 59, 0), T(9, 59, 59), T(10, 0, 0), T(9, 58, 59), T(23, 59, 59), T(24, 0, 0),
                 T(25, 0, 0), T(9, 60, 0)}
MCGivenDates == {D(29, 2, 3), D(29, 2, 4), D(31, 4, 5), D(31, 12, 99), D(0, 1, 1),
                 D(30, 13, 1), D(1, 0, 1), D(1, 1, 160), D(30, 9, 9)}
=============================================================================
