-------------------------------- MODULE Clock --------------------------------
(***************************************************************************)
(* The real-time clock and the code that reads and sets it: user/time.c,   *)
(* and check_time of user/alarms.c.                                        *)
(*                                                                         *)
(* Each register is read or written by port accesses of its own, while the *)
(* clock goes on counting: it may tick between any two of them.            *)
(***************************************************************************)
EXTENDS Integers

CONSTANTS
    StartTimes,     \* the times and the dates the clock may show at first
    StartDates,
    GivenTimes,     \* those typed as arguments, out of range or not
    GivenDates,
    MaxTicks        \* bound: ticks in all

VARIABLES
    clock,      \* the registers, in BCD
    op,         \* "get", "check", "set", or "none"
    order,      \* the registers it goes through
    place,      \* how far it is
    kept,       \* the values it has read
    given,      \* the argument of "check" and "set"
    reported,   \* set_date has printed an error
    ticks,      \* history: ticks so far,
    midnight,   \* whether midnight has passed since the command began,
    yearend,    \* and the last day of year 99,
    began       \* and what the registers said then

cvars == <<clock, op, order, place, kept, given, reported, ticks, midnight, yearend, began>>

Byte      == 0 .. 255

\* Faulty variants: the seconds, or the year, come first.
SecondsFirst == <<"second", "minute", "hour">>
YearFirst    == <<"year", "month", "day">>

TimeOrder == <<"hour", "minute", "second">>
DateOrder == <<"day", "month", "year">>

TimeRegs  == {"hour", "minute", "second"}
DateRegs  == {"day", "month", "year"}
Registers == TimeRegs \cup DateRegs

ASSUME ClockAssumption ==
    /\ StartTimes \subseteq [hour : 0 .. 23, minute : 0 .. 59, second : 0 .. 59]
    /\ StartDates \subseteq [day : 1 .. 31, month : 1 .. 12, year : 0 .. 99]
    /\ GivenTimes \subseteq [hour : 0 .. 99, minute : 0 .. 99, second : 0 .. 99]
    /\ GivenDates \subseteq [day : Byte, month : Byte, year : Byte]
    /\ MaxTicks \in Nat

-----------------------------------------------------------------------------
hexToDec(hex) == (hex % 16) + ((hex \div 16) * 10)

\* Faulty variant: an int is returned, not a byte.
DecToHexWide(decimal) == (decimal \div 10) * 16 + (decimal % 10)

\* A byte: from 160 on the tens are too many for it.
decToHex(decimal) == ((decimal \div 10) * 16 + (decimal % 10)) % 256

\* The values of the registers in R.
Values(R) == [r \in R |-> hexToDec(clock[r])]

Seconds(t) == 3600 * t.hour + 60 * t.minute + t.second

\* Dates in their order, impossible ones included.
Days(d) == 40000 * d.year + 200 * d.month + d.day

\* The time typed is in range, or nearly so.
isValidTimeFormat(t) ==
    t.hour \in 0 .. 24 /\ t.minute \in 0 .. 59 /\ t.second \in 0 .. 59

LongMonths  == {1, 3, 5, 7, 8, 10, 12}
ShortMonths == {4, 6, 9, 11}

\* Faulty variant: February always has 28 days.
OutOfRangeNoLeap(d) ==
    \/ d.month \in LongMonths /\ d.day \notin 1 .. 31
    \/ d.month \in ShortMonths /\ d.day \notin 1 .. 30
    \/ d.month = 2 /\ d.day \notin 1 .. 28
    \/ d.month \notin 1 .. 12
    \/ d.year \notin 0 .. 99

\* The checks with which set_date begins.
OutOfRange(d) ==
    \/ d.month \in LongMonths /\ d.day \notin 1 .. 31
    \/ d.month \in ShortMonths /\ d.day \notin 1 .. 30
    \/ d.month = 2 /\ d.year % 4 = 0 /\ d.day \notin 1 .. 29
    \/ d.month = 2 /\ d.year % 4 # 0 /\ d.day \notin 1 .. 28
    \/ d.month \notin 1 .. 12
    \/ d.year \notin 0 .. 99

\* Faulty variant: the seconds are compared whatever the minutes are.
DueBySeconds(t, now) ==
    \/ t.hour < now.hour
    \/ t.hour = now.hour /\ t.minute <= now.minute /\ t.second <= now.second

\* The comparisons of check_time.
IsDue(t, now) ==
    \/ t.hour < now.hour
    \/ t.hour = now.hour /\ t.minute < now.minute
    \/ t.hour = now.hour /\ t.minute = now.minute /\ t.second <= now.second

-----------------------------------------------------------------------------
Zero == [r \in Registers |-> 0]

ClockInit ==
    /\ \E t \in StartTimes, d \in StartDates :
         clock = [r \in Registers |-> decToHex(IF r \in TimeRegs THEN t[r] ELSE d[r])]
    /\ op = "none" /\ order = TimeOrder /\ place = 4
    /\ kept = Zero /\ given = Zero
    /\ reported = FALSE
    /\ ticks = 0 /\ midnight = FALSE /\ yearend = FALSE
    /\ began = Zero

Begin(what, regs, arg) ==
    /\ op = "none"
    /\ op' = what /\ order' = regs /\ place' = 1
    /\ kept' = Zero
    /\ given' = arg
    /\ midnight' = FALSE /\ yearend' = FALSE
    /\ began' = Values(Registers)
    /\ UNCHANGED <<clock, ticks>>

get_time == Begin("get", TimeOrder, Zero) /\ reported' = FALSE
get_date == Begin("get", DateOrder, Zero) /\ reported' = FALSE

\* Arguments fill the registers of their kind.
TimeArg(t) == [r \in Registers |-> IF r \in TimeRegs THEN t[r] ELSE 0]
DateArg(d) == [r \in Registers |-> IF r \in DateRegs THEN d[r] ELSE 0]

\* alarm has checked the format of t.
check_time(t) ==
    /\ isValidTimeFormat(t)
    /\ Begin("check", TimeOrder, TimeArg(t))
    /\ reported' = FALSE

set_time(t) ==
    /\ isValidTimeFormat(t)
    /\ Begin("set", TimeOrder, TimeArg(t))
    /\ reported' = FALSE

\* A date that is out of range is reported, and set.
set_date(d) ==
    /\ Begin("set", DateOrder, DateArg(d))
    /\ reported' = OutOfRange(d)

read ==
    /\ op \in {"get", "check"} /\ place <= 3
    /\ kept' = [kept EXCEPT ![order[place]] = hexToDec(clock[order[place]])]
    /\ place' = place + 1
    /\ UNCHANGED <<clock, op, order, given, reported, ticks, midnight, yearend, began>>

write ==
    /\ op = "set" /\ place <= 3
    /\ clock' = [clock EXCEPT ![order[place]] = decToHex(given[order[place]])]
    /\ place' = place + 1
    /\ UNCHANGED <<op, order, kept, given, reported, ticks, midnight, yearend, began>>

\* The function returns: the value is shown, or compared, or set.
return ==
    /\ op # "none" /\ place = 4
    /\ op' = "none" /\ order' = TimeOrder /\ place' = 4
    /\ kept' = Zero /\ given' = Zero /\ began' = Zero
    /\ reported' = FALSE /\ midnight' = FALSE /\ yearend' = FALSE
    /\ UNCHANGED <<clock, ticks>>

-----------------------------------------------------------------------------
\* The chip counts on, from whatever its registers hold.
MonthLength(m, y) ==
    IF m \in ShortMonths THEN 30
    ELSE IF m # 2 THEN 31 ELSE IF y % 4 = 0 THEN 29 ELSE 28

tick ==
    LET now == Values(Registers)
        s == now["second"] >= 59                \* the minute is full, and so on
        m == s /\ now["minute"] >= 59
        h == m /\ now["hour"] >= 23
        d == h /\ now["day"] >= MonthLength(now["month"], now["year"])
        y == d /\ now["month"] >= 12
        c == y /\ now["year"] >= 99
        full  == [second |-> s, minute |-> m, hour |-> h, day |-> d, month |-> y, year |-> c]
        carry == [second |-> TRUE, minute |-> s, hour |-> m, day |-> h, month |-> d, year |-> y]
        Lowest(r) == IF r \in {"day", "month"} THEN 1 ELSE 0
    IN  /\ ticks < MaxTicks
        /\ ticks' = ticks + 1
        /\ clock' = [r \in Registers |-> decToHex(
                        IF full[r] THEN Lowest(r) ELSE IF carry[r] THEN now[r] + 1 ELSE now[r])]
        /\ midnight' = (midnight \/ h)
        /\ yearend' = (yearend \/ c)
        /\ UNCHANGED <<op, order, place, kept, given, reported, began>>

ClockNext ==
    \/ get_time \/ get_date
    \/ \E t \in GivenTimes : check_time(t) \/ set_time(t)
    \/ \E d \in GivenDates : set_date(d)
    \/ read \/ write \/ return
    \/ tick

ClockSpec == ClockInit /\ [][ClockNext]_cvars

-----------------------------------------------------------------------------
(***************************************************************************)
(* Properties                                                              *)
(***************************************************************************)
ClockTypeOK ==
    /\ clock \in [Registers -> Byte]
    /\ op \in {"none", "get", "check", "set"}
    /\ order \in {TimeOrder, DateOrder}
    /\ place \in 1 .. 4
    /\ kept \in [Registers -> 0 .. 165]
    /\ given \in [Registers -> Byte]
    /\ reported \in BOOLEAN
    /\ ticks \in 0 .. MaxTicks
    /\ midnight \in BOOLEAN
    /\ yearend \in BOOLEAN
    /\ began \in [Registers -> 0 .. 165]

Over(what, regs) == op = what /\ order = regs /\ place = 4

\* The hour is read first, so that a carry can only make the time read too
\* early: an alarm does not go off before its time, unless midnight passes.
NeverEarly ==
    Over("check", TimeOrder) /\ ~midnight /\ IsDue(given, kept) =>
        Seconds(given) <= Seconds(Values(TimeRegs))

\* An alarm that was due when the check began is found, unless the minute has
\* changed meanwhile.
DueIsSeen ==
    /\ Over("check", TimeOrder) /\ ~midnight
    /\ Seconds(given) <= Seconds(began)
    /\ \A r \in {"hour", "minute"} : began[r] = Values(TimeRegs)[r]
    => IsDue(given, kept)

\* set_time writes the hour first, so that a carry between two writes can only
\* put the clock forward, by an hour at most, never back, unless midnight
\* passes.
SetNeverBehind ==
    Over("set", TimeOrder) /\ ~midnight =>
        LET ahead == Seconds(Values(TimeRegs)) - Seconds(given)
        IN  0 <= ahead /\ ahead < 3600 + ticks

\* get_date reads the day first, so that the date it shows may be one that
\* does not exist, but is never before the one at which the command began.
DateNeverBehind ==
    Over("get", DateOrder) /\ ~yearend => Days(kept) >= Days(began)

\* The days of each month in the years 2000 to 2099.
RealDate(d) ==
    /\ d.year \in 0 .. 99
    /\ d.month \in 1 .. 12
    /\ d.day \in 1 .. MonthLength(d.month, d.year)

\* set_date complains about a date exactly if there is no such date.
FalseDateIsReported ==
    Over("set", DateOrder) => (reported <=> ~RealDate(given))
=============================================================================
