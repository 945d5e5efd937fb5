----------------------------- MODULE ClockProofs -----------------------------
(***************************************************************************)
(* Theorems about Clock: the order in which the registers are read and     *)
(* written is safe at any moment of any day, however often the clock ticks *)
(* between two accesses.                                                   *)
(***************************************************************************)
EXTENDS Clock, TLAPS

\* The conversions of time.c invert each other on two decimal digits.
LEMMA Bcd ==
    ASSUME NEW n \in 0 .. 99
    PROVE  hexToDec(decToHex(n)) = n
BY SMT DEF hexToDec, decToHex

\* Their ranges.
LEMMA Bytes ==
    /\ \A n \in Nat : decToHex(n) \in Byte
    /\ \A b \in Byte : hexToDec(b) \in 0 .. 165
BY SMT DEF hexToDec, decToHex, Byte

\* What the clock shows.
Hour   == hexToDec(clock["hour"])
Minute == hexToDec(clock["minute"])
Second == hexToDec(clock["second"])

\* A time in seconds.
InSeconds(h, m, s) == 3600 * h + 60 * m + s

Now == InSeconds(Hour, Minute, Second)

\* The time now is t or later, but by less than an hour and k seconds.
AheadBy(now, t, k) == t <= now /\ now < t + 3600 + k

\* The registers of the time are in range, but for an hour 24.
Shows ==
    /\ Hour \in 0 .. 24 /\ Minute \in 0 .. 59 /\ Second \in 0 .. 59

\* The time in the registers is Now.
LEMMA NowIsShown == Seconds(Values(TimeRegs)) = Now
BY DEF Seconds, InSeconds, Values, TimeRegs, Now, Hour, Minute, Second

-----------------------------------------------------------------------------
(***************************************************************************)
(* Type correctness.                                                       *)
(***************************************************************************)

\* The initial state is of its types.
LEMMA TypeInit == ASSUME ClockInit PROVE ClockTypeOK
<1>1. PICK t \in StartTimes, d \in StartDates :
        clock = [r \in Registers |-> decToHex(IF r \in TimeRegs THEN t[r] ELSE d[r])]
  BY DEF ClockInit
<1>2. ASSUME NEW r \in Registers
      PROVE  (IF r \in TimeRegs THEN t[r] ELSE d[r]) \in Nat
  BY ClockAssumption, <1>2 DEF Registers, TimeRegs, DateRegs
<1>3. clock \in [Registers -> Byte]
  BY <1>1, <1>2, Bytes
<1>4. Zero \in [Registers -> 0 .. 165] /\ Zero \in [Registers -> Byte]
  BY DEF Zero, Byte
<1>5. place \in 1 .. 4 /\ ticks \in 0 .. MaxTicks BY ClockAssumption DEF ClockInit
<1>6. reported \in BOOLEAN /\ midnight \in BOOLEAN /\ yearend \in BOOLEAN BY DEF ClockInit
<1>7. op = "none" /\ order = TimeOrder /\ kept = Zero /\ given = Zero /\ began = Zero
  BY DEF ClockInit
<1> QED BY <1>3, <1>4, <1>5, <1>6, <1>7 DEF ClockTypeOK

\* The clock ticks over from byte to byte.
LEMMA TypeTick == ASSUME ClockTypeOK, tick PROVE ClockTypeOK'
<1>1. ASSUME NEW r \in Registers PROVE hexToDec(clock[r]) \in 0 .. 165
  BY <1>1, Bytes DEF ClockTypeOK
<1>2. clock' \in [Registers -> Byte]
  BY <1>1, Bytes DEF tick, Values
<1>3. midnight' \in BOOLEAN /\ yearend' \in BOOLEAN
  BY DEF tick, ClockTypeOK
<1>4. ticks' \in 0 .. MaxTicks
  BY ClockAssumption DEF tick, ClockTypeOK
<1> QED BY <1>2, <1>3, <1>4 DEF tick, ClockTypeOK

\* The register that is accessed next.
LEMMA NextRegister ==
    ASSUME ClockTypeOK, place <= 3
    PROVE  /\ order[place] \in Registers
           /\ order = TimeOrder => order[place] \in TimeRegs
           /\ order = DateOrder => order[place] \in DateRegs
<1>1. place \in {1, 2, 3} BY DEF ClockTypeOK
<1> QED BY <1>1 DEF ClockTypeOK, TimeOrder, DateOrder, Registers, TimeRegs, DateRegs

\* Every step keeps the types.
LEMMA TypeStep == ASSUME ClockTypeOK, [ClockNext]_cvars PROVE ClockTypeOK'
<1>1. ASSUME NEW what \in {"get", "check", "set"}, NEW regs \in {TimeOrder, DateOrder},
             NEW arg \in [Registers -> Byte], Begin(what, regs, arg), reported' \in BOOLEAN
      PROVE  ClockTypeOK'
  <2>1. Zero \in [Registers -> 0 .. 165] BY DEF Zero
  <2>2. Values(Registers) \in [Registers -> 0 .. 165] BY Bytes DEF Values, ClockTypeOK
  <2>3. place' \in 1 .. 4 /\ ticks' \in 0 .. MaxTicks BY <1>1 DEF Begin, ClockTypeOK
  <2>4. midnight' \in BOOLEAN /\ yearend' \in BOOLEAN BY <1>1 DEF Begin
  <2>5. op' = what /\ order' = regs /\ kept' = Zero /\ given' = arg
        /\ began' = Values(Registers) /\ clock' = clock
    BY <1>1 DEF Begin
  <2> QED BY <1>1, <2>1, <2>2, <2>3, <2>4, <2>5 DEF ClockTypeOK
<1>2. Zero \in [Registers -> Byte] /\ Zero \in [Registers -> 0 .. 165] BY DEF Zero, Byte
<1>3. ASSUME NEW t \in GivenTimes PROVE TimeArg(t) \in [Registers -> Byte]
  BY <1>3, ClockAssumption DEF TimeArg, Registers, TimeRegs, Byte
<1>4. ASSUME NEW d \in GivenDates PROVE DateArg(d) \in [Registers -> Byte]
  BY <1>4, ClockAssumption DEF DateArg, Registers, DateRegs, Byte
<1>5. CASE get_time \/ get_date BY <1>1, <1>2, <1>5 DEF get_time, get_date
<1>6. CASE \E t \in GivenTimes : check_time(t) \/ set_time(t)
  BY <1>1, <1>3, <1>6 DEF check_time, set_time
<1>7. CASE \E d \in GivenDates : set_date(d)
  <2>1. PICK d \in GivenDates : set_date(d) BY <1>7
  <2>2. OutOfRange(d) \in BOOLEAN BY DEF OutOfRange
  <2> QED BY <1>1, <1>4, <2>1, <2>2 DEF set_date
<1>8. CASE read
  <2>1. order[place] \in Registers BY <1>8, NextRegister DEF read
  <2>2. hexToDec(clock[order[place]]) \in 0 .. 165 BY <2>1, Bytes DEF ClockTypeOK
  <2>3. kept' \in [Registers -> 0 .. 165] BY <1>8, <2>1, <2>2 DEF read, ClockTypeOK
  <2> QED BY <1>8, <2>3 DEF read, ClockTypeOK
<1>9. CASE write
  <2>1. order[place] \in Registers BY <1>9, NextRegister DEF write
  <2>. DEFINE r == order[place]
  <2>0. given[r] \in Byte BY <2>1 DEF ClockTypeOK
  <2>3. given[r] \in Nat BY <2>0 DEF Byte
  <2>2. decToHex(given[order[place]]) \in Byte BY <2>3, Bytes
  <2>4. clock' \in [Registers -> Byte] BY <1>9, <2>1, <2>2 DEF write, ClockTypeOK
  <2> QED BY <1>9, <2>4 DEF write, ClockTypeOK
<1>10. CASE return BY <1>10, <1>2 DEF return, ClockTypeOK
<1>11. CASE tick BY <1>11, TypeTick
<1>12. CASE UNCHANGED cvars BY <1>12 DEF cvars, ClockTypeOK
<1> QED BY <1>5, <1>6, <1>7, <1>8, <1>9, <1>10, <1>11, <1>12 DEF ClockNext

\* The registers hold bytes and the variables of the functions numbers,
\* whatever is typed.
THEOREM ClockTypeCorrect == ClockSpec => []ClockTypeOK
<1>1. ClockInit => ClockTypeOK BY TypeInit
<1>2. ClockTypeOK /\ [ClockNext]_cvars => ClockTypeOK' BY TypeStep
<1> QED BY <1>1, <1>2, PTL DEF ClockSpec

-----------------------------------------------------------------------------
(***************************************************************************)
(* The clock and the calls in progress.                                    *)
(***************************************************************************)

\* The argument of a check or of set_time has passed isValidTimeFormat.
GivenInRange ==
    /\ op = "check" => order = TimeOrder
    /\ op \in {"check", "set"} /\ order = TimeOrder => isValidTimeFormat(given)

\* What has been read is at most what the clock shows, as far as it goes.
ReadSoFar ==
    op \in {"get", "check"} /\ order = TimeOrder /\ ~midnight =>
        /\ place >= 2 => kept["hour"] <= Hour
        /\ place >= 3 => /\ kept["minute"] \in 0 .. 59
                         /\ kept["hour"] = Hour => kept["minute"] <= Minute
        /\ place = 4 => /\ kept["second"] \in 0 .. 59
                        /\ kept["hour"] = Hour /\ kept["minute"] = Minute =>
                              kept["second"] <= Second

\* What has been set is at most what the clock shows, and not much less.
Ahead(t) == AheadBy(Now, t, ticks)

SetSoFar ==
    op = "set" /\ order = TimeOrder /\ ~midnight =>
        /\ place = 2 => Ahead(InSeconds(given["hour"], 0, 0))
        /\ place = 3 => Ahead(InSeconds(given["hour"], given["minute"], 0))
        /\ place = 4 => Ahead(Seconds(given))

ClockInv == ClockTypeOK /\ Shows /\ GivenInRange /\ ReadSoFar /\ SetSoFar

\* It is a number.
LEMMA InSecondsNat ==
    ASSUME NEW h \in Nat, NEW m \in 0 .. 59, NEW s \in 0 .. 59
    PROVE  InSeconds(h, m, s) \in Nat
BY SMT DEF InSeconds

\* And it is what Seconds says.
LEMMA SecondsOf == ASSUME NEW t PROVE Seconds(t) = InSeconds(t["hour"], t["minute"], t["second"])
BY DEF Seconds, InSeconds

\* Setting the minutes, and the seconds, of a clock that is ahead of t.
LEMMA MinutesSet ==
    ASSUME NEW h \in Nat, NEW m \in 0 .. 59, NEW s \in 0 .. 59,
           NEW gh \in Nat, NEW gm \in 0 .. 59, NEW k \in Nat,
           AheadBy(InSeconds(h, m, s), InSeconds(gh, 0, 0), k)
    PROVE  AheadBy(InSeconds(h, gm, s), InSeconds(gh, gm, 0), k)
BY SMT DEF InSeconds, AheadBy

LEMMA SecondsSet ==
    ASSUME NEW h \in Nat, NEW m \in 0 .. 59, NEW s \in 0 .. 59,
           NEW gh \in Nat, NEW gm \in 0 .. 59, NEW gs \in 0 .. 59, NEW k \in Nat,
           AheadBy(InSeconds(h, m, s), InSeconds(gh, gm, 0), k)
    PROVE  AheadBy(InSeconds(h, m, gs), InSeconds(gh, gm, gs), k)
BY SMT DEF InSeconds, AheadBy

\* The order of hours, minutes and seconds is the order of the seconds.
LEMMA Lexicographic ==
    ASSUME NEW h \in Nat, NEW m \in 0 .. 59, NEW s \in 0 .. 59,
           NEW gh \in Nat, NEW gm \in 0 .. 59, NEW gs \in 0 .. 59,
           \/ gh < h
           \/ gh = h /\ gm < m
           \/ gh = h /\ gm = m /\ gs <= s
    PROVE  InSeconds(gh, gm, gs) <= InSeconds(h, m, s)
BY SMT DEF InSeconds

\* A tick that does not pass midnight advances the time by one second.
Advances ==
    \/ Hour' = Hour /\ Minute' = Minute /\ Second' = Second + 1
    \/ Hour' = Hour /\ Minute' = Minute + 1 /\ Second = 59 /\ Second' = 0
    \/ Hour' = Hour + 1 /\ Minute = 59 /\ Minute' = 0 /\ Second = 59 /\ Second' = 0

LEMMA TickAdvances ==
    ASSUME ClockTypeOK, Shows, tick
    PROVE  Shows' /\ (midnight' \/ (~midnight /\ Advances))
<1>1. /\ Second' = hexToDec(decToHex(IF Second >= 59 THEN 0 ELSE Second + 1))
      /\ Minute' = hexToDec(decToHex(IF Second >= 59 /\ Minute >= 59 THEN 0
                     ELSE IF Second >= 59 THEN Minute + 1 ELSE Minute))
      /\ Hour' = hexToDec(decToHex(IF Second >= 59 /\ Minute >= 59 /\ Hour >= 23 THEN 0
                     ELSE IF Second >= 59 /\ Minute >= 59 THEN Hour + 1 ELSE Hour))
  BY DEF tick, Values, Registers, TimeRegs, DateRegs, Second, Minute, Hour
<1>2. midnight' = (midnight \/ (Second >= 59 /\ Minute >= 59 /\ Hour >= 23))
  BY DEF tick, Values, Registers, TimeRegs, DateRegs, Second, Minute, Hour
<1>3. /\ Second' = IF Second >= 59 THEN 0 ELSE Second + 1
      /\ Minute' = IF Second >= 59 /\ Minute >= 59 THEN 0
                     ELSE IF Second >= 59 THEN Minute + 1 ELSE Minute
      /\ Hour' = IF Second >= 59 /\ Minute >= 59 /\ Hour >= 23 THEN 0
                     ELSE IF Second >= 59 /\ Minute >= 59 THEN Hour + 1 ELSE Hour
  BY <1>1, Bcd DEF Shows
<1>4. Shows' BY <1>3 DEF Shows
<1>5. midnight' \/ ~midnight BY <1>2
<1>6. ASSUME ~midnight' PROVE Advances
  <2>1. ~(Second >= 59 /\ Minute >= 59 /\ Hour >= 23) BY Zenon, <1>2, <1>6
  <2>2. Second = 59 \/ ~(Second >= 59) BY DEF Shows
  <2>3. Minute = 59 \/ ~(Minute >= 59) BY DEF Shows
  <2> QED BY <1>3, <2>1, <2>2, <2>3 DEF Advances
<1> QED BY <1>2, <1>4, <1>5, <1>6

\* The initial state.
LEMMA ClockInvInit == ASSUME ClockInit PROVE ClockInv
<1>1. PICK t \in StartTimes, d \in StartDates :
        clock = [r \in Registers |-> decToHex(IF r \in TimeRegs THEN t[r] ELSE d[r])]
  BY DEF ClockInit
<1>2. /\ Hour = hexToDec(decToHex(t["hour"]))
      /\ Minute = hexToDec(decToHex(t["minute"]))
      /\ Second = hexToDec(decToHex(t["second"]))
  BY <1>1 DEF Hour, Minute, Second, Registers, TimeRegs
<1>3. t["hour"] \in 0 .. 23 /\ t["minute"] \in 0 .. 59 /\ t["second"] \in 0 .. 59
  BY ClockAssumption
<1>4. Shows BY <1>2, <1>3, Bcd DEF Shows
<1>5. op = "none" BY DEF ClockInit
<1> QED BY <1>4, <1>5, TypeInit DEF ClockInv, GivenInRange, ReadSoFar, SetSoFar

-----------------------------------------------------------------------------
(***************************************************************************)
(* Every step keeps the invariant.                                         *)
(***************************************************************************)

\* A command begins: nothing is read or set yet.
LEMMA InvBegin ==
    ASSUME ClockInv, NEW what, NEW regs, NEW arg, Begin(what, regs, arg),
           what = "check" => regs = TimeOrder,
           what \in {"check", "set"} /\ regs = TimeOrder => isValidTimeFormat(arg)
    PROVE  Shows' /\ GivenInRange' /\ ReadSoFar' /\ SetSoFar'
<1>1. place' = 1 /\ op' = what /\ order' = regs /\ given' = arg /\ clock' = clock
  BY DEF Begin
<1>2. Shows' BY <1>1 DEF ClockInv, Shows, Hour, Minute, Second
<1>3. GivenInRange' BY Zenon, <1>1 DEF GivenInRange
<1>4. ReadSoFar' /\ SetSoFar' BY <1>1 DEF ReadSoFar, SetSoFar
<1> QED BY <1>2, <1>3, <1>4

\* One more register has been read.
LEMMA InvRead == ASSUME ClockInv, read PROVE Shows' /\ GivenInRange' /\ ReadSoFar' /\ SetSoFar'
<1>1. Hour' = Hour /\ Minute' = Minute /\ Second' = Second
  BY DEF read, Hour, Minute, Second
<1>2. Shows' BY <1>1 DEF ClockInv, Shows
<1>3. GivenInRange' BY DEF ClockInv, read, GivenInRange
<1>4. SetSoFar' BY DEF read, SetSoFar
<1>5. ReadSoFar'
  <2> SUFFICES ASSUME order = TimeOrder, ~midnight PROVE ReadSoFar'
    BY DEF read, ReadSoFar
  <2>. kept \in [Registers -> 0 .. 165] BY DEF ClockInv, ClockTypeOK
  <2>1. CASE place = 1
    <3>1. kept'["hour"] = Hour /\ place' = 2
      BY <2>1 DEF read, TimeOrder, Hour, Registers, TimeRegs
    <3> QED BY <1>1, <3>1 DEF ReadSoFar, ClockInv, Shows
  <2>2. CASE place = 2
    <3>1. kept'["minute"] = Minute /\ kept'["hour"] = kept["hour"] /\ place' = 3
      BY <2>2 DEF read, TimeOrder, Minute, Registers, TimeRegs
    <3>2. kept["hour"] <= Hour BY <2>2 DEF ClockInv, ReadSoFar, read
    <3> QED BY <1>1, <3>1, <3>2 DEF ReadSoFar, ClockInv, Shows
  <2>3. CASE place = 3
    <3>1. /\ kept'["second"] = Second /\ place' = 4
          /\ kept'["hour"] = kept["hour"] /\ kept'["minute"] = kept["minute"]
      BY <2>3 DEF read, TimeOrder, Second, Registers, TimeRegs
    <3>2. /\ kept["hour"] <= Hour
          /\ kept["minute"] \in 0 .. 59
          /\ kept["hour"] = Hour => kept["minute"] <= Minute
      BY <2>3 DEF ClockInv, ReadSoFar, read
    <3> QED BY <1>1, <3>1, <3>2 DEF ReadSoFar, ClockInv, Shows
  <2> QED BY <2>1, <2>2, <2>3 DEF read, ClockInv, ClockTypeOK
<1> QED BY <1>2, <1>3, <1>4, <1>5

\* One more register has been set.
LEMMA InvWrite == ASSUME ClockInv, write PROVE Shows' /\ GivenInRange' /\ ReadSoFar' /\ SetSoFar'
<1>. clock \in [Registers -> Byte] BY DEF ClockInv, ClockTypeOK
<1>1. GivenInRange' BY DEF ClockInv, write, GivenInRange
<1>2. ReadSoFar' BY DEF write, ReadSoFar
<1>3. CASE order = DateOrder
  <2>1. order[place] \in DateRegs BY <1>3, NextRegister DEF ClockInv, write
  <2>2. Hour' = Hour /\ Minute' = Minute /\ Second' = Second
    BY <2>1 DEF write, Hour, Minute, Second, DateRegs, Registers, TimeRegs
  <2>3. order' # TimeOrder BY <1>3 DEF write, TimeOrder, DateOrder
  <2> QED BY <1>1, <1>2, <2>2, <2>3 DEF ClockInv, Shows, SetSoFar
<1>4. CASE order = TimeOrder
  <2>1. /\ given["hour"] \in 0 .. 24 /\ given["minute"] \in 0 .. 59
        /\ given["second"] \in 0 .. 59
    BY <1>4 DEF ClockInv, GivenInRange, isValidTimeFormat, write
  <2>2. CASE place = 1
    <3>1. Hour' = hexToDec(decToHex(given["hour"])) /\ Minute' = Minute /\ Second' = Second
      BY <1>4, <2>2 DEF write, TimeOrder, Hour, Minute, Second, Registers, TimeRegs
    <3>2. Hour' = given["hour"] BY <2>1, <3>1, Bcd
    <3>3. place' = 2 /\ ticks' = ticks /\ given' = given BY <2>2 DEF write
    <3>4. ticks \in Nat BY ClockAssumption DEF ClockInv, ClockTypeOK
    <3>5. Ahead(InSeconds(given["hour"], 0, 0))'
      BY <2>1, <3>1, <3>2, <3>3, <3>4 DEF Ahead, AheadBy, Now, InSeconds, ClockInv, Shows
    <3> QED BY <1>1, <1>2, <2>1, <3>1, <3>2, <3>3, <3>5 DEF ClockInv, Shows, SetSoFar
  <2>3. CASE place = 2
    <3>1. Minute' = hexToDec(decToHex(given["minute"])) /\ Hour' = Hour /\ Second' = Second
      BY <1>4, <2>3 DEF write, TimeOrder, Hour, Minute, Second, Registers, TimeRegs
    <3>2. Minute' = given["minute"] BY <2>1, <3>1, Bcd
    <3>3. place' = 3 /\ ticks' = ticks /\ given' = given /\ midnight' = midnight
      BY <2>3 DEF write
    <3>4. ticks \in Nat BY ClockAssumption DEF ClockInv, ClockTypeOK
    <3>5. ~midnight => Ahead(InSeconds(given["hour"], 0, 0))
      BY <1>4, <2>3 DEF ClockInv, SetSoFar, write
    <3>6. ~midnight => Ahead(InSeconds(given["hour"], given["minute"], 0))'
      <4> SUFFICES ASSUME ~midnight
                  PROVE Ahead(InSeconds(given["hour"], given["minute"], 0))'
        OBVIOUS
      <4>1. AheadBy(InSeconds(Hour, Minute, Second), InSeconds(given["hour"], 0, 0), ticks)
        BY Zenon, <3>5 DEF Ahead, Now
      <4>2. Hour \in Nat /\ Minute \in 0 .. 59 /\ Second \in 0 .. 59 /\ given["hour"] \in Nat
        BY <2>1 DEF ClockInv, Shows
      <4>3. AheadBy(InSeconds(Hour, given["minute"], Second),
                    InSeconds(given["hour"], given["minute"], 0), ticks)
        BY Zenon, <2>1, <3>4, <4>1, <4>2, MinutesSet
      <4> QED BY Zenon, <3>1, <3>2, <3>3, <4>3 DEF Ahead, Now
    <3> QED BY <1>1, <1>2, <2>1, <3>1, <3>2, <3>3, <3>6 DEF ClockInv, Shows, SetSoFar
  <2>4. CASE place = 3
    <3>1. Second' = hexToDec(decToHex(given["second"])) /\ Hour' = Hour /\ Minute' = Minute
      BY <1>4, <2>4 DEF write, TimeOrder, Hour, Minute, Second, Registers, TimeRegs
    <3>2. Second' = given["second"] BY <2>1, <3>1, Bcd
    <3>3. place' = 4 /\ ticks' = ticks /\ given' = given /\ midnight' = midnight
      BY <2>4 DEF write
    <3>4. ticks \in Nat BY ClockAssumption DEF ClockInv, ClockTypeOK
    <3>5. ~midnight => Ahead(InSeconds(given["hour"], given["minute"], 0))
      BY <1>4, <2>4 DEF ClockInv, SetSoFar, write
    <3>6. ~midnight => Ahead(Seconds(given))'
      <4> SUFFICES ASSUME ~midnight PROVE Ahead(Seconds(given))'
        OBVIOUS
      <4>1. AheadBy(InSeconds(Hour, Minute, Second),
                    InSeconds(given["hour"], given["minute"], 0), ticks)
        BY Zenon, <3>5 DEF Ahead, Now
      <4>2. Hour \in Nat /\ Minute \in 0 .. 59 /\ Second \in 0 .. 59 /\ given["hour"] \in Nat
        BY <2>1 DEF ClockInv, Shows
      <4>3. AheadBy(InSeconds(Hour, Minute, given["second"]),
                    InSeconds(given["hour"], given["minute"], given["second"]), ticks)
        BY Zenon, <2>1, <3>4, <4>1, <4>2, SecondsSet
      <4>4. Ahead(InSeconds(given["hour"], given["minute"], given["second"]))'
        BY Zenon, <3>1, <3>2, <3>3, <4>3 DEF Ahead, Now
      <4> QED BY Zenon, <4>4, SecondsOf
    <3> QED BY <1>1, <1>2, <2>1, <3>1, <3>2, <3>3, <3>6 DEF ClockInv, Shows, SetSoFar
  <2> QED BY <2>2, <2>3, <2>4 DEF write, ClockInv, ClockTypeOK
<1> QED BY <1>3, <1>4 DEF ClockInv, ClockTypeOK

\* The clock has ticked.
LEMMA InvTick == ASSUME ClockInv, tick PROVE Shows' /\ GivenInRange' /\ ReadSoFar' /\ SetSoFar'
<1>1. Shows' /\ (midnight' \/ (~midnight /\ Advances)) BY TickAdvances DEF ClockInv
<1>2. UNCHANGED <<op, order, place, kept, given>> /\ ticks' = ticks + 1 BY DEF tick
<1>3. GivenInRange' BY <1>2 DEF ClockInv, GivenInRange
<1>4. ReadSoFar'
  <2> SUFFICES ASSUME op \in {"get", "check"}, order = TimeOrder, ~midnight' PROVE ReadSoFar'
    BY <1>2 DEF ReadSoFar
  <2>1. ~midnight /\ Advances BY <1>1
  <2>2. kept["hour"] \in 0 .. 165 BY DEF ClockInv, ClockTypeOK, Registers, TimeRegs
  <2>3. /\ place >= 2 => kept["hour"] <= Hour
        /\ place >= 3 => /\ kept["minute"] \in 0 .. 59
                         /\ kept["hour"] = Hour => kept["minute"] <= Minute
        /\ place = 4 => /\ kept["second"] \in 0 .. 59
                        /\ kept["hour"] = Hour /\ kept["minute"] = Minute =>
                              kept["second"] <= Second
    BY <2>1 DEF ClockInv, ReadSoFar
  <2>4. Hour \in 0 .. 24 /\ Minute \in 0 .. 59 /\ Second \in 0 .. 59 /\ place \in 1 .. 4
    BY DEF ClockInv, Shows, ClockTypeOK
  <2>5. CASE Hour' = Hour /\ Minute' = Minute /\ Second' = Second + 1
    BY <1>2, <2>2, <2>3, <2>4, <2>5 DEF ReadSoFar
  <2>6. CASE Hour' = Hour /\ Minute' = Minute + 1 /\ Second = 59 /\ Second' = 0
    BY <1>2, <2>2, <2>3, <2>4, <2>6 DEF ReadSoFar
  <2>7. CASE Hour' = Hour + 1 /\ Minute = 59 /\ Minute' = 0 /\ Second = 59 /\ Second' = 0
    BY <1>2, <2>2, <2>3, <2>4, <2>7 DEF ReadSoFar
  <2> QED BY <2>1, <2>5, <2>6, <2>7 DEF Advances
<1>5. SetSoFar'
  <2> SUFFICES ASSUME op = "set", order = TimeOrder, ~midnight' PROVE SetSoFar'
    BY <1>2 DEF SetSoFar
  <2>1. ~midnight /\ Advances BY <1>1
  <2>2. Now' = Now + 1 BY <2>1 DEF Advances, Now, InSeconds, ClockInv, Shows
  <2>3. Now \in Nat BY DEF Now, InSeconds, ClockInv, Shows
  <2>4. ticks \in Nat BY ClockAssumption DEF ClockInv, ClockTypeOK
  <2>5. ASSUME NEW t \in Nat, Ahead(t) PROVE AheadBy(Now', t, ticks')
    BY <1>2, <2>2, <2>3, <2>4, <2>5 DEF Ahead, AheadBy
  <2>6. /\ given["hour"] \in 0 .. 24 /\ given["minute"] \in 0 .. 59
        /\ given["second"] \in 0 .. 59
    BY DEF ClockInv, GivenInRange, isValidTimeFormat
  <2>7. given["hour"] \in Nat /\ 0 \in 0 .. 59 BY <2>6
  <2>8. /\ InSeconds(given["hour"], 0, 0) \in Nat
        /\ InSeconds(given["hour"], given["minute"], 0) \in Nat
        /\ InSeconds(given["hour"], given["minute"], given["second"]) \in Nat
    BY Zenon, <2>6, <2>7, InSecondsNat
  <2>9. given' = given /\ place' = place BY <1>2
  <2>10. place = 2 => Ahead(InSeconds(given["hour"], 0, 0))'
    <3>1. place = 2 => Ahead(InSeconds(given["hour"], 0, 0)) BY <2>1 DEF ClockInv, SetSoFar
    <3> QED BY Zenon, <3>1, <2>5, <2>8, <2>9 DEF Ahead
  <2>11. place = 3 => Ahead(InSeconds(given["hour"], given["minute"], 0))'
    <3>1. place = 3 => Ahead(InSeconds(given["hour"], given["minute"], 0))
      BY <2>1 DEF ClockInv, SetSoFar
    <3> QED BY Zenon, <3>1, <2>5, <2>8, <2>9 DEF Ahead
  <2>12. place = 4 => Ahead(Seconds(given))'
    <3>1. place = 4 => Ahead(Seconds(given)) BY <2>1 DEF ClockInv, SetSoFar
    <3>2. place = 4 => AheadBy(Now', Seconds(given), ticks')
      BY Zenon, <3>1, <2>5, <2>8, SecondsOf
    <3>3. Seconds(given)' = Seconds(given) BY Zenon, <2>9, SecondsOf
    <3> QED BY Zenon, <3>2, <3>3, <2>9 DEF Ahead
  <2> QED BY <2>9, <2>10, <2>11, <2>12 DEF SetSoFar
<1> QED BY <1>1, <1>3, <1>4, <1>5

\* Every step.
LEMMA InvStep == ASSUME ClockInv, [ClockNext]_cvars PROVE ClockInv'
<1>1. ClockTypeOK' BY TypeStep DEF ClockInv
<1> SUFFICES Shows' /\ GivenInRange' /\ ReadSoFar' /\ SetSoFar' BY <1>1 DEF ClockInv
<1>2. CASE get_time BY <1>2, InvBegin DEF get_time
<1>3. CASE get_date BY <1>3, InvBegin DEF get_date
<1>4. ASSUME NEW t \in GivenTimes, isValidTimeFormat(t) PROVE isValidTimeFormat(TimeArg(t))
  BY <1>4, ClockAssumption DEF isValidTimeFormat, TimeArg, Registers, TimeRegs
<1>5. ASSUME NEW t \in GivenTimes, check_time(t)
      PROVE  Shows' /\ GivenInRange' /\ ReadSoFar' /\ SetSoFar'
  BY <1>4, <1>5, InvBegin DEF check_time
<1>6. ASSUME NEW t \in GivenTimes, set_time(t)
      PROVE  Shows' /\ GivenInRange' /\ ReadSoFar' /\ SetSoFar'
  BY <1>4, <1>6, InvBegin DEF set_time
<1>7. ASSUME NEW d \in GivenDates, set_date(d)
      PROVE  Shows' /\ GivenInRange' /\ ReadSoFar' /\ SetSoFar'
  <2>1. DateOrder # TimeOrder BY DEF DateOrder, TimeOrder
  <2> QED BY <1>7, <2>1, InvBegin DEF set_date
<1>8. CASE read BY <1>8, InvRead
<1>9. CASE write BY <1>9, InvWrite
<1>10. CASE return
  BY <1>10 DEF return, ClockInv, Shows, Hour, Minute, Second, GivenInRange, ReadSoFar, SetSoFar
<1>11. CASE tick BY <1>11, InvTick
<1>12. CASE UNCHANGED cvars
  BY <1>12 DEF cvars, ClockInv, Shows, Hour, Minute, Second, Now, GivenInRange, ReadSoFar,
               SetSoFar, Ahead
<1> QED BY <1>2, <1>3, <1>5, <1>6, <1>7, <1>8, <1>9, <1>10, <1>11, <1>12 DEF ClockNext

\* The invariant holds of every behaviour.
LEMMA ClockInvariant == ClockSpec => []ClockInv
<1>1. ClockInit => ClockInv BY ClockInvInit
<1>2. ClockInv /\ [ClockNext]_cvars => ClockInv' BY InvStep
<1> QED BY <1>1, <1>2, PTL DEF ClockSpec

-----------------------------------------------------------------------------
(***************************************************************************)
(* Theorems                                                                *)
(***************************************************************************)

\* An alarm never goes off before its time, whatever the clock does between
\* the three reads, unless midnight passes.
THEOREM AlarmsAreNeverEarly == ClockSpec => []NeverEarly
<1>1. ClockInv => NeverEarly
  <2> SUFFICES ASSUME ClockInv, Over("check", TimeOrder), ~midnight, IsDue(given, kept)
              PROVE  Seconds(given) <= Now
    BY NowIsShown DEF NeverEarly
  <2>1. /\ given["hour"] \in 0 .. 24 /\ given["minute"] \in 0 .. 59
        /\ given["second"] \in 0 .. 59
    BY DEF ClockInv, GivenInRange, isValidTimeFormat, Over
  <2>2. /\ kept["hour"] <= Hour
        /\ kept["minute"] \in 0 .. 59 /\ kept["second"] \in 0 .. 59
        /\ kept["hour"] = Hour => kept["minute"] <= Minute
        /\ kept["hour"] = Hour /\ kept["minute"] = Minute => kept["second"] <= Second
    BY DEF ClockInv, ReadSoFar, Over
  <2>3. kept["hour"] \in 0 .. 165 BY DEF ClockInv, ClockTypeOK, Registers, TimeRegs
  <2>4. Hour \in Nat /\ Minute \in 0 .. 59 /\ Second \in 0 .. 59
        /\ given["hour"] \in Nat /\ kept["hour"] \in Nat
    BY <2>1, <2>3 DEF ClockInv, Shows
  <2>5. \/ given["hour"] < kept["hour"]
        \/ given["hour"] = kept["hour"] /\ given["minute"] < kept["minute"]
        \/ /\ given["hour"] = kept["hour"] /\ given["minute"] = kept["minute"]
           /\ given["second"] <= kept["second"]
    BY DEF IsDue
  <2>6. Seconds(given) <= Seconds(kept) BY Zenon, <2>1, <2>2, <2>4, <2>5, Lexicographic, SecondsOf
  <2>7. \/ kept["hour"] < Hour
        \/ kept["hour"] = Hour /\ kept["minute"] < Minute
        \/ kept["hour"] = Hour /\ kept["minute"] = Minute /\ kept["second"] <= Second
    BY <2>2, <2>4
  <2>8. Seconds(kept) <= Now BY Zenon, <2>2, <2>4, <2>7, Lexicographic, SecondsOf DEF Now
  <2>11. /\ InSeconds(given["hour"], given["minute"], given["second"]) \in Nat
         /\ InSeconds(kept["hour"], kept["minute"], kept["second"]) \in Nat
    BY Zenon, <2>1, <2>2, <2>4, InSecondsNat
  <2>9. Seconds(given) \in Nat /\ Seconds(kept) \in Nat BY Zenon, <2>11, SecondsOf
  <2>10. Now \in Nat BY <2>4 DEF Now, InSeconds
  <2> QED BY <2>6, <2>8, <2>9, <2>10
<1> QED BY <1>1, ClockInvariant, PTL

\* set_time leaves the clock at the time given or less than an hour, and the
\* ticks meanwhile, ahead of it, unless midnight passes.
THEOREM TheClockIsNeverSetBack == ClockSpec => []SetNeverBehind
<1>1. ClockInv => SetNeverBehind
  <2> SUFFICES ASSUME ClockInv, Over("set", TimeOrder), ~midnight
              PROVE  0 <= Now - Seconds(given) /\ Now - Seconds(given) < 3600 + ticks
    BY NowIsShown DEF SetNeverBehind
  <2>1. Ahead(Seconds(given)) BY DEF ClockInv, SetSoFar, Over
  <2>2. isValidTimeFormat(given) BY DEF ClockInv, GivenInRange, Over
  <2>6. /\ given["hour"] \in Nat /\ given["minute"] \in 0 .. 59 /\ given["second"] \in 0 .. 59
    BY <2>2 DEF isValidTimeFormat
  <2>5. InSeconds(given["hour"], given["minute"], given["second"]) \in Nat
    BY Zenon, <2>6, InSecondsNat
  <2>4. Seconds(given) \in Nat BY Zenon, <2>5, SecondsOf
  <2>3. ticks \in Nat /\ Now \in Nat BY ClockAssumption DEF ClockInv, ClockTypeOK, Now, InSeconds, Shows
  <2> QED BY <2>1, <2>3, <2>4 DEF Ahead, AheadBy
<1> QED BY <1>1, ClockInvariant, PTL

\* The checks of set_date are those of the calendar.
LEMMA Calendar ==
    ASSUME NEW d, d.day \in Byte, d.month \in Byte, d.year \in Byte
    PROVE  OutOfRange(d) <=> ~RealDate(d)
BY SMT DEF OutOfRange, RealDate, MonthLength, LongMonths, ShortMonths, Byte

\* While a date is set, reported is the outcome of the checks.
ReportMade == op = "set" /\ order = DateOrder => (reported <=> OutOfRange(given))

\* Every step keeps it.
LEMMA ReportStep == ASSUME ReportMade, [ClockNext]_cvars PROVE ReportMade'
<1>1. TimeOrder # DateOrder BY DEF TimeOrder, DateOrder
<1>2. CASE get_time \/ get_date BY <1>2 DEF get_time, get_date, Begin, ReportMade
<1>3. CASE \E t \in GivenTimes : check_time(t) \/ set_time(t)
  BY <1>1, <1>3 DEF check_time, set_time, Begin, ReportMade
<1>4. ASSUME NEW d \in GivenDates, set_date(d) PROVE ReportMade'
  <2>1. given' = DateArg(d) /\ reported' = OutOfRange(d) BY <1>4 DEF set_date, Begin
  <2>2. /\ DateArg(d).day = d.day /\ DateArg(d).month = d.month /\ DateArg(d).year = d.year
    BY <1>4, ClockAssumption DEF DateArg, DateRegs, Registers
  <2>3. OutOfRange(DateArg(d)) <=> OutOfRange(d) BY <2>2 DEF OutOfRange
  <2> QED BY Zenon, <2>1, <2>3 DEF ReportMade, OutOfRange
<1>5. CASE read \/ write \/ tick BY <1>5 DEF read, write, tick, ReportMade, OutOfRange
<1>6. CASE return BY <1>6 DEF return, ReportMade
<1>7. CASE UNCHANGED cvars BY <1>7 DEF cvars, ReportMade, OutOfRange
<1> QED BY <1>2, <1>3, <1>4, <1>5, <1>6, <1>7 DEF ClockNext

\* set_date complains exactly about the dates that do not exist, whatever day,
\* month and year are given as bytes.
THEOREM FalseDatesAreReported == ClockSpec => []FalseDateIsReported
<1>1. ClockInit => ReportMade BY DEF ClockInit, ReportMade
<1>2. ReportMade /\ [ClockNext]_cvars => ReportMade' BY ReportStep
<1>3. ClockTypeOK /\ ReportMade => FalseDateIsReported
  <2> SUFFICES ASSUME ClockTypeOK, ReportMade, Over("set", DateOrder)
              PROVE  reported <=> ~RealDate(given)
    BY DEF FalseDateIsReported
  <2>1. given.day \in Byte /\ given.month \in Byte /\ given.year \in Byte
    BY DEF ClockTypeOK, Registers, DateRegs
  <2>2. OutOfRange(given) <=> ~RealDate(given) BY Zenon, <2>1, Calendar
  <2> QED BY Zenon, <2>2 DEF ReportMade, Over
<1> QED BY <1>1, <1>2, <1>3, ClockTypeCorrect, PTL DEF ClockSpec

-----------------------------------------------------------------------------
(***************************************************************************)
(* What is due is seen, and dates are not behind.                          *)
(***************************************************************************)

\* Three numbers, the first the most significant, are no later than three others.
NoLater(a, b, c, x, y, z) ==
    \/ a < x
    \/ a = x /\ b < y
    \/ a = x /\ b = y /\ c <= z

\* If the hour and the minute are still those at which the check began, they
\* are also what has been read.
DueSoFar ==
    op = "check" /\ ~midnight =>
        /\ began["minute"] \in 0 .. 59 /\ began["second"] \in 0 .. 59
        /\ NoLater(began["hour"], began["minute"], began["second"], Hour, Minute, Second)
        /\ Hour = began["hour"] /\ Minute = began["minute"] =>
             /\ place >= 2 => kept["hour"] = Hour
             /\ place >= 3 => kept["minute"] = Minute
             /\ place = 4  => began["second"] <= kept["second"]

LEMMA DueStep == ASSUME ClockInv, DueSoFar, [ClockNext]_cvars PROVE DueSoFar'
<1>1. /\ Hour \in 0 .. 24 /\ Minute \in 0 .. 59 /\ Second \in 0 .. 59
      /\ began["hour"] \in 0 .. 165 /\ began["minute"] \in 0 .. 165 /\ began["second"] \in 0 .. 165
      /\ place \in 1 .. 4 /\ kept \in [Registers -> 0 .. 165]
  BY DEF ClockInv, Shows, ClockTypeOK, Registers, TimeRegs
<1>2. CASE get_time \/ get_date
  BY <1>2 DEF get_time, get_date, Begin, DueSoFar
<1>3. ASSUME NEW t \in GivenTimes, set_time(t) PROVE DueSoFar'
  BY <1>3 DEF set_time, Begin, DueSoFar
<1>4. CASE \E d \in GivenDates : set_date(d)
  BY <1>4 DEF set_date, Begin, DueSoFar
<1>5. ASSUME NEW t \in GivenTimes, check_time(t) PROVE DueSoFar'
  <2>1. place' = 1 /\ clock' = clock /\ began' = Values(Registers)
    BY <1>5 DEF check_time, Begin
  <2>2. began'["hour"] = Hour /\ began'["minute"] = Minute /\ began'["second"] = Second
    BY <2>1 DEF Values, Registers, TimeRegs, Hour, Minute, Second
  <2>3. Hour' = Hour /\ Minute' = Minute /\ Second' = Second
    BY <2>1 DEF Hour, Minute, Second
  <2> QED BY <1>1, <2>1, <2>2, <2>3 DEF DueSoFar, NoLater
<1>6. CASE read
  <2> SUFFICES ASSUME op = "check", ~midnight PROVE DueSoFar'
    BY <1>6 DEF read, DueSoFar
  <2>1. order = TimeOrder BY DEF ClockInv, GivenInRange
  <2>2. /\ place' = place + 1 /\ place <= 3 /\ began' = began
        /\ kept' = [kept EXCEPT ![TimeOrder[place]] = hexToDec(clock[TimeOrder[place]])]
    BY <1>6, <2>1 DEF read
  <2>3. Hour' = Hour /\ Minute' = Minute /\ Second' = Second
    BY <1>6 DEF read, Hour, Minute, Second
  <2>4. /\ began["minute"] \in 0 .. 59 /\ began["second"] \in 0 .. 59
        /\ NoLater(began["hour"], began["minute"], began["second"], Hour, Minute, Second)
        /\ Hour = began["hour"] /\ Minute = began["minute"] =>
             /\ place >= 2 => kept["hour"] = Hour
             /\ place >= 3 => kept["minute"] = Minute
             /\ place = 4  => began["second"] <= kept["second"]
    BY DEF DueSoFar
  <2>5. CASE place = 1
    <3>1. kept'["hour"] = Hour /\ place' = 2
      BY <1>1, <2>2, <2>5 DEF TimeOrder, Hour, Registers, TimeRegs
    <3> QED BY <2>2, <2>3, <2>4, <3>1 DEF DueSoFar
  <2>6. CASE place = 2
    <3>1. kept'["minute"] = Minute /\ kept'["hour"] = kept["hour"] /\ place' = 3
      BY <1>1, <2>2, <2>6 DEF TimeOrder, Minute, Registers, TimeRegs
    <3> QED BY <2>2, <2>3, <2>4, <2>6, <3>1 DEF DueSoFar
  <2>7. CASE place = 3
    <3>1. /\ kept'["second"] = Second /\ place' = 4
          /\ kept'["hour"] = kept["hour"] /\ kept'["minute"] = kept["minute"]
      BY <1>1, <2>2, <2>7 DEF TimeOrder, Second, Registers, TimeRegs
    <3>2. Hour = began["hour"] /\ Minute = began["minute"] => began["second"] <= Second
      BY <1>1, <2>4 DEF NoLater
    <3> QED BY <2>2, <2>3, <2>4, <2>7, <3>1, <3>2 DEF DueSoFar
  <2> QED BY <1>1, <2>2, <2>5, <2>6, <2>7
<1>7. CASE write \/ return BY <1>7 DEF write, return, DueSoFar
<1>8. CASE tick
  <2> SUFFICES ASSUME op = "check", ~midnight' PROVE DueSoFar'
    BY <1>8 DEF tick, DueSoFar
  <2>1. ~midnight /\ Advances BY <1>8, TickAdvances DEF ClockInv
  <2>2. UNCHANGED <<op, order, place, kept, began>> BY <1>8 DEF tick
  <2>3. /\ began["minute"] \in 0 .. 59 /\ began["second"] \in 0 .. 59
        /\ NoLater(began["hour"], began["minute"], began["second"], Hour, Minute, Second)
        /\ Hour = began["hour"] /\ Minute = began["minute"] =>
             /\ place >= 2 => kept["hour"] = Hour
             /\ place >= 3 => kept["minute"] = Minute
             /\ place = 4  => began["second"] <= kept["second"]
    BY <2>1 DEF DueSoFar
  <2>4. /\ NoLater(began["hour"], began["minute"], began["second"], Hour', Minute', Second')
        /\ Hour' = began["hour"] /\ Minute' = began["minute"] => Hour' = Hour /\ Minute' = Minute
    BY <1>1, <2>1, <2>3 DEF Advances, NoLater
  <2> QED BY <2>2, <2>3, <2>4 DEF DueSoFar
<1>9. CASE UNCHANGED cvars
  BY <1>9 DEF cvars, DueSoFar, Hour, Minute, Second
<1> QED BY <1>2, <1>3, <1>4, <1>5, <1>6, <1>7, <1>8, <1>9 DEF ClockNext

\* Times are ordered as their seconds are.
LEMMA Chronological ==
    ASSUME NEW a \in Nat, NEW b \in 0 .. 59, NEW c \in 0 .. 59,
           NEW x \in Nat, NEW y \in 0 .. 59, NEW z \in 0 .. 59,
           InSeconds(a, b, c) <= InSeconds(x, y, z), NEW w \in Nat, z <= w
    PROVE  NoLater(a, b, c, x, y, w)
BY SMT DEF InSeconds, NoLater

\* check_time finds an alarm that was due when it began, provided that no
\* minute ends before it has read the seconds.
THEOREM DueAlarmsAreSeen == ClockSpec => []DueIsSeen
<1>1. ClockInit => DueSoFar BY DEF ClockInit, DueSoFar
<1>2. ClockInv /\ DueSoFar /\ [ClockNext]_cvars => DueSoFar' BY DueStep
<1>3. ClockInv /\ DueSoFar => DueIsSeen
  <2> SUFFICES ASSUME ClockInv, DueSoFar, Over("check", TimeOrder), ~midnight,
                      Seconds(given) <= Seconds(began),
                      \A r \in {"hour", "minute"} : began[r] = Values(TimeRegs)[r]
               PROVE  IsDue(given, kept)
    BY Zenon DEF DueIsSeen
  <2>1. Hour = began["hour"] /\ Minute = began["minute"]
    BY DEF Values, TimeRegs, Hour, Minute
  <2>2. /\ kept["hour"] = began["hour"] /\ kept["minute"] = began["minute"]
        /\ began["second"] <= kept["second"]
        /\ began["minute"] \in 0 .. 59 /\ began["second"] \in 0 .. 59
    BY <2>1 DEF DueSoFar, Over
  <2>3. /\ given["hour"] \in 0 .. 24 /\ given["minute"] \in 0 .. 59
        /\ given["second"] \in 0 .. 59
    BY DEF ClockInv, GivenInRange, isValidTimeFormat, Over
  <2>4. began["hour"] \in 0 .. 165 /\ kept["second"] \in 0 .. 165
    BY DEF ClockInv, ClockTypeOK, Registers, TimeRegs
  <2>5. InSeconds(given["hour"], given["minute"], given["second"])
          <= InSeconds(began["hour"], began["minute"], began["second"])
    BY Zenon, SecondsOf
  <2>6. given["hour"] \in Nat /\ began["hour"] \in Nat /\ kept["second"] \in Nat
    BY <2>3, <2>4
  <2>7. NoLater(given["hour"], given["minute"], given["second"],
                began["hour"], began["minute"], kept["second"])
    BY Zenon, <2>2, <2>3, <2>5, <2>6, Chronological
  <2>8. NoLater(given["hour"], given["minute"], given["second"],
                kept["hour"], kept["minute"], kept["second"])
    BY Zenon, <2>2, <2>7
  <2> QED BY Zenon, <2>8 DEF NoLater, IsDue
<1> QED BY <1>1, <1>2, <1>3, ClockInvariant, PTL DEF ClockSpec

\* The date in the registers, and their values: two hexadecimal digits, of which
\* the second is decimal, are read as a number that is written back alike.
Day   == hexToDec(clock["day"])
Month == hexToDec(clock["month"])
Year  == hexToDec(clock["year"])

TwoDigits == \A r \in Registers : hexToDec(clock[r]) \in 0 .. 159

LEMMA Digits ==
    /\ \A n \in Nat : hexToDec(decToHex(n)) \in 0 .. 159
    /\ \A n \in 0 .. 159 : hexToDec(decToHex(n)) = n
BY SMT DEF hexToDec, decToHex

LEMMA DigitsInit == ASSUME ClockInit PROVE TwoDigits
<1>1. PICK t \in StartTimes, d \in StartDates :
        clock = [r \in Registers |-> decToHex(IF r \in TimeRegs THEN t[r] ELSE d[r])]
  BY DEF ClockInit
<1>2. ASSUME NEW r \in Registers
      PROVE  (IF r \in TimeRegs THEN t[r] ELSE d[r]) \in Nat
  BY ClockAssumption, <1>2 DEF Registers, TimeRegs, DateRegs
<1> QED BY <1>1, <1>2, Digits DEF TwoDigits

LEMMA DigitsStep == ASSUME ClockTypeOK, TwoDigits, [ClockNext]_cvars PROVE TwoDigits'
<1>1. CASE UNCHANGED clock BY <1>1 DEF TwoDigits
<1>2. CASE write
  <2>1. order[place] \in Registers BY <1>2, NextRegister DEF write
  <2>4. given[order[place]] \in Byte BY <2>1 DEF ClockTypeOK
  <2>2. given[order[place]] \in Nat BY <2>4 DEF Byte
  <2>3. hexToDec(decToHex(given[order[place]])) \in 0 .. 159 BY <2>2, Digits
  <2> QED BY <1>2, <2>1, <2>3 DEF write, TwoDigits, ClockTypeOK
<1>3. CASE tick
  <2>1. ASSUME NEW r \in Registers
        PROVE  \E n \in Nat : clock'[r] = decToHex(n)
    <3>1. hexToDec(clock[r]) \in Nat BY DEF TwoDigits
    <3>2. Values(Registers)[r] = hexToDec(clock[r]) BY DEF Values
    <3>3. PICK full, carry, low :
            clock'[r] = decToHex(IF full THEN IF low THEN 1 ELSE 0
                                 ELSE IF carry THEN Values(Registers)[r] + 1
                                 ELSE Values(Registers)[r])
      BY <1>3, Zenon DEF tick
    <3> DEFINE n == IF full THEN IF low THEN 1 ELSE 0
                    ELSE IF carry THEN Values(Registers)[r] + 1 ELSE Values(Registers)[r]
    <3>4. n \in Nat BY <3>1, <3>2
    <3> QED BY <3>3, <3>4
  <2> QED BY <2>1, Digits DEF TwoDigits
<1> QED BY <1>1, <1>2, <1>3 DEF ClockNext, get_time, get_date, check_time, set_time, set_date,
                                Begin, read, return, cvars

\* A tick that does not pass the end of year 99 takes no date back, even one
\* that does not exist.
DateAdvances ==
    \/ Year' = Year /\ Month' = Month /\ Day' = Day
    \/ Year' = Year /\ Month' = Month /\ Day' = Day + 1
    \/ Year' = Year /\ Month' = Month + 1
    \/ Year' = Year + 1

LEMMA TickAdvancesDate ==
    ASSUME TwoDigits, tick
    PROVE  yearend' \/ (~yearend /\ DateAdvances)
<1>1. PICK h \in BOOLEAN, d \in BOOLEAN, y \in BOOLEAN, c \in BOOLEAN :
         /\ d <=> h /\ Day >= MonthLength(Month, Year)
         /\ y <=> d /\ Month >= 12
         /\ c <=> y /\ Year >= 99
         /\ Day' = hexToDec(decToHex(IF d THEN 1 ELSE IF h THEN Day + 1 ELSE Day))
         /\ Month' = hexToDec(decToHex(IF y THEN 1 ELSE IF d THEN Month + 1 ELSE Month))
         /\ Year' = hexToDec(decToHex(IF c THEN 0 ELSE IF y THEN Year + 1 ELSE Year))
         /\ yearend' = (yearend \/ c)
  <2> DEFINE now == Values(Registers)
             h == now["second"] >= 59 /\ now["minute"] >= 59 /\ now["hour"] >= 23
             d == h /\ Day >= MonthLength(Month, Year)
             y == d /\ Month >= 12
             c == y /\ Year >= 99
  <2>1. now["day"] = Day /\ now["month"] = Month /\ now["year"] = Year
    BY DEF Values, Registers, DateRegs, Day, Month, Year
  <2>2. /\ Day' = hexToDec(decToHex(IF d THEN 1 ELSE IF h THEN Day + 1 ELSE Day))
        /\ Month' = hexToDec(decToHex(IF y THEN 1 ELSE IF d THEN Month + 1 ELSE Month))
        /\ Year' = hexToDec(decToHex(IF c THEN 0 ELSE IF y THEN Year + 1 ELSE Year))
        /\ yearend' = (yearend \/ c)
    BY DEF tick, Values, Registers, TimeRegs, DateRegs, Day, Month, Year
  <2> QED BY <2>2
<1>2. Day \in 0 .. 159 /\ Month \in 0 .. 159 /\ Year \in 0 .. 159
  BY DEF TwoDigits, Registers, DateRegs, Day, Month, Year
<1>3. MonthLength(Month, Year) \in 28 .. 31 BY DEF MonthLength
<1>4. yearend' \/ ~yearend BY <1>1
<1>5. ASSUME ~yearend' PROVE DateAdvances
  <2>1. ~c BY <1>1, <1>5
  <2>2. (IF d THEN 1 ELSE IF h THEN Day + 1 ELSE Day) \in 0 .. 159 BY <1>1, <1>2, <1>3
  <2>3. (IF y THEN 1 ELSE IF d THEN Month + 1 ELSE Month) \in 0 .. 159 BY <1>1, <1>2
  <2>4. (IF c THEN 0 ELSE IF y THEN Year + 1 ELSE Year) \in 0 .. 159 BY <1>1, <1>2
  <2>5. /\ Day' = IF d THEN 1 ELSE IF h THEN Day + 1 ELSE Day
        /\ Month' = IF y THEN 1 ELSE IF d THEN Month + 1 ELSE Month
        /\ Year' = IF y THEN Year + 1 ELSE Year
    BY <1>1, <2>1, <2>2, <2>3, <2>4, Digits
  <2> QED BY <1>1, <2>5 DEF DateAdvances
<1> QED BY <1>4, <1>5

\* What get_date has read is not before the date at which it began, as far as
\* the registers still say the same.
DateSoFar ==
    op = "get" /\ order = DateOrder /\ ~yearend =>
        /\ NoLater(began["year"], began["month"], began["day"], Year, Month, Day)
        /\ place >= 2 => (Year = began["year"] /\ Month = began["month"] =>
                              began["day"] <= kept["day"])
        /\ place >= 3 => (Year = began["year"] =>
                              NoLater(0, began["month"], began["day"], 0, kept["month"], kept["day"]))
        /\ place = 4 => NoLater(began["year"], began["month"], began["day"],
                                kept["year"], kept["month"], kept["day"])

LEMMA DateStep ==
    ASSUME ClockTypeOK, TwoDigits, DateSoFar, [ClockNext]_cvars PROVE DateSoFar'
<1>1. /\ Day \in 0 .. 159 /\ Month \in 0 .. 159 /\ Year \in 0 .. 159
      /\ began["year"] \in 0 .. 165 /\ began["month"] \in 0 .. 165 /\ began["day"] \in 0 .. 165
      /\ kept["year"] \in 0 .. 165 /\ kept["month"] \in 0 .. 165 /\ kept["day"] \in 0 .. 165
      /\ place \in 1 .. 4 /\ kept \in [Registers -> 0 .. 165]
  BY DEF TwoDigits, ClockTypeOK, Registers, DateRegs, Day, Month, Year
<1>2. CASE get_time
  <2>1. TimeOrder # DateOrder BY DEF TimeOrder, DateOrder
  <2> QED BY <1>2, <2>1 DEF get_time, Begin, DateSoFar
<1>3. CASE (\E t \in GivenTimes : check_time(t) \/ set_time(t)) \/ (\E d \in GivenDates : set_date(d))
  BY <1>3 DEF check_time, set_time, set_date, Begin, DateSoFar
<1>4. CASE get_date
  <2>1. place' = 1 /\ clock' = clock /\ began' = Values(Registers)
    BY <1>4 DEF get_date, Begin
  <2>2. began'["year"] = Year /\ began'["month"] = Month /\ began'["day"] = Day
    BY <2>1 DEF Values, Registers, DateRegs, Year, Month, Day
  <2>3. Year' = Year /\ Month' = Month /\ Day' = Day
    BY <2>1 DEF Year, Month, Day
  <2> QED BY <1>1, <2>1, <2>2, <2>3 DEF DateSoFar, NoLater
<1>5. CASE read
  <2> SUFFICES ASSUME op = "get", order = DateOrder, ~yearend PROVE DateSoFar'
    BY <1>5 DEF read, DateSoFar
  <2>2. /\ place' = place + 1 /\ place <= 3 /\ began' = began
        /\ kept' = [kept EXCEPT ![DateOrder[place]] = hexToDec(clock[DateOrder[place]])]
    BY <1>5 DEF read
  <2>3. Year' = Year /\ Month' = Month /\ Day' = Day
    BY <1>5 DEF read, Year, Month, Day
  <2>4. /\ NoLater(began["year"], began["month"], began["day"], Year, Month, Day)
        /\ place >= 2 => (Year = began["year"] /\ Month = began["month"] =>
                              began["day"] <= kept["day"])
        /\ place >= 3 => (Year = began["year"] =>
                              NoLater(0, began["month"], began["day"], 0, kept["month"], kept["day"]))
    BY DEF DateSoFar
  <2>5. CASE place = 1
    <3>1. kept'["day"] = Day /\ place' = 2
      BY <1>1, <2>2, <2>5 DEF DateOrder, Day, Registers, DateRegs
    <3>2. Year = began["year"] /\ Month = began["month"] => began["day"] <= Day
      BY <1>1, <2>4 DEF NoLater
    <3> QED BY <2>2, <2>3, <2>4, <3>1, <3>2 DEF DateSoFar
  <2>6. CASE place = 2
    <3>1. kept'["month"] = Month /\ kept'["day"] = kept["day"] /\ place' = 3
      BY <1>1, <2>2, <2>6 DEF DateOrder, Month, Registers, DateRegs
    <3>2. Year = began["year"] =>
             NoLater(0, began["month"], began["day"], 0, Month, kept["day"])
      BY <1>1, <2>4, <2>6 DEF NoLater
    <3> QED BY <2>2, <2>3, <2>4, <2>6, <3>1, <3>2 DEF DateSoFar
  <2>7. CASE place = 3
    <3>1. /\ kept'["year"] = Year /\ place' = 4
          /\ kept'["month"] = kept["month"] /\ kept'["day"] = kept["day"]
      BY <1>1, <2>2, <2>7 DEF DateOrder, Year, Registers, DateRegs
    <3>2. NoLater(began["year"], began["month"], began["day"], Year, kept["month"], kept["day"])
      BY <1>1, <2>4, <2>7 DEF NoLater
    <3> QED BY <2>2, <2>3, <2>4, <2>7, <3>1, <3>2 DEF DateSoFar
  <2> QED BY <1>1, <2>2, <2>5, <2>6, <2>7
<1>6. CASE write \/ return BY <1>6 DEF write, return, DateSoFar
<1>7. CASE tick
  <2> SUFFICES ASSUME op = "get", order = DateOrder, ~yearend' PROVE DateSoFar'
    BY <1>7 DEF tick, DateSoFar
  <2>1. ~yearend /\ DateAdvances BY <1>7, TickAdvancesDate
  <2>2. UNCHANGED <<op, order, place, kept, began>> BY <1>7 DEF tick
  <2>3. /\ NoLater(began["year"], began["month"], began["day"], Year, Month, Day)
        /\ place >= 2 => (Year = began["year"] /\ Month = began["month"] =>
                              began["day"] <= kept["day"])
        /\ place >= 3 => (Year = began["year"] =>
                              NoLater(0, began["month"], began["day"], 0, kept["month"], kept["day"]))
        /\ place = 4 => NoLater(began["year"], began["month"], began["day"],
                                kept["year"], kept["month"], kept["day"])
    BY <2>1 DEF DateSoFar
  <2>4. /\ NoLater(began["year"], began["month"], began["day"], Year', Month', Day')
        /\ Year' = began["year"] => Year' = Year
        /\ Year' = began["year"] /\ Month' = began["month"] => Month' = Month
    BY <1>1, <2>1, <2>3 DEF DateAdvances, NoLater
  <2> QED BY <2>2, <2>3, <2>4 DEF DateSoFar
<1>8. CASE UNCHANGED cvars
  BY <1>8 DEF cvars, DateSoFar, Day, Month, Year
<1> QED BY <1>2, <1>3, <1>4, <1>5, <1>6, <1>7, <1>8 DEF ClockNext

\* The order of the dates is that of their numbers.
InDays(y, m, d) == 40000 * y + 200 * m + d

LEMMA DaysInOrder ==
    ASSUME NEW a \in 0 .. 165, NEW b \in 0 .. 165, NEW c \in 0 .. 165,
           NEW x \in 0 .. 165, NEW y \in 0 .. 165, NEW z \in 0 .. 165,
           NoLater(a, b, c, x, y, z)
    PROVE  InDays(x, y, z) >= InDays(a, b, c)
BY SMT DEF InDays, NoLater

\* The date that get_date shows is never before the one at which it began,
\* whatever the registers held, unless year 99 ends meanwhile.
THEOREM DatesAreNeverBehind == ClockSpec => []DateNeverBehind
<1>1. ClockInit => TwoDigits /\ DateSoFar BY DigitsInit DEF ClockInit, DateSoFar
<1>2. ClockTypeOK /\ TwoDigits /\ DateSoFar /\ [ClockNext]_cvars => TwoDigits' /\ DateSoFar'
  BY DigitsStep, DateStep
<1>3. ClockTypeOK /\ DateSoFar => DateNeverBehind
  <2> SUFFICES ASSUME ClockTypeOK, DateSoFar, Over("get", DateOrder), ~yearend
               PROVE  Days(kept) >= Days(began)
    BY DEF DateNeverBehind
  <2>1. NoLater(began["year"], began["month"], began["day"],
                kept["year"], kept["month"], kept["day"])
    BY DEF DateSoFar, Over
  <2>2. /\ began["year"] \in 0 .. 165 /\ began["month"] \in 0 .. 165 /\ began["day"] \in 0 .. 165
        /\ kept["year"] \in 0 .. 165 /\ kept["month"] \in 0 .. 165 /\ kept["day"] \in 0 .. 165
    BY DEF ClockTypeOK, Registers, DateRegs
  <2>3. /\ Days(began) = InDays(began["year"], began["month"], began["day"])
        /\ Days(kept) = InDays(kept["year"], kept["month"], kept["day"])
    BY DEF Days, InDays
  <2>4. InDays(kept["year"], kept["month"], kept["day"])
          >= InDays(began["year"], began["month"], began["day"])
    BY Zenon, <2>1, <2>2, DaysInOrder
  <2> QED BY <2>3, <2>4
<1> QED BY <1>1, <1>2, <1>3, ClockTypeCorrect, PTL DEF ClockSpec

=============================================================================
