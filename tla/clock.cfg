SPECIFICATION ClockSpec
CONSTANTS
    StartTimes <- MCStartTimes
    StartDates <- MCStartDates
    GivenTimes <- MCGivenTimes
    GivenDates <- MCGivenDates
    MaxTicks = 3
INVARIANTS
    ClockTypeOK
    NeverEarly
    DueIsSeen
    SetNeverBehind
    DateNeverBehind
    FalseDateIsReported
CHECK_DEADLOCK FALSE
