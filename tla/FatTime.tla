------------------------------ MODULE FatTime -------------------------------
(***************************************************************************)
(* The time stamps of fat32 (fs/fat32.c): unix seconds to the FAT date and *)
(* time words and back.  A time is a day number and a second of that day.  *)
(***************************************************************************)
EXTENDS Integers

CONSTANTS ClockDays,    \* days at which a file may be stamped
          ClockSecs     \* seconds of the day at which it may be

LastDay == 49710        \* the last day of a time of 32 bits
LastSec == 86399

ASSUME FatTimeAssumption == ClockDays \subseteq 0..LastDay /\ ClockSecs \subseteq 0..LastSec

VARIABLES clock,        \* day and second
          stamp         \* the words stored with the last stamp

clockVars == <<clock, stamp>>

-----------------------------------------------------------------------------
LeapSimple(y) == y % 4 = 0
Leap(y) == (y % 4 = 0 /\ y % 100 # 0) \/ y % 400 = 0
YearDays(y) == IF Leap(y) THEN 366 ELSE 365
MonthDays(y, m) == IF m = 2 THEN (IF Leap(y) THEN 29 ELSE 28) ELSE IF m \in {4, 6, 9, 11} THEN 30 ELSE 31

\* the two loops: whole years, then whole months, are taken off the days; a time of 32 bits ends before 2107
YearLoop[s \in (1970..2107) \X (0..LastDay)] ==
  IF s[1] < 2107 /\ s[2] >= YearDays(s[1]) THEN YearLoop[<<s[1] + 1, s[2] - YearDays(s[1])>>] ELSE s

MonthRound(y, s) == IF s[2] >= MonthDays(y, s[1]) THEN <<s[1] + 1, s[2] - MonthDays(y, s[1])>> ELSE s
MonthLoop(y, days) ==
  LET at[i \in 0..12] == IF i = 0 THEN <<1, days>> ELSE MonthRound(y, at[i - 1]) IN at[12]

\* date: year - 1980 in 7 bits, month in 4, day in 5; time: hour in 5, minute in 6, second / 2 in 5
fat32_unix_to_fat(day, sec) ==
  LET y == YearLoop[<<1970, day>>]
      m == MonthLoop(y[1], y[2])
      d == IF y[1] < 1980 THEN <<1980, 1, 0>> ELSE <<y[1], m[1], m[2]>>
  IN [date |-> (d[1] - 1980) * 512 + d[2] * 32 + d[3] + 1,
      time |-> (sec \div 3600) * 2048 + ((sec \div 60) % 60) * 32 + ((sec % 60) \div 2)]

Clamp(n, hi) == IF n < 1 THEN 1 ELSE IF n > hi THEN hi ELSE n

DaysFromWords(t) ==
  LET month == Clamp((t.date \div 32) % 16, 12)
      mday == Clamp(t.date % 32, 31)
      y == 1980 + ((t.date \div 512) % 128) - (IF month <= 2 THEN 1 ELSE 0)
      yoe == y % 400
      doy == ((153 * (IF month > 2 THEN month - 3 ELSE month + 9) + 2) \div 5) + mday - 1
  IN (y \div 400) * 146097 + yoe * 365 + (yoe \div 4) - (yoe \div 100) + doy - 719468

fat32_fat_to_unix(t) ==
  [day |-> DaysFromWords(t),
   sec |-> ((t.time \div 2048) % 32) * 3600 + ((t.time \div 32) % 64) * 60 + (t.time % 32) * 2]

-----------------------------------------------------------------------------
FTInit == /\ clock \in [day : ClockDays, sec : ClockSecs]
          /\ stamp = fat32_unix_to_fat(clock.day, clock.sec)

\* time passes and a file is stamped (fat32_now)
fat32_now ==
  /\ \E n \in {0, 1} : clock' \in [day : {clock.day + n} \cap ClockDays, sec : ClockSecs]
  /\ clock'.day > clock.day \/ clock'.sec >= clock.sec
  /\ stamp' = fat32_unix_to_fat(clock'.day, clock'.sec)

FTSpec == FTInit /\ [][fat32_now]_clockVars

-----------------------------------------------------------------------------
(* A stamp read back is the time it was made, to the two seconds of the     *)
(* format: leap years, the end of February and 2100 included.  Times before *)
(* 1980 become the first day the format has.                                *)
StampRoundTrip ==
  /\ clock.day >= 3652 => fat32_fat_to_unix(stamp) = [day |-> clock.day, sec |-> clock.sec - (clock.sec % 2)]
  /\ clock.day < 3652 => fat32_fat_to_unix(stamp).day = 3652
=============================================================================
