----------------------------- MODULE Calendars -----------------------------
(***************************************************************************)
(* vita/js/intl_calendar.js: the fields a day has in each calendar, the length*)
(* of its years, the year of its week, and numbers spelled by rules.  A day*)
(* counts from 1 January 1970.  The moon and the sun are external to what is*)
(* checked: they go round evenly (MoonAt, SunAt, in ten-thousandths of a   *)
(* day), which keeps every decision taken on them.                         *)
(*                                                                         *)
(* vita/js/intl_zone.js: a zone's offset at a moment, from the transitions it*)
(* has a record of and from the rule that goes on after them, and the      *)
(* transitions before and after a moment; custom zones; and how an offset is*)
(* written.  There time is counted in hours.                               *)
(***************************************************************************)
EXTENDS Integers, Sequences, FiniteSetsExt, FiniteSets
LOCAL INSTANCE SequencesExt
LOCAL INSTANCE TLC

Trunc(a, b) == IF a >= 0 THEN a \div b ELSE -((-a) \div b)
Ceil(a, b) == -((-a) \div b)
Rem(a, b) == a - b * Trunc(a, b)

EpochJd == 2440588
Fields(era, year, ext, month, day, doy, related) ==
  [era |-> era, year |-> year, ext |-> ext, month |-> month, leap |-> 0,
   day |-> day, doy |-> doy, related |-> related]

-----------------------------------------------------------------------------
(* The Gregorian calendar, and ICU's with Julian years before 1582.        *)

IsLeap(y) == y % 4 = 0 /\ (y % 100 # 0 \/ y % 400 = 0)

FieldsToDay(y, month, d) ==
  LET m == month + 1
      yy == IF m <= 2 THEN y - 1 ELSE y
      yoe == yy % 400
  IN  (yy \div 400) * 146097 + yoe * 365 + yoe \div 4 - yoe \div 100
        + (153 * (IF m > 2 THEN m - 3 ELSE m + 9) + 2) \div 5 + d - 1 - 719468

DayToFields(days) ==
  LET z == days + 719468
      doe == z % 146097
      yoe == (doe - doe \div 1460 + doe \div 36524 - doe \div 146096) \div 365
      doy == doe - (365 * yoe + yoe \div 4 - yoe \div 100)
      mp == (5 * doy + 2) \div 153
      m == IF mp < 10 THEN mp + 3 ELSE mp - 9
      y == yoe + (z \div 146097) * 400 + (IF m <= 2 THEN 1 ELSE 0)
  IN  [ext |-> y, month |-> m - 1, day |-> doy - (153 * mp + 2) \div 5 + 1,
       doy |-> days - FieldsToDay(y, 0, 1) + 1]

NumDays == <<0, 31, 59, 90, 120, 151, 181, 212, 243, 273, 304, 334>>
Julian(jd) ==
  LET jed == jd - 1721424
      y == (4 * jed + 1464) \div 1461
      doy == jed - (365 * (y - 1) + (y - 1) \div 4)
      leap == IF y % 4 = 0 THEN 1 ELSE 0
      corr == IF doy >= 59 + leap THEN 2 - leap ELSE 0
      month == (12 * (doy + corr) + 6) \div 367
  IN  [ext |-> y, month |-> month, doy |-> doy + 1,
       day |-> doy - (NumDays[month + 1] + (IF month > 1 THEN leap ELSE 0)) + 1]
Gregorian(jd) ==
  LET g == DayToFields(jd - EpochJd)
  IN  IF jd < 2299161 THEN Julian(jd)
      ELSE IF g.ext # 1582 THEN g
      ELSE [g EXCEPT !.doy = @ + 1581 \div 400 - 1581 \div 100 + 2]

\* Some of the Japanese eras the packs hold: <<year, month, day>>.
Eras == <<<<645, 6, 19>>, <<1868, 9, 8>>, <<1912, 7, 30>>, <<1926, 12, 25>>,
          <<1989, 1, 8>>, <<2019, 5, 1>>>>
EraCode(y, m, d) ==
  LET begun == {i \in DOMAIN Eras :
                  Eras[i][1] * 65536 + Eras[i][2] * 256 + Eras[i][3] <= y * 65536 + m * 256 + d}
  IN  IF begun = {} THEN 1 ELSE CHOOSE i \in begun : \A j \in begun : j <= i

-----------------------------------------------------------------------------
(* The Islamic calendars.                                                  *)

IslamicRelated(year) ==
  LET late == year >= 1397
      cycle == IF late THEN Trunc(year - 1397, 67) ELSE Trunc(year - 1396, 67) - 1
      offset == IF late THEN (year - 1397) % 67 ELSE (1396 - year) % 67
      more == IF late THEN offset >= 33 ELSE offset <= 33
  IN  year + 579 - (2 * cycle + (IF more THEN 1 ELSE 0))

Islamic(year, month, day, doy) ==
  Fields(0, year, year, month, day, doy, IslamicRelated(year))

CivilLeapYear(y) == Rem(14 + 11 * y, 30) < 11
CivilYearStart(y) == 354 * (y - 1) + (3 + 11 * y) \div 30
CivilMonthStart(y, month) == Ceil(59 * month, 2) + CivilYearStart(y)
CivilMonthLength(y, month) ==
  29 + ((month + 1) % 2) + (IF month = 11 /\ CivilLeapYear(y) THEN 1 ELSE 0)

MonthOf(days, yearStart) == Min({11, Ceil(2 * (days - 29 - yearStart), 59)})
CivilFields(days) ==
  LET y == (30 * days + 10646) \div 10631
      month == MonthOf(days, CivilYearStart(y))
  IN  Islamic(y, month, days - CivilMonthStart(y, month) + 1, days - CivilMonthStart(y, 0) + 1)

FirstTabled == 1300
UmalquraMonths == <<
  2730, 3412, 3785, 1748, 1770, 876, 2733, 1365, 1705, 1938, 2985, 1492, 2778,
  1372, 3373, 1685, 1866, 2900, 2922, 1453, 1198, 2639, 1303, 1675, 1701,
  2773, 726, 2395, 1181, 2637, 3366, 3477, 1452, 2486, 698, 2651, 1323, 2709,
  1738, 2793, 756, 2422, 694, 2390, 2762, 2980, 3026, 1497, 732, 2413, 1357,
  2725, 2898, 2981, 1460, 2486, 1367, 663, 1355, 1699, 1874, 2917, 1386, 2731,
  1323, 3221, 3402, 3493, 1482, 2774, 2391, 1195, 2379, 2725, 2898, 2922,
  1397, 630, 2231, 1115, 1365, 1449, 1460, 2522, 1245, 622, 2358, 2730, 3412,
  3506, 1493, 730, 2395, 1195, 2645, 2889, 2916, 2929, 1460, 2741, 2645, 3365,
  3730, 3785, 1748, 2793, 2411, 1195, 2707, 3401, 3492, 3506, 2745, 1210,
  2651, 1323, 2709, 2858, 2901, 1372, 1213, 573, 2333, 2709, 2890, 2906, 1389,
  694, 2363, 1179, 1621, 1705, 1876, 2922, 1388, 2733, 1365, 2857, 2962, 2985,
  1492, 2778, 1370, 2731, 1429, 1865, 1892, 2986, 1461, 694, 2646, 3661, 2853,
  2898, 2922, 1453, 686, 2351, 1175, 1611, 1701, 1708, 2774, 1373, 1181, 2637,
  3350, 3477, 1450, 1461, 730, 2395, 1197, 1429, 1738, 1764, 2794, 1269, 694,
  2390, 2730, 2900, 3026, 1497, 746, 2413, 1197, 2709, 2890, 2981, 1458, 2485,
  1238, 2711, 1351, 1683, 1865, 2901, 1386, 2667, 1323, 2699, 3398, 3491,
  1482, 2774, 1243, 619, 2379, 2725, 2898, 2921, 1397, 374, 2231, 603, 1323,
  1381, 1460, 2522, 1261, 365, 2230, 2726, 3410, 3497, 1492, 2778, 2395, 1195,
  1619, 1833, 1890, 2985, 1458, 2741, 1365, 2853, 3474, 3785, 1746, 2793,
  1387, 1195, 2645, 3369, 3412, 3498, 2485, 1210, 2619, 1179, 2637, 2730,
  2773, 730, 2397, 1118, 2606, 3226, 3413, 1714, 1721, 1210, 2653, 1325, 2709,
  2898, 2984, 2996, 1465, 730, 2394, 2890, 3492, 3793, 1768, 2922, 1389, 1333,
  1685, 3402, 3496, 3540, 1754, 1371, 669, 1579, 2837, 2890, 2965, 1450, 2734,
  2350, 3215, 1319, 1685, 1706, 2774, 1373, 669>>
UmalquraFix == <<
  0, 0, -1, 0, -1, 0, 0, 0, 0, 0, -1, 0, 0, 0, 0, 0, 0, 0, -1, 0, 1, 0, 1, 1,
  0, 0, 0, 0, 1, 0, 0, 0, 0, 0, 0, 0, 1, 0, 0, 0, 0, 0, 1, 0, 0, -1, -1, 0, 0,
  0, 1, 0, 0, -1, 0, 0, 0, 1, 1, 0, 0, 0, 0, 0, 0, 0, 0, -1, 0, 0, 0, 1, 1, 0,
  0, -1, 0, 1, 0, 1, 1, 0, 0, -1, 0, 1, 0, 0, 0, -1, 0, 1, 0, 1, 0, 0, 0, -1,
  0, 0, 0, 0, -1, -1, 0, -1, 0, 1, 0, 0, 0, -1, 0, 0, 0, 1, 0, 0, 0, 0, 0, 1,
  0, 0, -1, -1, 0, 0, 0, 1, 0, 0, -1, -1, 0, -1, 0, 0, -1, -1, 0, -1, 0, -1,
  0, 0, -1, -1, 0, 0, 0, 0, 0, 0, -1, 0, 1, 0, 1, 1, 0, 0, -1, 0, 1, 0, 0, 0,
  0, 0, 1, 0, 1, 0, 0, 0, -1, 0, 1, 0, 0, -1, -1, 0, 0, 0, 1, 0, 0, 0, 0, 0,
  0, 0, 1, 0, 0, 0, 0, 0, 1, 0, 0, -1, 0, 0, 0, 1, 1, 0, 0, -1, 0, 1, 0, 1, 1,
  0, 0, 0, 0, 1, 0, 0, 0, -1, 0, 0, 0, 1, 0, 0, 0, -1, 0, 0, 0, 0, 0, -1, 0,
  -1, 0, 1, 0, 0, 0, -1, 0, 1, 0, 1, 0, 0, 0, 0, 0, 1, 0, 0, -1, 0, 0, 0, 0,
  1, 0, 0, 0, -1, 0, 0, 0, 0, -1, -1, 0, -1, 0, 1, 0, 0, -1, -1, 0, 0, 1, 1,
  0, 0, -1, 0, 0, 0, 0, 1, 0, 0, 0, 0, 1>>
Tabled(y) == y \in FirstTabled..FirstTabled + Len(UmalquraMonths) - 1

UmalquraYearStart(y) ==
  LET n == y - FirstTabled
  IN  IF ~Tabled(y) THEN CivilYearStart(y)
      ELSE 460322 + 354 * n + (3672 * n + 5500) \div 10000 + UmalquraFix[n + 1]
UmalquraMonthLength(y, month) ==
  IF ~Tabled(y) THEN CivilMonthLength(y, month)
  ELSE 29 + ((UmalquraMonths[y - FirstTabled + 1] \div 2^(11 - month)) % 2)
UmalquraDays(y, months) ==
  FoldSet(LAMBDA month, sum : sum + UmalquraMonthLength(y, month), 0, 0..months - 1)
UmalquraMonthStart(y, month) == UmalquraYearStart(y) + UmalquraDays(y, month)
UmalquraYearLength(y) ==
  IF Tabled(y) THEN UmalquraDays(y, 12) ELSE 354 + (IF CivilLeapYear(y) THEN 1 ELSE 0)

\* The first year, from the one estimated, that is not over before the day.
UmalquraYear(days) ==
  LET near == Trunc(10000 * (days - 460322) - 5500, 3543672) + FirstTabled
  IN  Min({y \in near..near + 2 : days - UmalquraYearStart(y) + 1 <= UmalquraYearLength(y)})
Umalqura(days) ==
  IF days < UmalquraYearStart(FirstTabled)
  THEN LET y == (30 * days + 10646) \div 10631
           month == MonthOf(days, UmalquraYearStart(y))
       IN  Islamic(y, month, days - UmalquraMonthStart(y, month) + 1,
                   days - UmalquraMonthStart(y, 0) + 1)
  ELSE LET y == UmalquraYear(days)
           d == days - UmalquraYearStart(y) + 1
           month == IF d = UmalquraYearLength(y) THEN 11
                    ELSE Min({m \in 0..11 : d <= UmalquraDays(y, m + 1)})
       IN  Islamic(y, month, days - UmalquraMonthStart(y, month) + 1, d)

-----------------------------------------------------------------------------
(* The Persian, Hebrew, Indian, Coptic and Ethiopian calendars.            *)

PersianNumDays == <<0, 31, 62, 93, 124, 155, 186, 216, 246, 276, 306, 336>>
PersianNonLeap ==
  {1502, 1601, 1634, 1667, 1700, 1733, 1766, 1799, 1832, 1865, 1898, 1931, 1964, 1997,
   2030, 2059, 2063, 2096, 2129, 2158, 2162, 2191, 2195, 2224, 2228, 2257, 2261, 2290,
   2294, 2323, 2327, 2356, 2360, 2389, 2393, 2422, 2426, 2455, 2459, 2488, 2492, 2521,
   2525, 2554, 2558, 2587, 2591, 2620, 2624, 2653, 2657, 2686, 2690, 2719, 2723, 2748,
   2752, 2756, 2781, 2785, 2789, 2818, 2822, 2847, 2851, 2855, 2880, 2884, 2888, 2913,
   2917, 2921, 2946, 2950, 2954, 2979, 2983, 2987}
PersianFirstDay(y) ==
  365 * (y - 1) + (8 * y + 21) \div 33 - (IF y - 1 \in PersianNonLeap THEN 1 ELSE 0)
Persian(jd) ==
  LET days == jd - 1948320
      near == (33 * days + 3) \div 12053 + 1
      over == days - PersianFirstDay(near) = 365 /\ near \in PersianNonLeap
      y == IF over THEN near + 1 ELSE near
      doy == IF over THEN 0 ELSE days - PersianFirstDay(near)
      month == IF doy < 216 THEN Trunc(doy, 31) ELSE Trunc(doy - 6, 30)
  IN  Fields(0, y, y, month, doy + 1 - PersianNumDays[month + 1], doy + 1, y + 622)

\* Days before each month of a year that is short, ordinary or long; Adar I has
\* none but in a leap year.
HebrewStart(leap, type, month) ==
  LET length(m) == CASE m = 0 -> 30
                     [] m = 1 -> IF type = 2 THEN 30 ELSE 29
                     [] m = 2 -> IF type = 0 THEN 29 ELSE 30
                     [] m = 5 -> IF leap THEN 30 ELSE 0
                     [] m \in {4, 7, 9, 11} -> 30
                     [] OTHER -> 29
  IN  FoldSet(LAMBDA m, sum : sum + length(m), 0, 0..month - 1)

HebrewLeap(y) == LET x == Rem(y * 12 + 17, 19) IN x >= (IF x < 0 THEN -7 ELSE 12)
DayParts == 25920
StartOfYear(y) ==
  LET months == (235 * y - 234) \div 19
      parts == months * 13753 + 12084
      day == months * 29 + Trunc(parts, DayParts)
      frac == Rem(parts, DayParts)
      wd == Rem(day, 7)
  IN  CASE wd \in {2, 4, 6} -> day + 1
        [] wd = 1 /\ frac > 15 * 1080 + 204 /\ ~HebrewLeap(y) -> day + 2
        [] wd = 0 /\ frac > 21 * 1080 + 589 /\ HebrewLeap(y - 1) -> day + 1
        [] OTHER -> day
YearType(y) ==
  LET len == StartOfYear(y + 1) - StartOfYear(y)
      own == IF len > 380 THEN len - 30 ELSE len
  IN  CASE own = 353 -> 0 [] own = 355 -> 2 [] OTHER -> 1

\* floor(d * DayParts / 765433), in steps that 32 bits hold.
MonthsBefore(d) ==
  ((d * 160) \div 765433) * 162 + (((d * 160) % 765433) * 162) \div 765433
Hebrew(jd) ==
  LET d == jd - 347997
      near == (19 * MonthsBefore(d) + 234) \div 235 + 1
      y == Max({z \in near - 2..near : d - StartOfYear(z) >= 1})
      doy == d - StartOfYear(y)
      start(m) == HebrewStart(HebrewLeap(y), YearType(y), m)
      month == Max({m \in 0..12 : doy > start(m)})
  IN  Fields(0, y, y, month, doy - start(month), doy, y - 3760)

IndianDay(gy, gday) ==
  LET early == gday < 80
      y == IF early THEN gy - 79 ELSE gy - 78
      leapMonth == IF IsLeap(y + 78) THEN 31 ELSE 30
      yday == IF early THEN gday + leapMonth + 31 * 5 + 30 * 3 + 10 ELSE gday - 80
      mday == yday - leapMonth
      in(month, day) == Fields(0, y, y, month, day, yday + 1, y + 79)
  IN  CASE mday < 0 -> in(0, yday + 1)
        [] mday \in 0..154 -> in(mday \div 31 + 1, (mday % 31) + 1)
        [] OTHER -> in((mday - 155) \div 30 + 6, ((mday - 155) % 30) + 1)
Indian(days) ==
  LET year == [d \in {days} |-> DayToFields(d).ext]
  IN  IndianDay(year[days], days - FieldsToDay(year[days], 0, 1))

CopticEthiopic(jd, offset) ==
  LET j == jd - offset
      r4 == j % 1461
      doy == IF r4 = 1460 THEN 365 ELSE r4 % 365
  IN  [year |-> 4 * (j \div 1461) + r4 \div 365 - r4 \div 1460,
       month |-> doy \div 30, day |-> (doy % 30) + 1, doy |-> doy + 1]

-----------------------------------------------------------------------------
(* The calendars that follow the moon and the sun.                         *)

Synodic == 295306
Tropical == 3652422
MoonAt(k) == 60000 + Synodic * k       \* the k-th new moon from 7 January 1970
SunAt(n) == 790000 + (Tropical * n) \div 12   \* the sun enters its n-th twelfth

\* timeOfAngle of the moon: the next new moon from a day, or the last before.
NewMoonNear(days, after) ==
  LET next == Ceil(10000 * days - MoonAt(0), Synodic)
  IN  MoonAt(IF after THEN next ELSE next - 1) \div 10000
WinterSolstice(gyear) ==
  LET from == FieldsToDay(gyear, 11, 1) * 10000
      near == 12 * (gyear - 1970) + 9
  IN  SunAt(CHOOSE n \in {near - 12, near, near + 12} :
              SunAt(n) >= from /\ SunAt(n - 12) < from) \div 10000

SynodicMonthsBetween(day1, day2) ==
  LET r == (day2 - day1) * 10000
  IN  Trunc(IF r >= 0 THEN r + Synodic \div 2 ELSE r - Synodic \div 2, Synodic)

MajorSolarTerm(days) ==
  LET twelfth == Min({n \in 0..11 : \E y \in {(days - 79) \div 365 - k : k \in -1..2} :
                        SunAt(12 * y + n) <= days * 10000 /\ days * 10000 < SunAt(12 * y + n + 1)})
      term == (twelfth + 2) % 12
  IN  IF term < 1 THEN term + 12 ELSE term
HasNoMajorSolarTerm(newMoon) ==
  MajorSolarTerm(newMoon) = MajorSolarTerm(NewMoonNear(newMoon + 25, TRUE))

RECURSIVE IsLeapMonthBetween(_, _)
IsLeapMonthBetween(newMoon1, newMoon2) ==
  newMoon2 >= newMoon1 /\ (HasNoMajorSolarTerm(newMoon2)
                           \/ IsLeapMonthBetween(newMoon1, NewMoonNear(newMoon2 - 25, FALSE)))

NewYear(gyear) ==
  LET newMoon1 == NewMoonNear(WinterSolstice(gyear - 1) + 1, TRUE)
      newMoon2 == NewMoonNear(newMoon1 + 25, TRUE)
      newMoon11 == NewMoonNear(WinterSolstice(gyear) + 1, FALSE)
  IN  IF SynodicMonthsBetween(newMoon1, newMoon11) = 12
         /\ (HasNoMajorSolarTerm(newMoon1) \/ HasNoMajorSolarTerm(newMoon2))
      THEN NewMoonNear(newMoon2 + 25, TRUE) ELSE newMoon2

InSui(firstMoon, lastMoon, thisMoon) ==
  LET hasLeap == SynodicMonthsBetween(firstMoon, lastMoon) = 12
      counted == SynodicMonthsBetween(firstMoon, thisMoon)
      month == IF hasLeap /\ IsLeapMonthBetween(firstMoon, thisMoon) THEN counted - 1 ELSE counted
  IN  [month |-> IF month < 1 THEN month + 12 ELSE month, thisMoon |-> thisMoon,
       leap |-> hasLeap /\ HasNoMajorSolarTerm(thisMoon)
                /\ ~IsLeapMonthBetween(firstMoon, NewMoonNear(thisMoon - 25, FALSE))]
MonthInfo(gyear, days) ==
  LET from == IF days >= WinterSolstice(gyear) THEN gyear ELSE gyear - 1
  IN  InSui(NewMoonNear(WinterSolstice(from) + 1, TRUE), NewMoonNear(WinterSolstice(from + 1) + 1, FALSE),
            NewMoonNear(days + 1, FALSE))

YearStart(eyear) ==
  LET first(newMoon, info) ==
        IF info.month # 1 \/ info.leap THEN NewMoonNear(newMoon + 25, TRUE) ELSE newMoon
      newMoon == NewMoonNear(NewYear(eyear), TRUE)
  IN  first(newMoon, MonthInfo(DayToFields(newMoon).ext, newMoon)) - 1

ChineseDay(days, g, info, newYears) ==
  LET y == IF info.month < 11 \/ g.month >= 6 THEN g.ext ELSE g.ext - 1
      cycleYear == y + 2637
      newYear == newYears[IF days < newYears[g.ext] THEN g.ext - 1 ELSE g.ext]
  IN  [Fields((cycleYear - 1) \div 60 + 1, ((cycleYear - 1) % 60) + 1, y, info.month - 1,
              days - info.thisMoon + 1, days - newYear + 1, y)
         EXCEPT !.leap = IF info.leap THEN 1 ELSE 0]
Chinese(days) ==
  LET g == DayToFields(days)
  IN  ChineseDay(days, g, MonthInfo(g.ext, days), [y \in {g.ext - 1, g.ext} |-> NewYear(y)])

(* The astronomical Islamic calendar counts days from the Hijra; its moon   *)
(* is early or late by half a day, so that months are begun on either side *)
(* of where they would evenly be.                                          *)
HijraMoon(k) == LET w == k % 14 IN Synodic * k + 1500 * (IF w < 7 THEN w ELSE 14 - w) - 5000
Young(d) == LET near == (10000 * d) \div Synodic
            IN  \E k \in near - 1..near + 1 :
                  HijraMoon(k) <= 10000 * d /\ 10000 * d < HijraMoon(k) + Synodic \div 2
TrueMonthStart(month) ==
  LET origin == (month * Synodic) \div 10000
  IN  1 + IF Young(origin) THEN Max({d \in origin - 18..origin - 1 : ~Young(d)})
                           ELSE Min({d \in origin + 1..origin + 18 : Young(d)})
IslamicSeen(days) ==
  LET mean == (days * 10000) \div Synodic
      late == days - (mean * Synodic) \div 10000 >= 25 /\ Young(days)
      month == Max({m \in mean - 2..mean + (IF late THEN 1 ELSE 0) : TrueMonthStart(m) <= days})
      y == IF month >= 0 THEN month \div 12 + 1 ELSE Trunc(month + 1, 12)
      m == month % 12
  IN  Islamic(y, m, days - TrueMonthStart(12 * (y - 1) + m) + 1,
              days - TrueMonthStart(12 * (y - 1)) + 1)

-----------------------------------------------------------------------------
(* A day's fields, a year's length, and the year of a day's week.          *)

FieldsFrom(type, days, jd, g) ==
  LET with(era, year) == Fields(era, year, g.ext, g.month, g.day, g.doy, g.ext)
      ce(offset) == CopticEthiopic(jd, offset)
      from(c, before, after) == Fields(IF c.year <= 0 THEN 0 ELSE 1,
        IF c.year <= 0 THEN before ELSE c.year, c.year, c.month, c.day, c.doy, c.year + after)
  IN CASE type = "buddhist" -> with(0, g.ext + 543)
       [] type = "roc" -> IF g.ext > 1911 THEN with(1, g.ext - 1911) ELSE with(0, 1912 - g.ext)
       [] type = "japanese" ->
            LET code == EraCode(g.ext, g.month + 1, g.day) IN with(code, g.ext - Eras[code][1] + 1)
       [] type = "islamic" -> IslamicSeen(jd - 1948440)
       [] type = "islamic-civil" -> CivilFields(jd - 1948440)
       [] type = "islamic-tbla" -> CivilFields(jd - 1948439)
       [] type = "islamic-umalqura" -> Umalqura(jd - 1948440)
       [] type = "persian" -> Persian(jd)
       [] type = "hebrew" -> Hebrew(jd)
       [] type = "indian" -> Indian(days)
       [] type = "coptic" -> LET c == ce(1824665) IN from(c, 1 - c.year, 284)
       [] type = "ethiopic" -> LET c == ce(1723856) IN from(c, c.year + 5500, 8)
       [] type = "ethiopic-amete-alem" ->
            LET c == ce(-285019) IN Fields(0, c.year, c.year, c.month, c.day, c.doy, c.year + 8)
       [] type = "chinese" -> Chinese(days)
       [] OTHER -> LET p == DayToFields(days)
                   IN  Fields(IF p.ext > 0 THEN 1 ELSE 0, IF p.ext > 0 THEN p.ext ELSE 1 - p.ext,
                              p.ext, p.month, p.day, p.doy, p.ext)
FieldsOf(type, days) == FieldsFrom(type, days, days + EpochJd, Gregorian(days + EpochJd))

YearLength(type, y) ==
  CASE type \in {"buddhist", "japanese", "roc"} ->
         IF (IF y >= 1582 THEN IsLeap(y) ELSE y % 4 = 0) THEN 366 ELSE 365
    [] type = "islamic" -> TrueMonthStart(12 * y) - TrueMonthStart(12 * (y - 1))
    [] type \in {"islamic-civil", "islamic-tbla"} -> 354 + (IF CivilLeapYear(y) THEN 1 ELSE 0)
    [] type = "islamic-umalqura" -> UmalquraYearLength(y)
    [] type = "persian" -> IF y \in PersianNonLeap THEN 365
                           ELSE IF y - 1 \in PersianNonLeap \/ Rem(y * 25 + 11, 33) < 8
                           THEN 366 ELSE 365
    [] type = "hebrew" -> StartOfYear(y + 1) - StartOfYear(y)
    [] type = "indian" -> IF IsLeap(y + 78) THEN 366 ELSE 365
    [] type \in {"coptic", "ethiopic", "ethiopic-amete-alem"} ->
         365 + (y + 1) \div 4 - y \div 4
    [] type = "chinese" -> YearStart(y + 1) - YearStart(y)
    [] OTHER -> IF IsLeap(y) THEN 366 ELSE 365

DayOfWeek(days) == ((days + 4) % 7) + 1      \* 1 for Sunday
\* The year the week of a day of fields t is of, in a year of lastDoy days.
\* Mutant: the days before the first week keep the year they are dated in.
WeekYearLate(days, t, lastDoy, first, min) ==
  LET relDow == (DayOfWeek(days) + 7 - first) % 7
      lastRelDow == (relDow + lastDoy - t.doy) % 7
  IN  IF t.doy + 7 - relDow > lastDoy /\ 6 - lastRelDow >= min THEN t.ext + 1 ELSE t.ext

WeekYear(days, t, lastDoy, first, min) ==
  LET relDow == (DayOfWeek(days) + 7 - first) % 7
      relDowJan1 == (DayOfWeek(days) - t.doy + 7001 - first) % 7
      woy == Trunc(t.doy - 1 + relDowJan1, 7) + (IF 7 - relDowJan1 >= min THEN 1 ELSE 0)
      lastRelDow == (relDow + lastDoy - t.doy) % 7
  IN  CASE woy = 0 -> t.ext - 1
        [] woy # 0 /\ t.doy >= lastDoy - 5 /\ 6 - lastRelDow >= min
           /\ t.doy + 7 - relDow > lastDoy -> t.ext + 1
        [] OTHER -> t.ext

-----------------------------------------------------------------------------
(* What is checked: every type, on days at the ends of its years and in    *)
(* between, on either side of where its tables and rules begin and end.    *)

Types == {"gregory", "buddhist", "roc", "japanese", "islamic", "islamic-civil", "islamic-tbla",
          "islamic-umalqura", "persian", "hebrew", "indian", "coptic", "ethiopic",
          "ethiopic-amete-alem", "chinese"}
Days(type) ==
  LET about(s) == UNION {d - 2..d + 1 : d \in s}
  IN CASE type = "islamic" -> {d - 492148 : d \in 2000..2800}
       [] type = "islamic-umalqura" ->
            about({UmalquraYearStart(y) - 492148 : y \in 1295..1605}) \cup 11000..11400
       [] type = "persian" -> about({PersianFirstDay(y) - 492268 : y \in 1280..2995}) \cup 11000..11400
       [] type = "hebrew" -> about({StartOfYear(y) - 2092591 : y \in 5700..5860}) \cup 11000..11800
       [] type \in {"buddhist", "roc", "japanese"} ->
            about({FieldsToDay(y, 0, 1) : y \in 1584..2030})
              \cup 11000..11400 \cup about({FieldsToDay(Eras[i][1], Eras[i][2] - 1, Eras[i][3]) : i \in 2..6})
       [] type = "chinese" -> 11000..11900
       [] OTHER -> 11000..12600
Cases == UNION {{<<type, d>> : d \in Days(type)} : type \in Types}

\* From a day to the next one day goes by in the calendar too: the month goes
\* on or the next one begins, and a year that is over had the days it is said
\* to have; a year of an era goes on or begins at one.
DaysFollowOn(type, a, b, length) ==
  LET sameMonth == b.month = a.month /\ b.leap = a.leap /\ b.day = a.day + 1
      nextMonth == b.day = 1 /\ (b.month > a.month \/ (b.month = a.month /\ b.leap > a.leap))
  IN  /\ \/ b.ext = a.ext /\ b.doy = a.doy + 1 /\ (sameMonth \/ nextMonth)
            /\ ((b.year = a.year /\ b.era = a.era) \/ (b.era > a.era /\ b.year = 1))
         \/ b.ext = a.ext + 1 /\ b.month = 0 /\ b.day = 1 /\ b.doy = 1
            /\ a.doy = length
            /\ (b.year # a.year \/ b.era # a.era)
      /\ a.day \in 1..31 /\ a.year >= 1 /\ (type = "chinese" => b.month - a.month <= 1)
\* All the days of a week are in the same year of weeks, and no year is left
\* out: whichever day weeks begin on, and however much of one is needed.
WeeksWhole(day, at, lengths) == \A first \in {1, 2, 7}, min \in {1, 4} :
  LET year == [d \in {day, day + 1} |-> WeekYear(d, at[d], lengths[at[d].ext], first, min)]
  IN  IF DayOfWeek(day + 1) = first THEN year[day + 1] \in year[day]..year[day] + 1
      ELSE year[day + 1] = year[day]
\* The Gregorian year a year is related to is one it has days of, or next to
\* it; amete alem's is not, which counts from the creation but is related as if
\* from the incarnation.
RelatedIsNear(type, day, a) ==
  type # "ethiopic-amete-alem" => a.related - DayToFields(day).ext \in -1..1

CalendarsAgree(x) ==
  LET type == x[1]
      day == x[2]
      check(at, lengths) == /\ DaysFollowOn(type, at[day], at[day + 1], lengths[at[day].ext])
                            /\ WeeksWhole(day, at, lengths)
                            /\ RelatedIsNear(type, day, at[day])
      measure(at) == check(at, [y \in {at[d].ext : d \in DOMAIN at} |-> YearLength(type, y)])
  IN  measure([d \in {day, day + 1} |-> FieldsOf(type, d)])

-----------------------------------------------------------------------------
Day == 24
Never == [time |-> -1]                    \* null: no transition
Greatest(S) == CHOOSE x \in S : \A y \in S : y <= x

-----------------------------------------------------------------------------
(* Dates, months from 0 and days of the week from 1, Sunday.               *)
ZoneDay(y0, m0, d) ==
  LET m == m0 + 1
      y == IF m <= 2 THEN y0 - 1 ELSE y0
      yoe == y % 400
      doy == (153 * (m + (IF m > 2 THEN -3 ELSE 9)) + 2) \div 5 + d - 1
  IN  (y \div 400) * 146097 + yoe * 365 + yoe \div 4 - yoe \div 100 + doy - 719468
ZoneFields(days) ==
  LET doe == (days + 719468) % 146097
      yoe == (doe - doe \div 1460 + doe \div 36524 - doe \div 146096) \div 365
      doy == doe - (365 * yoe + yoe \div 4 - yoe \div 100)
      mp == (5 * doy + 2) \div 153
      m == IF mp < 10 THEN mp + 3 ELSE mp - 9
  IN  [year |-> yoe + ((days + 719468) \div 146097) * 400 + (IF m <= 2 THEN 1 ELSE 0),
       month |-> m - 1, day |-> doy - (153 * mp + 2) \div 5 + 1]
MonthLength(y, m) ==
  IF m = 1 /\ IsLeap(y) THEN 29 ELSE <<31, 28, 31, 30, 31, 30, 31, 31, 30, 31, 30, 31>>[m + 1]
PrevMonthLength(y, m) == IF m > 0 THEN MonthLength(y, m - 1) ELSE 31
TimeToFields(date) ==
  LET day == date \div Day
  IN  [on |-> ZoneFields(day), dow |-> DayOfWeek(day), time |-> date % Day]

-----------------------------------------------------------------------------
(* SimpleTimeZone: daylight saving time from one day of the year to        *)
(* another.  A rule's day is a day of the month, a day of the week counted *)
(* from either end of the month, or one on or after, or on or before, a    *)
(* day of the month.                                                       *)
Decode(r) ==
  CASE r.dow = 0 -> [r EXCEPT !.mode = "DOM"]
    [] r.dow > 0 -> [r EXCEPT !.mode = "DOW_IN_MONTH"]
    [] r.dow < 0 /\ r.day > 0 -> [r EXCEPT !.mode = "DOW_GE_DOM", !.dow = -r.dow]
    [] OTHER -> [r EXCEPT !.mode = "DOW_LE_DOM", !.dow = -r.dow, !.day = -r.day]

RuleDom(rule, monthLen, dom, dow) ==
  LET day == IF rule.day > monthLen THEN monthLen ELSE rule.day
  IN  CASE rule.mode = "DOM" -> day
        [] rule.mode = "DOW_IN_MONTH" /\ day > 0 ->
             1 + (day - 1) * 7 + ((7 + rule.dow - (dow - dom + 1)) % 7)
        [] rule.mode = "DOW_IN_MONTH" /\ day <= 0 ->
             monthLen + (day + 1) * 7 - ((7 + (dow + monthLen - dom) - rule.dow) % 7)
        [] rule.mode = "DOW_GE_DOM" -> day + ((49 + rule.dow - day - dow + dom) % 7)
        [] OTHER -> day - ((49 - rule.dow + day + dow - dom) % 7)
Sign(n) == IF n < 0 THEN -1 ELSE IF n > 0 THEN 1 ELSE 0
\* Before, at or after the rule's moment, the time being delta off.
CompareToRule(rule, y, month, dom, dow, time, delta) ==
  LET t == time + delta
      length == MonthLength(y, month)
      after(m, d, w, millis) ==
        IF m # rule.month THEN Sign(m - rule.month)
        ELSE LET ruleDom == RuleDom(rule, length, d, w)
             IN  IF d # ruleDom THEN Sign(d - ruleDom) ELSE Sign(millis - rule.time)
  IN  CASE t >= Day -> IF dom + 1 > length THEN after(month + 1, 1, 1 + (dow % 7), t - Day)
                       ELSE after(month, dom + 1, 1 + (dow % 7), t - Day)
        [] t < 0 -> IF dom - 1 < 1 THEN after(month - 1, PrevMonthLength(y, month), 1 + ((dow + 5) % 7), t + Day)
                    ELSE after(month, dom - 1, 1 + ((dow + 5) % 7), t + Day)
        [] OTHER -> after(month, dom, dow, t)

InDaylight(z, f) ==
  LET against(rule, delta) ==
        CompareToRule(rule, f.on.year, f.on.month, f.on.day, f.dow, f.time, delta)
      begun == against(z.start, IF z.start.timeMode = "UTC" THEN -z.raw ELSE 0) >= 0
      notOver == against(z.end, CASE z.end.timeMode = "WALL" -> z.dst
                                  [] z.end.timeMode = "UTC" -> -z.raw [] OTHER -> 0) < 0
  IN  z.useDaylight /\ f.on.year >= z.startYear
      /\ IF z.start.month > z.end.month THEN begun \/ notOver ELSE begun /\ notOver
\* The standard offset and what daylight saving adds; a local time is taken
\* for standard, and then put right.
SimpleOffsets(z, date, local) ==
  LET of(saved, first) == [raw |-> z.raw, dst |-> IF local /\ first # 0 THEN saved[date - first] ELSE first]
      from(saved) == of(saved, saved[IF local THEN date ELSE date + z.raw])
  IN  from([t \in Int |-> IF InDaylight(z, TimeToFields(t)) THEN z.dst ELSE 0])

\* Mutant: the end is told in the time it ends.
StartInYearStandard(rule, year, prevRaw, prevDst) ==
  LET first == ZoneDay(year, rule.month, 1)
      last == ZoneDay(year, rule.month, MonthLength(year, rule.month))
      onOrAfter(day) == day + ((rule.dow - DayOfWeek(day)) % 7)
      onOrBefore(day) == day - ((DayOfWeek(day) - rule.dow) % 7)
      day == CASE rule.mode = "DOM" -> ZoneDay(year, rule.month, rule.day)
               [] rule.mode = "DOW_IN_MONTH" /\ rule.day > 0 -> onOrAfter(first + 7 * (rule.day - 1))
               [] rule.mode = "DOW_IN_MONTH" /\ rule.day <= 0 -> onOrBefore(last + 7 * (rule.day + 1))
               [] rule.mode = "DOW_GE_DOM" -> onOrAfter(ZoneDay(year, rule.month, rule.day))
               [] OTHER -> onOrBefore(ZoneDay(year, rule.month,
                             IF rule.month = 1 /\ rule.day = 29 /\ ~IsLeap(year) THEN 28 ELSE rule.day))
  IN  IF year < rule.startYear THEN Never
      ELSE [time |-> day * Day + rule.time - (IF rule.timeMode = "UTC" THEN 0 ELSE prevRaw)]
StartInYear(rule, year, prevRaw, prevDst) ==
  LET t == StartInYearStandard(rule, year, prevRaw, prevDst)
  IN  IF t = Never \/ rule.timeMode # "WALL" THEN t ELSE [time |-> t.time - prevDst]

YearOf(date) == ZoneFields(date \div Day).year
NextStart(rule, base, prevRaw, prevDst, inclusive) ==
  LET later(start, year, t) ==
        IF t # Never /\ (t.time < base \/ (~inclusive /\ t.time = base)) THEN start[year + 1] ELSE t
      of(start, year) == IF year < rule.startYear THEN start[rule.startYear] ELSE later(start, year, start[year])
  IN  of([y \in Int |-> StartInYear(rule, y, prevRaw, prevDst)], YearOf(base))
PreviousStart(rule, base, prevRaw, prevDst, inclusive) ==
  LET earlier(start, year, t) ==
        IF t # Never /\ (t.time > base \/ (~inclusive /\ t.time = base)) THEN start[year - 1] ELSE t
      of(start, year) == earlier(start, year, start[year])
  IN  of([y \in Int |-> StartInYear(rule, y, prevRaw, prevDst)], YearOf(base))

Transition(time, from, to) == [time |-> time, fromDst |-> from, toDst |-> to]
Of(z, rule) == [month |-> rule.month, day |-> rule.day, dow |-> rule.dow, mode |-> rule.mode,
                time |-> rule.time, timeMode |-> rule.timeMode, startYear |-> z.startYear]
\* What is saved before a rule starts.
Saved(z, w) == IF w = "end" THEN z.dst ELSE 0
\* Of the next start of each rule, the sooner; of the previous, the later.
SimpleNext(z, base, inclusive) ==
  LET sooner(s, d) ==
        CASE s # Never /\ (d = Never \/ s.time < d.time) -> Transition(s.time, z.dst, 0)
          [] d # Never /\ (s = Never \/ d.time < s.time) -> Transition(d.time, 0, z.dst)
          [] OTHER -> Never
      of(n) == sooner(n["end"], n["start"])
  IN  IF ~z.useDaylight THEN Never
      ELSE of([w \in {"start", "end"} |-> NextStart(Of(z, z[w]), base, z.raw, Saved(z, w), inclusive)])
SimplePrevious(z, base, inclusive) ==
  LET later(s, d) ==
        CASE s # Never /\ (d = Never \/ s.time > d.time) -> Transition(s.time, z.dst, 0)
          [] d # Never /\ (s = Never \/ d.time > s.time) -> Transition(d.time, 0, z.dst)
          [] OTHER -> Never
      least(a, b) == IF a < b THEN a ELSE b
      of(p) == later(p["end"], p["start"])
      since(first) ==
        IF base < first \/ (~inclusive /\ base = first) THEN Never
        ELSE of([w \in {"start", "end"} |-> PreviousStart(Of(z, z[w]), base, z.raw, Saved(z, w), inclusive)])
      both(first) == since(least(first["start"], first["end"]))
  IN  IF ~z.useDaylight THEN Never
      ELSE both([w \in {"start", "end"} |-> StartInYear(Of(z, z[w]), z.startYear, z.raw, Saved(z, w)).time])

-----------------------------------------------------------------------------
(* OlsonTimeZone: the transitions recorded, at times t, to types m of the  *)
(* offsets o, then a final rule from the start of a year on, if there is.  *)
TypeAt(z, i) == IF i < 1 THEN z.o[1] ELSE z.o[z.m[i]]
RawAt(z, i) == TypeAt(z, i)[1]
DstAt(z, i) == TypeAt(z, i)[2]
\* A local time that there is not is as before the transition, and one that
\* there is twice as after it.
Historical(z, date, local) ==
  LET at(i) == IF local /\ date >= z.t[i] - Day THEN z.t[i] + RawAt(z, i) + DstAt(z, i) ELSE z.t[i]
      type == TypeAt(z, Greatest({0} \cup {i \in DOMAIN z.t : date >= at(i)}))
  IN  [raw |-> type[1], dst |-> type[2]]
FinalStart(z) == ZoneDay(z.finalYear, 0, 1) * Day
Offsets(z, date, local) ==
  IF z.final.is /\ date >= FinalStart(z) THEN SimpleOffsets(z.final, date, local)
  ELSE Historical(z, date, local)

WithYear(z) == [z.final EXCEPT !.startYear = z.finalYear]
FirstIdx(z) == Greatest({0} \cup {i \in DOMAIN z.t : \A j \in 1..i : z.m[j] = 1}) + 1
HasHistoric(z) == FirstIdx(z) <= Len(z.t)
FirstFinal(z) ==
  LET from == IF z.t = <<>> THEN z.o[1][2] ELSE DstAt(z, Len(z.t))
      tz == SimpleNext(WithYear(z), FinalStart(z), FALSE)
  IN  IF ~z.final.is THEN Never
      ELSE IF ~z.final.useDaylight THEN Transition(FinalStart(z), from, 0)
      ELSE Transition(tz.time, from, tz.toDst)
Recorded(z, i) ==
  Transition(z.t[i], IF i = FirstIdx(z) THEN z.o[1][2] ELSE DstAt(z, i - 1), DstAt(z, i))
\* A change of type that changes nothing is no transition.
SameTypes(z, i) == i > FirstIdx(z) /\ TypeAt(z, i - 1) = TypeAt(z, i)
Next(z, base, inclusive, ff) ==
  LET past == {i \in FirstIdx(z)..Len(z.t) : base > z.t[i] \/ (~inclusive /\ base = z.t[i])}
      ahead == {i \in FirstIdx(z)..Len(z.t) \ past : ~SameTypes(z, i)}
  IN  CASE z.final.is /\ inclusive /\ base = ff.time -> ff
        [] z.final.is /\ base >= ff.time /\ ~(inclusive /\ base = ff.time) ->
             IF z.final.useDaylight THEN SimpleNext(WithYear(z), base, inclusive) ELSE Never
        [] OTHER -> IF ~HasHistoric(z) THEN Never
                    ELSE IF ahead = {} THEN ff
                    ELSE Recorded(z, CHOOSE i \in ahead : \A j \in ahead : i <= j)
Previous(z, base, inclusive, ff) ==
  LET past == {i \in FirstIdx(z)..Len(z.t) : base > z.t[i] \/ (inclusive /\ base = z.t[i])}
      behind == {i \in past : ~SameTypes(z, i)}
  IN  CASE z.final.is /\ inclusive /\ base = ff.time -> ff
        [] z.final.is /\ base > ff.time ->
             IF z.final.useDaylight THEN SimplePrevious(WithYear(z), base, inclusive) ELSE ff
        [] OTHER -> IF ~HasHistoric(z) \/ behind = {} THEN Never ELSE Recorded(z, Greatest(behind))

-----------------------------------------------------------------------------
(* Custom zones, +hh, +hhmm or +hh:mm, and how an offset is written.       *)
\* offsetZone and customOffset: minutes east, or none.
NoOffset == 60 * 24
OffsetZone(s) ==
  IF s.h > 23 \/ s.m > 59 THEN NoOffset ELSE (IF s.sign = "+" THEN 1 ELSE -1) * (60 * s.h + s.m)
\* customId: written as it is read.
CustomId(offset) ==
  LET a == IF offset < 0 THEN -offset ELSE offset
  IN  [sign |-> IF offset < 0 THEN "-" ELSE "+", h |-> a \div 60, m |-> a % 60]

\* A pattern of hours and minutes, with seconds put in or minutes taken out;
\* a field is written in at least so many digits.
ExpandPattern(hm) ==
  LET mm == CHOOSE i \in DOMAIN hm : hm[i] = "mm"
      h == Greatest({0} \cup {i \in 1..mm : hm[i] \in {"H", "HH"}})
  IN  SubSeq(hm, 1, mm) \o (IF h = 0 THEN <<>> ELSE SubSeq(hm, h + 1, mm - 1)) \o <<"ss">> \o SubSeq(hm, mm + 1, Len(hm))
TruncatePattern(hm) == SubSeq(hm, 1, Greatest({0} \cup {i \in DOMAIN hm : hm[i] \in {"H", "HH"}}))
\* Mutant: the minutes are taken out of a short form whatever they are.
LocalizedPatternShort(hm, m, s, isShort) ==
  IF s # 0 THEN ExpandPattern(hm) ELSE IF isShort THEN TruncatePattern(hm) ELSE hm
LocalizedPattern(hm, m, s, isShort) ==
  IF s # 0 THEN ExpandPattern(hm) ELSE IF isShort /\ m = 0 THEN TruncatePattern(hm) ELSE hm
LocalizedGMT(patterns, offset, isShort) ==
  LET a == IF offset < 0 THEN -offset ELSE offset
      h == a \div 3600
      m == (a \div 60) % 60
      pat == LocalizedPattern(patterns[IF offset >= 0 THEN 1 ELSE 2], m, a % 60, isShort)
  IN  [i \in DOMAIN pat |-> CASE pat[i] \in {"H", "HH"} -> <<"H", h>> [] pat[i] = "mm" -> <<"m", m>>
                              [] pat[i] = "ss" -> <<"s", a % 60>> [] OTHER -> <<pat[i], 0>>]

\* formatGenericNonLocationName: a zone that keeps standard time for half a
\* year on both sides is called by the name of that.
DstCheck == 184 * Day
UseStandard(z, date, before, after) ==
      /\ Offsets(z, date, FALSE).dst = 0
      /\ ~(before # Never /\ date - before.time < DstCheck /\ before.fromDst # 0)
      /\ ~(after # Never /\ after.time - date < DstCheck /\ after.toDst # 0)

-----------------------------------------------------------------------------
(* The cases: zones with rules of every kind, and records before them.     *)
Rule(month, day, dow, time, timeMode) ==
  Decode([month |-> month, day |-> day, dow |-> dow, time |-> time, timeMode |-> timeMode, mode |-> "none"])
Final(raw, start, end) == [is |-> TRUE, useDaylight |-> TRUE, raw |-> raw, dst |-> 1,
                           start |-> start, end |-> end, startYear |-> 0]
NoFinal == [Final(0, Rule(0, 1, 0, 0, "WALL"), Rule(1, 1, 0, 0, "WALL")) EXCEPT !.is = FALSE]
At(y, m, d, h) == ZoneDay(y, m, d) * Day + h
Zone(o, t, m, year, final) == [o |-> o, t |-> t, m |-> m, finalYear |-> year, final |-> final]
Plain(raw) == << <<raw, 0>>, <<raw, 1>>, <<raw - 1, 0>> >>

American == Final(-5, Rule(2, 2, 1, 2, "WALL"), Rule(10, 1, 1, 2, "WALL"))
Summer == << At(2000, 3, 2, 7), At(2000, 9, 29, 6) >>
Zones == <<
  Zone(Plain(-5), Summer, << 2, 1 >>, 2001, American),
  Zone(Plain(1), Summer, << 2, 1 >>, 2001, Final(1, Rule(2, -1, 1, 1, "UTC"), Rule(9, -1, 1, 1, "UTC"))),
  Zone(Plain(10), << At(2000, 9, 1, 16) >>, << 2 >>, 2001, Final(10, Rule(9, 1, 1, 2, "STANDARD"), Rule(3, 1, 1, 2, "STANDARD"))),
  Zone(Plain(-4), << At(2000, 8, 3, 4) >>, << 2 >>, 2001, Final(-4, Rule(8, 2, -1, 4, "UTC"), Rule(3, 2, -1, 3, "UTC"))),
  Zone(Plain(2), Summer, << 2, 1 >>, 2001, Final(2, Rule(3, 1, 0, 0, "WALL"), Rule(8, 30, 0, 23, "WALL"))),
  Zone(Plain(2), Summer, << 2, 1 >>, 2001, Final(2, Rule(2, -29, -6, 2, "WALL"), Rule(9, -30, -6, 0, "WALL"))),
  Zone(Plain(-3), Summer, << 2, 1 >>, 2001, Final(-3, Rule(2, -1, 7, 22, "WALL"), Rule(9, -1, 7, 23, "WALL"))),
  Zone(Plain(-5), << At(2000, 3, 2, 7), At(2000, 9, 29, 6), At(2001, 5, 1, 5), At(2001, 6, 1, 5) >>, << 2, 1, 3, 1 >>, 2002, American),
  Zone(Plain(3), << At(2000, 0, 5, 0), At(2000, 2, 26, 0), At(2000, 9, 28, 23), At(2000, 11, 1, 0), At(2001, 4, 1, 0) >>,
       << 1, 2, 1, 1, 3 >>, 0, NoFinal),
  Zone(Plain(0), << At(2000, 4, 1, 0), At(2000, 8, 1, 0) >>, << 2, 1 >>, 2002, [NoFinal EXCEPT !.is = TRUE, !.useDaylight = FALSE]) >>

ZoneDays == ZoneDay(2000, 0, 10)..FieldsToDay(2003, 6, 1)
Changing(z) ==
  LET of(at) == {d \in ZoneDays : at[d] # at[d + 1]} IN of([d \in Int |-> Offsets(z, d * Day, FALSE)])
ZoneCases == UNION {{<<i, t>> : t \in UNION {((d - 1) * Day)..((d + 2) * Day) : d \in Changing(Zones[i])}
                                      \cup {d * Day + 7 : d \in {e \in ZoneDays : e % 16 = 0}}} : i \in DOMAIN Zones}
OffsetCases == {[sign |-> sign, h |-> h, m |-> m] : sign \in {"+", "-"}, h \in {0, 1, 9, 10, 23, 24}, m \in {0, 5, 30, 59, 60}}
WrittenCases ==
  {[patterns |-> p, offset |-> sign * (3600 * h + 60 * m + s), short |-> short] :
     p \in {<< <<"+", "HH", ":", "mm">>, <<"-", "HH", ":", "mm">> >>, << <<"H", ".", "mm", "+">>, <<"-", "H", ".", "mm">> >>},
     sign \in {1, -1}, h \in {0, 1, 10, 13}, m \in {0, 5, 30}, s \in {0, 28}, short \in BOOLEAN}

-----------------------------------------------------------------------------
\* Where the offset changes there is a transition, and it is found from both
\* sides; where there is one, the offsets before and after are those it says;
\* from the one before a moment the next one is the one after it.  A local time
\* that there is once is given the offset it has.
TransitionsFound(t, at, next, previous) ==
  LET told(tr) == tr # Never => at[tr.time, FALSE].dst = tr.toDst /\ at[tr.time - 1, FALSE].dst = tr.fromDst
      around(from, to, local) ==
        /\ told(from) /\ told(to)
        /\ to # Never => to.time > t /\ previous[to.time, TRUE] = to
        /\ from # Never => from.time <= t /\ next[from.time, FALSE] = to
        /\ at[t, FALSE] # at[t - 1, FALSE] => from.time = t /\ next[t - 1, FALSE] = from /\ next[t, TRUE] = from
        /\ (\A u \in t - 3..t + 3 : at[u, FALSE] = at[t, FALSE]) => at[local, TRUE] = at[t, FALSE]
  IN  around(previous[t, TRUE], next[t, FALSE], t + at[t, FALSE].raw + at[t, FALSE].dst)
\* A zone is called by its standard time when, and only when, it keeps no other
\* within half a year.
StandardIsKept(z, t, at, next, previous) ==
  t % Day = 7 =>
    (UseStandard(z, t, previous[t, TRUE], next[t, FALSE])
       <=> \A u \in {t + d * Day : d \in -184..183} \cup {t + DstCheck - 1} : at[u, FALSE].dst = 0)
ZonesAgree(x) ==
  LET both(z, t, at, next, previous) == TransitionsFound(t, at, next, previous) /\ StandardIsKept(z, t, at, next, previous)
      of(z, t, ff) == both(z, t, [time \in Int, local \in BOOLEAN |-> Offsets(z, time, local)],
                           [time \in Int, inclusive \in BOOLEAN |-> Next(z, time, inclusive, ff)],
                           [time \in Int, inclusive \in BOOLEAN |-> Previous(z, time, inclusive, ff)])
  IN  of(Zones[x[1]], x[2], FirstFinal(Zones[x[1]]))

\* A custom zone's name is read as the zone again; and an offset as it is
\* written says its sign, hours, minutes and seconds, none left out but zeros.
CustomReadsBack(s) ==
  LET offset == OffsetZone(s) IN offset # NoOffset => OffsetZone(CustomId(offset)) = offset
WrittenWhole(c) ==
  LET out == LocalizedGMT(c.patterns, c.offset, c.short)
      field(name) == LET at == {i \in DOMAIN out : out[i][1] = name}
                     IN  IF at = {} THEN 0 ELSE out[CHOOSE i \in at : TRUE][2]
      a == IF c.offset < 0 THEN -c.offset ELSE c.offset
  IN  /\ 3600 * field("H") + 60 * field("m") + field("s") = a
      /\ \A i \in DOMAIN out : out[i][1] = "-" => c.offset < 0
      /\ c.offset < 0 => \E i \in DOMAIN out : out[i][1] = "-"
-----------------------------------------------------------------------------
(* Intl.DateTimeFormat: the patterns a locale has (vita/js/intl_pattern.js,*)
(* ICU's DateTimePatternGenerator), the nearest of them to what is asked   *)
(* for, made to fit it, and those put together where none has it all.      *)
(* There a pattern is a sequence of fields, a letter and how many of it,   *)
(* and of literals, of length 0.                                           *)
(*                                                                         *)
(* formatRange (vita/js/intl_range.js, ICU's DateIntervalFormat): for each *)
(* field two dates may differ in first, a pattern that writes what they    *)
(* share once; how one is found for the formatter's skeleton, split between*)
(* the two dates and written; and the hash table whose order decides       *)
(* between skeletons equally near.  There a pattern is a sequence of runs, *)
(* a letter and its count; a skeleton is the count of each letter.         *)

Least(S) == CHOOSE x \in S : \A y \in S : x <= y
Magnitude(n) == IF n < 0 THEN -n ELSE n
Literal(c) == <<c, 0>>

ERA == 0
YEAR == 1
MONTH == 3
WEEKDAY == 6
DAY == 9
DAYPERIOD == 10
HOUR == 11
MINUTE == 12
SECOND == 13
FRACTION == 14
FieldList == <<ERA, YEAR, MONTH, WEEKDAY, DAY, DAYPERIOD, HOUR, MINUTE, SECOND, FRACTION>>
FieldSet == {ERA, YEAR, MONTH, WEEKDAY, DAY, DAYPERIOD, HOUR, MINUTE, SECOND, FRACTION}
Dates == {f \in FieldSet : f < DAYPERIOD}
Times == FieldSet \ Dates
NUMERIC == 256
NARROW == -257
SHORT == -259
LONG == -260
DELTA == 16
\* Mutant: a field too many is no worse than one missing.
ExtraCheap == 16
EXTRA_FIELD == 65536
MISSING_FIELD == 4096

\* TYPES, of the letters here: letter, field, type, shortest length.
TypeRows == <<
  <<"G", ERA, SHORT, 1>>, <<"G", ERA, LONG, 4>>, <<"y", YEAR, NUMERIC, 1>>,
  <<"M", MONTH, NUMERIC, 1>>, <<"M", MONTH, SHORT, 3>>, <<"M", MONTH, LONG, 4>>, <<"M", MONTH, NARROW, 5>>,
  <<"L", MONTH, NUMERIC + DELTA, 1>>, <<"L", MONTH, SHORT - DELTA, 3>>, <<"L", MONTH, LONG - DELTA, 4>>,
  <<"E", WEEKDAY, SHORT, 1>>, <<"E", WEEKDAY, LONG, 4>>, <<"E", WEEKDAY, NARROW, 5>>,
  <<"c", WEEKDAY, NUMERIC + 2 * DELTA, 1>>, <<"c", WEEKDAY, SHORT - 2 * DELTA, 3>>, <<"c", WEEKDAY, LONG - 2 * DELTA, 4>>,
  <<"e", WEEKDAY, NUMERIC + DELTA, 1>>, <<"e", WEEKDAY, SHORT - DELTA, 3>>, <<"e", WEEKDAY, LONG - DELTA, 4>>,
  <<"d", DAY, NUMERIC, 1>>, <<"a", DAYPERIOD, SHORT, 1>>, <<"a", DAYPERIOD, LONG, 4>>,
  <<"B", DAYPERIOD, SHORT - 3 * DELTA, 1>>, <<"B", DAYPERIOD, LONG - 3 * DELTA, 4>>,
  <<"H", HOUR, NUMERIC + 10 * DELTA, 1>>, <<"k", HOUR, NUMERIC + 11 * DELTA, 1>>, <<"h", HOUR, NUMERIC, 1>>,
  <<"K", HOUR, NUMERIC + DELTA, 1>>,
  <<"m", MINUTE, NUMERIC, 1>>, <<"s", SECOND, NUMERIC, 1>>, <<"S", FRACTION, NUMERIC, 1>>>>
Letters == {TypeRows[i][1] : i \in DOMAIN TypeRows}
\* The order in which patterns are looked through: their first letter's.
Boot == <<"B", "E", "G", "H", "K", "L", "M", "S", "a", "c", "d", "e", "h", "k", "m", "s", "y">>
CANONICAL == <<"G", "y", "M", "E", "d", "a", "H", "m", "s", "S">>

IsField(item) == item[1] \in Letters /\ item[2] > 0
\* canonicalIndex: the last row of the letter that is short enough.
Rows == [item \in Letters \X (1..5) |->
          TypeRows[Greatest({i \in DOMAIN TypeRows : TypeRows[i][1] = item[1] /\ (TypeRows[i][4] <= item[2] \/ TypeRows[i - 1][1] # item[1])})]]
Row(item) == Rows[item]
FirstRow(field) == TypeRows[Least({i \in DOMAIN TypeRows : TypeRows[i][2] = field})]
FieldOf(item) == Row(item)[2]
Empty == [ch |-> "", len |-> 0, bch |-> "", blen |-> 0, type |-> 0]
Entry(item, row) == [ch |-> item[1], len |-> item[2], bch |-> row[1], blen |-> row[4],
                     type |-> IF row[3] > 0 THEN row[3] + item[2] ELSE row[3]]
First(field) == LET row == FirstRow(field) IN Entry(<<row[1], 1>>, row)
\* skeletonOf: the fields of a pattern, the last of each; seconds with a fraction
\* of a minute; a day period with twelve hours, and none with twenty-four.
SkeletonOf(items) ==
  LET put(s, item) == IF IsField(item) THEN [s EXCEPT ![FieldOf(item)] = Entry(item, Row(item))] ELSE s
      seconds(s) == IF s[MINUTE].len > 0 /\ s[FRACTION].len > 0 /\ s[SECOND].len = 0 THEN [s EXCEPT ![SECOND] = First(SECOND)] ELSE s
      period(s) == CASE s[HOUR].len = 0 -> s
                     [] s[HOUR].ch \in {"h", "K"} -> IF s[DAYPERIOD].len = 0 THEN [s EXCEPT ![DAYPERIOD] = First(DAYPERIOD)] ELSE s
                     [] OTHER -> [s EXCEPT ![DAYPERIOD] = Empty]
  IN  period(seconds(FoldLeft(put, [f \in FieldSet |-> Empty], items)))
Base(s) == [f \in FieldSet |-> <<s[f].bch, s[f].blen>>]
SameOriginal(a, b) == \A f \in FieldSet : a[f].ch = b[f].ch /\ a[f].len = b[f].len
AlikeTypes(a, b) == \A f \in FieldSet : a[f].type = b[f].type
FirstChar(s) == LET has == {f \in FieldSet : s[f].blen > 0} IN IF has = {} THEN "" ELSE s[Least(has)].bch

\* distance: how far apart the fields they both have are; those only one has are
\* farther, above all one that was not asked for.
Distance(req, other, mask) ==
  LET my(f) == IF f \in mask THEN req[f].type ELSE 0
      extra == {f \in FieldSet : my(f) = 0 /\ other[f].type # 0}
      missing == {f \in FieldSet : my(f) # 0 /\ other[f].type = 0}
      between(f) == IF f \in extra \cup missing THEN 0 ELSE Magnitude(my(f) - other[f].type)
  IN  [missing |-> missing, extra |-> extra,
       sum |-> EXTRA_FIELD * Cardinality(extra) + MISSING_FIELD * Cardinality(missing)
               + FoldLeft(LAMBDA n, f : n + between(f), 0, FieldList)]

-----------------------------------------------------------------------------
(* PatternMap: for each first letter, patterns in the order added.         *)
NoPatterns == [c \in ToSet(Boot) |-> <<>>]
InMap(map, s) == IF FirstChar(s) = "" THEN <<>> ELSE map[FirstChar(s)]
FromBase(map, s) == SelectSeq(InMap(map, s), LAMBDA e : Base(e.skel) = Base(s))
FromSkeleton(map, s) == SelectSeq(InMap(map, s), LAMBDA e : SameOriginal(e.skel, s))
Add(map, s, pattern, specified) ==
  LET entry == [skel |-> s, pattern |-> pattern, specified |-> specified]
      list == InMap(map, s)
      same == {i \in DOMAIN list : Base(list[i].skel) = Base(s) /\ AlikeTypes(list[i].skel, s)}
      new == IF same = {} THEN Append(list, entry)
             ELSE [list EXCEPT ![Least(same)].pattern = pattern, ![Least(same)].specified = specified]
  IN  IF FirstChar(s) = "" THEN map ELSE [map EXCEPT ![FirstChar(s)] = new]
\* addPattern: a pattern of the locale's own list goes before one of the styles,
\* but not before another of the list.
AddPattern(map, pattern, skeleton, override) ==
  LET given == skeleton # <<>>
      stays(base, same) == \/ /\ base # <<>> /\ ~override /\ (~base[1].specified \/ given)
                           \/ /\ same # <<>> /\ (~override \/ (given /\ same[1].specified))
      of(s) == IF stays(FromBase(map, s), FromSkeleton(map, s)) THEN map ELSE Add(map, s, pattern, given)
  IN  of(SkeletonOf(IF given THEN skeleton ELSE pattern))
Generator(loc) ==
  LET plain(map, pattern) == AddPattern(map, pattern, <<>>, FALSE)
      letters == [i \in DOMAIN CANONICAL |-> <<<<CANONICAL[i], 1>>>>]
      listed(map, e) == AddPattern(map, e.pattern, e.skeleton, TRUE)
  IN  [map |-> FoldLeft(listed, FoldLeft(plain, FoldLeft(plain, NoPatterns, letters), loc.styles), loc.available),
       hourChar |-> loc.hour, dateTime |-> loc.dateTime]

-----------------------------------------------------------------------------
(* The best pattern.                                                       *)
\* bestRaw: the nearest, of the nearest the one whose missing are greatest as a mask.
Mask(fields) == FoldLeft(LAMBDA n, f : n + (IF f \in fields THEN 2 ^ f ELSE 0), 0, FieldList)
Better(d, best) == d.sum < best.sum \/ (d.sum = best.sum /\ Mask(best.missing) < Mask(d.missing))
BestRaw(g, req, mask) ==
  LET all == FlattenSeq([b \in DOMAIN Boot |-> g.map[Boot[b]]])
      with(m, i, d) == IF m.found > 0 /\ ~Better(d, m.d) THEN m ELSE [found |-> i, d |-> d]
      step(m, i) == IF m.found > 0 /\ m.d.sum = 0 THEN m ELSE with(m, i, Distance(req, all[i].skel, mask))
      best(m) == [entry |-> FromSkeleton(g.map, all[m.found].skel)[1], missing |-> m.d.missing, extra |-> m.d.extra]
  IN  best(FoldLeft(step, [found |-> 0, d |-> [sum |-> 0, missing |-> {}, extra |-> {}]], [i \in DOMAIN all |-> i]))

\* adjust: each field as long as it was asked for, but times, and what the pattern
\* has by itself for a skeleton as long as that; the hour as the locale has it.
HourLetter(g, asked, own, capJ) ==
  LET same == {<<"h", "K">>, <<"H", "k">>, <<"k", "H">>, <<"K", "h">>}
  IN  IF capJ \/ asked = g.hourChar \/ <<asked, g.hourChar>> \in same THEN g.hourChar ELSE own
Adjusted(g, item, f, req, entry, flags) ==
  LET asked == req[f]
      len == IF asked.ch = "E" /\ asked.len < 3 THEN 3 ELSE asked.len
      numeric == Row(item)[3] > 0
      kept == \/ (f = HOUR /\ ~flags.matchHour) \/ f \in {MINUTE, SECOND}
              \/ /\ entry.specified /\ asked.ch \notin {"c", "e"}
                 /\ (entry.skel[f].len = len \/ numeric # (asked.type > 0))
      new == IF kept THEN item[2] ELSE len
      letter == IF f \notin {HOUR, MONTH, WEEKDAY, YEAR} THEN asked.ch ELSE item[1]
      short == IF letter = "E" /\ new < 3 THEN "e" ELSE letter
  IN  <<IF f = HOUR THEN HourLetter(g, asked.ch, short, flags.capJ) ELSE short, new>>
Adjust(g, pattern, req, entry, flags) ==
  LET field(item, f) == CASE flags.fraction /\ f = SECOND -> <<item, Literal("."), <<req[FRACTION].ch, req[FRACTION].len>>>>
                          [] (~flags.fraction \/ f # SECOND) /\ req[f].type # 0 -> <<Adjusted(g, item, f, req, entry, flags)>>
                          [] OTHER -> <<item>>
      of(item) == IF IsField(item) THEN field(item, FieldOf(item)) ELSE <<item>>
  IN  FlattenSeq([i \in DOMAIN pattern |-> of(pattern[i])])

\* bestAppending: the nearest pattern, and once more the nearest of what it does not
\* have put after it; a fraction goes into the seconds that are there.
AppendItem(result, more, field) == result \o <<Literal("["), Literal(ToString(field))>> \o more \o <<Literal("]")>>
BestAppending(g, req, fields, flags) ==
  LET inSeconds(m) == m.result # <<>> /\ m.missing \cap {SECOND, FRACTION} = {FRACTION} /\ {SECOND, FRACTION} \subseteq fields
      \* what there is to fit, and how much of what is asked for it has
      fraction(m) == [pattern |-> m.result, entry |-> m.entry, missing |-> m.missing \ {FRACTION}, flags |-> [flags EXCEPT !.fraction = TRUE]]
      nearest(b) == [pattern |-> b.entry.pattern, entry |-> b.entry, missing |-> b.missing, flags |-> flags]
      found(m) == [m EXCEPT !.b = IF inSeconds(m) THEN fraction(m) ELSE nearest(BestRaw(g, req, m.missing))]
      put(m, fit) == IF m.b.flags.fraction \/ m.result = <<>> THEN fit
                     ELSE AppendItem(m.result, fit, IF m.missing \subseteq m.b.missing THEN 0 ELSE Greatest(m.missing \ m.b.missing))
      joined(m) == [m EXCEPT !.result = put(m, Adjust(g, m.b.pattern, req, m.b.entry, m.b.flags)),
                             !.missing = m.b.missing, !.entry = m.b.entry,
                             !.last = IF m.b.flags.fraction \/ m.result = <<>> THEN @ ELSE m.b.missing]
      done(m) == m.missing = {} \/ m.last = m.missing
      step(m, k) == CASE done(m) -> m [] ~done(m) /\ k = "find" -> found(m) [] OTHER -> joined(m)
  IN  FoldLeft(step, [result |-> <<>>, missing |-> fields, last |-> {}, entry |-> <<>>, b |-> <<>>],
               <<"find", "join", "find", "join", "find", "join">>).result

\* mapMeta: j is the locale's hour, with a day period if it is of twelve; J is an
\* hour without one.
MapMeta(g, form) ==
  LET j(n) == LET extra == n - 1
                  period == IF g.hourChar \in {"H", "k"} THEN 0 ELSE IF extra < 2 THEN 1 ELSE 3 + extra \div 2
              IN  (IF period > 0 THEN <<<<"a", period>>>> ELSE <<>>) \o <<<<g.hourChar, 1 + (extra % 2)>>>>
      of(item) == CASE item[1] = "j" -> j(item[2]) [] item[1] = "J" -> <<<<"H", item[2]>>>> [] OTHER -> <<item>>
  IN  FlattenSeq([i \in DOMAIN form |-> of(form[i])])
Style(req) == CASE req[MONTH].blen = 4 -> IF req[WEEKDAY].blen > 0 THEN 1 ELSE 2
                [] req[MONTH].blen = 3 -> 3
                [] OTHER -> 4
Glued(glue, date, time) == FlattenSeq([i \in DOMAIN glue |-> CASE glue[i] = "date" -> date [] glue[i] = "time" -> time [] OTHER -> <<Literal(glue[i])>>])
\* bestPattern: of what a form asks for.
Asked(g, form) == SkeletonOf(MapMeta(g, form))
Flags(form, matchHour) == [capJ |-> \E i \in DOMAIN form : form[i][1] = "J", fraction |-> FALSE, matchHour |-> matchHour]
BestPattern(g, req, best, flags) ==
  LET joined(p) == IF \E i \in 1..2 : p[i] = <<>> THEN FlattenSeq(p) ELSE Glued(g.dateTime[Style(req)], p[1], p[2])
      parts(asked) == <<asked \cap Dates, asked \cap Times>>
      whole(masks) == joined([i \in 1..2 |-> BestAppending(g, req, masks[i], flags)])
      of(b) == IF b.missing = {} /\ b.extra = {} THEN Adjust(g, b.entry.pattern, req, b.entry, flags)
                    ELSE whole(parts({f \in FieldSet : req[f].type # 0}))
  IN  of(best)
-----------------------------------------------------------------------------
(* The cases: a locale with few patterns and one with many.                *)
F(c, n) == <<c, n>>
Glue == <<<<"date", "at", "time">>, <<"date", "at", "time">>, <<"date", ",", "time">>, <<"time", "date">>>>
Styles == <<<<F("H", 2), Literal(":"), F("m", 2), Literal(":"), F("s", 2)>>, <<F("h", 1), Literal(":"), F("m", 2), F("a", 1)>>,
            <<F("E", 4), F("M", 4), F("d", 1), F("y", 1)>>, <<F("d", 2), F("M", 2), F("y", 2)>>>>
Available(s) == [i \in DOMAIN s |-> [skeleton |-> s[i], pattern |-> Reverse(s[i])]]
Few == <<[skeleton |-> <<F("H", 1), F("m", 1)>>, pattern |-> <<F("H", 2), Literal("h"), F("m", 2)>>],
         [skeleton |-> <<F("M", 4), F("d", 1)>>, pattern |-> <<F("d", 1), Literal("de"), F("L", 4)>>],
         [skeleton |-> <<F("E", 1), F("h", 1), F("m", 1)>>, pattern |-> <<F("E", 3), F("h", 1), F("m", 2), F("a", 1)>>]>>
Many == Available(<<<<F("y", 1), F("M", 1)>>, <<F("y", 1), F("M", 3)>>, <<F("y", 1), F("M", 3), F("d", 1)>>, <<F("G", 1), F("y", 1)>>,
                    <<F("M", 1), F("d", 1)>>, <<F("M", 3), F("d", 1)>>, <<F("E", 1), F("d", 1)>>, <<F("M", 1), F("E", 1), F("d", 1)>>, <<F("M", 3), F("E", 1), F("d", 1)>>,
                    <<F("a", 1), F("h", 1)>>, <<F("a", 1), F("h", 1), F("m", 1)>>, <<F("H", 1), F("m", 1)>>,
                    <<F("a", 1), F("h", 1), F("m", 1), F("s", 1)>>, <<F("H", 1), F("m", 1), F("s", 1)>>, <<F("m", 1), F("s", 1)>>>>)
Locales == {[styles |-> Styles, hour |-> l[1], dateTime |-> Glue, available |-> l[2]] :
             l \in {<<"H", <<>>>>, <<"h", Few>>, <<"H", Many>>, <<"h", Many>>}}
Generators == [l \in Locales |-> Generator(l)]
FormOf(parts) == FlattenSeq([i \in DOMAIN parts |-> IF parts[i][2] = 0 THEN <<>> ELSE <<parts[i]>>])
DateForms == {FormOf(<<F("G", yd[1]), F("y", yd[2]), m, F("E", ed[1]), F("d", ed[2])>>) :
                yd \in {<<0, 0>>, <<0, 2>>, <<1, 1>>}, m \in {F("M", 0), F("M", 1), F("L", 4)}, ed \in {<<0, 0>>, <<0, 1>>, <<4, 1>>}}
TimeForms == {FormOf(<<h, F("m", ms[1]), F("s", ms[2]), F("S", ms[3])>>) :
                h \in {F("j", 0), F("j", 2), F("h", 1), F("J", 1)}, ms \in {<<0, 0, 0>>, <<2, 0, 0>>, <<2, 1, 0>>, <<2, 1, 3>>, <<2, 0, 3>>}}
Forms == (DateForms \cup TimeForms \cup {d \o t : d \in {x \in DateForms : Len(x) = 3}, t \in {x \in TimeForms : Len(x) = 2}}) \ {<<>>}
PatternCases == [form : Forms, locale : Locales, matchHour : {FALSE}] \cup [form : TimeForms \ {<<>>}, locale : Locales, matchHour : {TRUE}]

\* Nothing is shown that was not asked for, no field twice, and an hour the locale
\* is to choose is the locale's; a locale with patterns for a date and for a time
\* shows all that was asked for, numbers as numbers and names as names.
AllShown(c) ==
  \A g \in {Generators[c.locale]} : \A req \in {Asked(g, c.form)}, flags \in {Flags(c.form, c.matchHour)} : \A best \in {BestRaw(g, req, FieldSet)} :
  LET has(letters) == \E i \in DOMAIN c.form : c.form[i][1] \in letters
      fields(p) == {FieldOf(p[i]) : i \in DOMAIN p}
      asked == {f \in FieldSet : req[f].type # 0} \ (IF has({"J"}) THEN {DAYPERIOD} ELSE {})
  IN  \A p \in {SelectSeq(BestPattern(g, req, best, flags), IsField)} :
        /\ fields(p) \subseteq asked /\ Cardinality(fields(p)) = Len(p)
        /\ has({"j", "J"}) => \A i \in DOMAIN p : FieldOf(p[i]) = HOUR => p[i][1] = g.hourChar
        /\ c.locale.available = Many => /\ fields(p) = asked
                                       /\ \A i \in DOMAIN p : (req[FieldOf(p[i])].type > 0) = (Row(p[i])[3] > 0)

-----------------------------------------------------------------------------
-----------------------------------------------------------------------------
(* uhash: open addressing, the second hash from the same code; a table     *)
(* more than half full is made again at the next size.                     *)
Vacant == -1
Primes == <<5, 7, 13, 31>>
Table(size) == [size |-> size, count |-> 0,
                slots |-> [i \in 0..Primes[size] - 1 |-> [code |-> Vacant, key |-> Vacant]]]
HighWaterMark(h) == Primes[h.size] \div 2
\* The slot a key is in, or the one it would go in.
Find(h, key, code) ==
  LET length == Primes[h.size]
      jump == (code % (length - 1)) + 1
      probe[k \in 0..length] ==
        LET i == (code + k * jump) % length
        IN  IF k = length THEN code % length
            ELSE IF h.slots[i].code = Vacant \/ h.slots[i] = [code |-> code, key |-> key] THEN i
            ELSE probe[k + 1]
  IN  probe[0]
Put(h, key, code) ==
  LET i == Find(h, key, code)
  IN  [h EXCEPT !.slots[i] = [code |-> code, key |-> key],
                !.count = @ + (IF h.slots[i].code = Vacant THEN 1 ELSE 0)]
Rehash(h) ==
  FoldLeft(LAMBDA t, i : LET s == h.slots[Primes[h.size] - i]
                         IN  IF s.code = Vacant THEN t ELSE Put(t, s.key, s.code),
           Table(h.size + 1), [i \in 1..Primes[h.size] |-> i])
PutInto(h, key, code) == Put(IF h.count > HighWaterMark(h) THEN Rehash(h) ELSE h, key, code)

-----------------------------------------------------------------------------
(* The fields, most significant first, and their levels.                   *)
FieldLetters == <<"G", "y", "M", "d", "a", "h", "m", "s">>
Level(c) == CASE c = "G" -> 0 [] c = "y" -> 10 [] c \in {"M", "L"} -> 20 [] c \in {"d", "E"} -> 30
              [] c \in {"a", "b"} -> 40 [] c \in {"h", "H", "K", "k"} -> 50 [] c = "m" -> 60 [] c = "s" -> 70
              [] OTHER -> -1
HourLetters == {"h", "H", "K", "k"}
Widths(p) == [c \in {p[i][1] : i \in DOMAIN p} |-> p[CHOOSE i \in DOMAIN p : p[i][1] = c][2]]
Width(w, c) == IF c \in DOMAIN w THEN w[c] ELSE 0
IsRun(run) == Level(run[1]) >= 0
\* isFieldUnitIgnored: of these letters none is of the field or a finer one.
\* Mutant: the field itself is ignored too.
FieldUnitIgnoredAtLevel(letters, field) == \A c \in letters : Level(field) >= Level(c)
FieldUnitIgnored(letters, field) == \A c \in letters : Level(field) > Level(c)
LettersOf(p) == {p[i][1] : i \in {j \in DOMAIN p : IsRun(p[j])}}

\* The skeleton of info nearest to one, the first of those as near in the order
\* of the table; how they differ: 0 not at all, 1 in widths, 2 in letters of the
\* same meaning, -1 in fields.
Plainer(skeleton) ==
  LET plain(c) == CASE c = "z" -> "v" [] c = "k" -> "H" [] c = "K" -> "h" [] OTHER -> c
      kept == SelectSeq(skeleton, LAMBDA run : run[1] \notin {"a", "b"})
  IN  [i \in DOMAIN kept |-> <<plain(kept[i][1]), kept[i][2]>>]
SkeletonDistance(iw, w) ==
  LET of(a, b, c) == CASE a = b -> 0 [] a # b /\ (a = 0 \/ b = 0) -> 4096
                       [] c = "M" /\ a # 0 /\ b # 0 /\ (a <= 2) # (b <= 2) -> 256
                       [] OTHER -> IF a > b THEN a - b ELSE b - a
      letters == SetToSeq(DOMAIN iw \cup DOMAIN w)
  IN  FoldLeft(LAMBDA sum, c : sum + of(Width(iw, c), Width(w, c), c), 0, letters)
BestSkeleton(info, skeleton) ==
  LET replaced == \E c \in DOMAIN Widths(skeleton) : c \in {"z", "k", "K", "a", "b"}
      found(d, k) ==
        LET diff == CASE d[k] = 0 -> 0 [] d[k] >= 4096 -> -1 [] OTHER -> 1
        IN  [best |-> info[k].skeleton, diff |-> IF replaced /\ diff # -1 THEN 2 ELSE diff]
      nearest(d) == found(d, Least({k \in DOMAIN d : \A j \in DOMAIN d : d[k] <= d[j]}))
      to(input) == nearest([k \in DOMAIN info |-> SkeletonDistance(input, Widths(info[k].skeleton))])
  IN  to(Widths(Plainer(skeleton)))
IntervalPattern(info, skeleton, field) ==
  LET at == {k \in DOMAIN info : info[k].skeleton = skeleton /\ field \in DOMAIN info[k].patterns}
  IN  IF at = {} THEN <<>> ELSE info[CHOOSE k \in at : TRUE].patterns[field]

\* The pattern of the skeleton nearest, its fields as wide as they were asked.
AdjustFieldWidth(inputSkeleton, bestSkeleton, pattern, diff) ==
  LET asked(input, c) ==
        CASE c = "v" /\ "z" \in DOMAIN input -> "z" [] c = "h" /\ "K" \in DOMAIN input -> "K"
          [] c = "H" /\ "k" \in DOMAIN input -> "k" [] c = "a" /\ "b" \in DOMAIN input -> "b"
          [] OTHER -> c
      fieldCount(best, c) == IF c \in {"a", "b"} /\ Width(best, c) = 0 THEN 1 ELSE Width(best, c)
      wide(input, best, c, n, letter) ==
        <<letter, IF IsRun(<<c, n>>) /\ fieldCount(best, c) = n /\ Width(input, c) > n THEN Width(input, c) ELSE n>>
      of(input, best, letter, n) == wide(input, best, IF letter = "L" THEN "M" ELSE letter, n, letter)
      all(input, best) == [i \in DOMAIN pattern |->
                             of(input, best, IF diff = 2 THEN asked(input, pattern[i][1]) ELSE pattern[i][1], pattern[i][2])]
  IN  all(Widths(inputSkeleton), Widths(bestSkeleton))

\* splitPatternInto2Part: where the first field is that was there before.
\* Mutant: only fields side by side are compared.
SplitPointNear(p) ==
  Least({i \in DOMAIN p : i > 1 /\ IsRun(p[i]) /\ p[i - 1][1] = p[i][1]} \cup {Len(p) + 1})
SplitPoint(p) ==
  Least({i \in DOMAIN p : IsRun(p[i]) /\ \E j \in 1..i - 1 : p[j][1] = p[i][1]} \cup {Len(p) + 1})
Interval(p, laterFirst) ==
  LET at == SplitPoint(p)
  IN  [first |-> SubSeq(p, 1, at - 1), second |-> SubSeq(p, at, Len(p)), laterFirst |-> laterFirst]

-----------------------------------------------------------------------------
(* What DateIntervalFormat makes of a skeleton: r has the pattern of one   *)
(* date, those of the date and of the time apart, the glue that joins them *)
(* and the interval of each field.                                         *)
Lit(text) == <<text, 1>>
\* The generator's pattern of a skeleton, in the locale's order.
BestFor(skeleton) ==
  LET w == Widths(skeleton)
      in(letters) == SelectSeq([i \in DOMAIN letters |-> <<letters[i], Width(w, letters[i])>>], LAMBDA run : run[2] > 0)
      spaced(p) == FlattenSeq([i \in DOMAIN p |-> IF i = 1 THEN <<p[i]>> ELSE <<Lit(" "), p[i]>>])
      date == in(<<"E", "M", "d", "y", "G">>)
      clock == in(<<"h", "H", "K", "k", "m", "s", "a", "b">>)
      twelve == \E i \in DOMAIN clock : clock[i][1] \in {"h", "K"}
      time == IF twelve /\ \A i \in DOMAIN clock : clock[i][1] \notin {"a", "b"} THEN Append(clock, <<"a", 1>>) ELSE clock
  IN  spaced(date) \o (IF date # <<>> /\ time # <<>> THEN << Lit(", ") >> ELSE <<>>) \o spaced(time)
\* A skeleton with a field's letter before it.
With(c, skeleton) ==
  IF skeleton # <<>> /\ skeleton[1][1] = c THEN << <<c, skeleton[1][2] + 1>> >> \o Tail(skeleton) ELSE << <<c, 1>> >> \o skeleton
In(letters, skeleton) == SelectSeq(skeleton, LAMBDA run : run[1] \in letters)

\* normalizeHourMetacharacters and getDateTimeSkeleton: the hour is the one the
\* locale writes, with a day period if it is one of twelve; the date's letters
\* and the time's, as they are and put in order.
NormalizeHours(skeleton) ==
  LET hour == In(HourLetters, skeleton)
      period == In({"a", "b"}, skeleton)
      widest == {hour[i][2] : i \in DOMAIN hour} \cup {period[i][2] : i \in DOMAIN period}
      wide == IF \E n \in widest : n >= 5 THEN 5 ELSE IF \E n \in widest : n >= 3 THEN 3 ELSE 1
      by == IF period = <<>> THEN "a" ELSE period[1][1]
      rest == SelectSeq(skeleton, LAMBDA run : run[1] \notin HourLetters \cup {"a", "b"})
  IN  IF hour = <<>> THEN skeleton
      ELSE rest \o (IF hour[1][1] \in {"h", "K"} THEN << <<by, wide>> >> ELSE <<>>) \o << <<hour[1][1], 1>> >>
DateTimeSkeleton(skeleton) ==
  LET w == Widths(skeleton)
      some(c, n) == IF c \in DOMAIN w THEN << <<c, n>> >> ELSE <<>>
      least(a, b) == IF a < b THEN a ELSE b
  IN  [date |-> In({"G", "y", "M", "E", "d"}, skeleton),
       ndate |-> some("G", Width(w, "G")) \o some("y", Width(w, "y"))
                 \o some("M", IF Width(w, "M") < 3 THEN 1 ELSE least(Width(w, "M"), 5))
                 \o some("E", IF Width(w, "E") <= 3 THEN 1 ELSE least(Width(w, "E"), 5)) \o some("d", 1),
       time |-> In(HourLetters \cup {"m", "s", "a", "b"}, skeleton),
       ntime |-> In({"s", "a", "b"}, skeleton) \o In(HourLetters, skeleton) \o some("m", 1)]

\* setIntervalPattern: from a whole pattern; and from the info, where a date's
\* field, when the skeleton nearest has no pattern for it, is looked for with the
\* field's letter before the skeleton.  st is the skeleton, its nearest, the two
\* extended, whether they have been, and whether they stay so.
Set(r, field, pattern) == [r EXCEPT !.intervals[field] = Interval(pattern, r.laterFirst)]
SetAdjusted(r, field, skeleton, best, pattern, diff) ==
  Set(r, field, IF diff # 0 THEN AdjustFieldWidth(skeleton, best, pattern, diff) ELSE pattern)
Extend(st, field) ==
  LET more(skeleton, best) ==
        [st EXCEPT !.extended = skeleton, !.extendedBest = best,
                   !.skeleton = IF st.aliased THEN skeleton ELSE @, !.best = IF st.aliased THEN best ELSE @]
  IN  more(With(field, st.skeleton), With(field, st.best))
SetFromInfo(r, field, st) ==
  LET got(s, to, is) == [r |-> to, st |-> s, extended |-> is]
      extended(s, p, other) ==
        CASE p # <<>> -> got(s, SetAdjusted(r, field, s.skeleton, s.best, p, s.diff), TRUE)
          [] p = <<>> /\ s.diff = 0 /\ other.diff # -1 /\ IntervalPattern(r.info, other.best, field) # <<>> ->
               got(s, SetAdjusted(r, field, s.skeleton, other.best, IntervalPattern(r.info, other.best, field), other.diff), TRUE)
          [] OTHER -> got(s, r, FALSE)
      extend(s) == extended(s, IntervalPattern(r.info, s.extendedBest, field), BestSkeleton(r.info, s.extendedBest))
      of(p, hours) ==
        CASE p # <<>> -> got(st, SetAdjusted(r, field, st.skeleton, st.best, p, st.diff), st.extended # <<>>)
          [] p = <<>> /\ FieldUnitIgnored(LettersOf(st.best), field) -> got(st, r, FALSE)
          [] p = <<>> /\ ~FieldUnitIgnored(LettersOf(st.best), field) /\ field = "a" ->
               got(st, IF hours # <<>> THEN SetAdjusted(r, field, st.skeleton, st.best, hours, st.diff) ELSE r, FALSE)
          [] OTHER -> IF st.isTime THEN got(st, r, FALSE) ELSE extend(Extend(st, field))
  IN  of(IntervalPattern(r.info, st.best, field), IntervalPattern(r.info, st.best, "h"))
\* setSeparateDateTimePtn: the fields of the time if there is one, or the date's.
\* A month found by extending has the year and the era begin from there.
Separate(r, ndate, ntime) ==
  LET both == [r EXCEPT !.datePattern = IF ndate = <<>> THEN @ ELSE BestFor(ndate),
                        !.timePattern = IF ntime = <<>> THEN @ ELSE BestFor(ntime)]
      start(skeleton, b) == [skeleton |-> skeleton, best |-> b.best, diff |-> b.diff, isTime |-> ntime # <<>>,
                             extended |-> <<>>, extendedBest |-> <<>>, aliased |-> FALSE]
      month(got, field) ==
        IF field # "M" \/ ~got.extended THEN got
        ELSE [got EXCEPT !.st.best = got.st.extendedBest, !.st.skeleton = got.st.extended, !.st.aliased = TRUE]
      then(got, field) == month(SetFromInfo(got.r, field, got.st), field)
      fields(got) == FoldLeft(then, got, IF ntime # <<>> THEN <<"m", "h", "a">> ELSE <<"d", "M", "y", "G">>)
      of(skeleton, b) == IF b.diff = -1 THEN [r |-> both, found |-> FALSE]
                         ELSE [r |-> fields([r |-> both, st |-> start(skeleton, b), extended |-> FALSE]).r, found |-> TRUE]
      from(skeleton) == of(skeleton, BestSkeleton(r.info, skeleton))
  IN  from(IF ntime # <<>> THEN ntime ELSE ndate)

\* initializePattern.  Dates that differ are written whole with the time, the
\* date's fields asked for that the skeleton has not; a time's interval has the
\* date beside it.
\* Mutant: the date is not put beside it.
WithoutDate(r, skeleton, date) == r
WithDate(r, skeleton, date) ==
  LET second(got, c) ==
        IF c \in LettersOf(date) THEN got
        ELSE [skeleton |-> With(c, got.skeleton),
              r |-> [got.r EXCEPT !.intervals[c].second = BestFor(With(c, got.skeleton))]]
      glued(s, field) ==
        LET t == s.intervals[field]
        IN  IF t.first = <<>> THEN s
            ELSE [s EXCEPT !.intervals[field] =
                    Interval(IF s.timeFirst THEN t.first \o t.second \o << Lit(", ") >> \o BestFor(date)
                             ELSE BestFor(date) \o << Lit(", ") >> \o t.first \o t.second, t.laterFirst)]
  IN  FoldLeft(glued, FoldLeft(second, [r |-> r, skeleton |-> skeleton], <<"d", "M", "y", "G">>).r, <<"a", "h", "m">>)
TimeOnly(r, time) ==
  LET whole == BestFor(<< <<"y", 1>>, <<"M", 1>>, <<"d", 1>> >> \o time)
      era == BestFor(<< <<"G", 1>>, <<"y", 1>>, <<"M", 1>>, <<"d", 1>> >> \o time)
  IN  [r EXCEPT !.intervals["d"].second = whole, !.intervals["M"].second = whole,
                !.intervals["y"].second = whole, !.intervals["G"].second = era]
Initialize(r, skeleton) ==
  LET of(sk, got) == CASE sk.time # <<>> /\ sk.date = <<>> -> TimeOnly(got.r, sk.time)
                       [] sk.time # <<>> /\ sk.date # <<>> /\ got.found -> WithDate(got.r, skeleton, sk.date)
                       [] OTHER -> got.r
      from(sk) == of(sk, Separate(r, sk.ndate, sk.ntime))
  IN  from(DateTimeSkeleton(NormalizeHours(skeleton)))
Create(info, skeleton, laterFirst, timeFirst) ==
  Initialize([info |-> info, laterFirst |-> laterFirst, timeFirst |-> timeFirst, pattern |-> BestFor(skeleton),
              datePattern |-> <<>>, timePattern |-> <<>>,
              intervals |-> [f \in {"G", "y", "M", "d", "a", "h", "m", "s"} |-> [first |-> <<>>, second |-> <<>>, laterFirst |-> laterFirst]]],
             skeleton)

-----------------------------------------------------------------------------
(* Two dates written: a text is a sequence of its fields, each with the    *)
(* date it is written of, and of its literals.                             *)
Render(pattern, who) == [i \in DOMAIN pattern |-> [run |-> pattern[i], who |-> IF IsRun(pattern[i]) THEN who ELSE 0]]
LitText(text) == << [run |-> Lit(text), who |-> 0] >>
FallbackRange(r, pattern) ==
  LET two(p, q) == Render(pattern, p) \o LitText(" - ") \o Render(pattern, q)
  IN  [text |-> IF r.laterFirst THEN two(2, 1) ELSE two(1, 2), first |-> IF r.laterFirst THEN 2 ELSE 1]
Fallback(r, pattern, sameDay) ==
  LET times == FallbackRange(r, r.timePattern)
      date == Render(r.datePattern, 1)
  IN  IF sameDay /\ r.datePattern # <<>> /\ r.timePattern # <<>>
      THEN [times EXCEPT !.text = IF r.timeFirst THEN @ \o LitText(", ") \o date ELSE date \o LitText(", ") \o @]
      ELSE FallbackRange(r, pattern)

\* The largest field two dates differ in, of those they differ in: the era, year,
\* month, day, half of the day, hour of the half, minute or second.
Same == "same"
LargestDifference(differ) ==
  IF differ = {} THEN Same ELSE FieldLetters[Least({i \in DOMAIN FieldLetters : FieldLetters[i] \in differ})]

NoRange == [text |-> <<>>, first |-> 0]
\* formatImpl.
FormatImpl(r, field) ==
  LET sameDay == field \in {"a", "h", "m", "s"}
      later(i) == IF i.laterFirst THEN 2 ELSE 1
      of(i) == CASE i.first = <<>> /\ i.second = <<>> ->
                      IF FieldUnitIgnored(LettersOf(r.pattern), field) THEN NoRange ELSE Fallback(r, r.pattern, sameDay)
                 [] i.first = <<>> /\ i.second # <<>> -> Fallback(r, i.second, sameDay)
                 [] OTHER -> [text |-> Render(i.first, later(i)) \o Render(i.second, 3 - later(i)), first |-> later(i)]
  IN  IF field = Same THEN NoRange ELSE of(r.intervals[field])

\* addOverlapSpans: what is between the first and the last field written twice is
\* of the one date or of the other; and toParts, the source of each part.
Spans(out) ==
  LET fields == {i \in DOMAIN out.text : out.text[i].who # 0}
      letter(i) == out.text[i].run[1]
      pairs(fs) == {<<i, Least({j \in fs : j > i /\ letter(j) = letter(i)})>> :
                      i \in {k \in fs : \E j \in fs : j > k /\ letter(j) = letter(k)}}
      most(S) == CHOOSE x \in S : \A y \in S : x >= y
      of(ps) == IF ps = {} THEN <<>>
                ELSE << [date |-> out.first, from |-> Least({p[1] : p \in ps}), to |-> most({p[1] : p \in ps})],
                        [date |-> 3 - out.first, from |-> Least({p[2] : p \in ps}), to |-> most({p[2] : p \in ps})] >>
  IN  of(pairs(fields))
Source(spans, i) ==
  LET in(d) == \E k \in DOMAIN spans : spans[k].date = d /\ spans[k].from <= i /\ i <= spans[k].to
  IN  IF in(1) THEN 1 ELSE IF in(2) THEN 2 ELSE 0

-----------------------------------------------------------------------------
(* The cases: an English-like locale's intervals, all or a few of them.    *)
Dash == <<Lit(" - ")>>
Slash(letters) == FlattenSeq([i \in DOMAIN letters |-> IF i = 1 THEN << <<letters[i], 1>> >> ELSE << Lit("/"), <<letters[i], 1>> >>])
Twice(p) == p \o Dash \o p
MMM == << <<"M", 3>> >>
Whole == Twice(Slash(<<"M", "d", "y">>))
English ==
  << [skeleton |-> << <<"d", 1>> >>, patterns |-> ("d" :> Twice(Slash(<<"d">>)))],
     [skeleton |-> << <<"M", 1>> >>, patterns |-> ("M" :> Twice(Slash(<<"M">>)))],
     [skeleton |-> << <<"M", 1>>, <<"d", 1>> >>, patterns |-> ("M" :> Twice(Slash(<<"M", "d">>)) @@ "d" :> Twice(Slash(<<"M", "d">>)))],
     [skeleton |-> << <<"y", 1>>, <<"M", 1>>, <<"d", 1>> >>, patterns |-> [f \in {"y", "M", "d"} |-> Whole]],
     [skeleton |-> << <<"G", 1>>, <<"y", 1>>, <<"M", 1>>, <<"d", 1>> >>,
      patterns |-> [f \in {"G", "y", "M", "d"} |-> Twice(Slash(<<"M", "d", "y", "G">>))]],
     [skeleton |-> << <<"y", 1>>, <<"M", 1>> >>, patterns |-> [f \in {"y", "M"} |-> Twice(Slash(<<"M", "y">>))]],
     [skeleton |-> << <<"y", 1>> >>, patterns |-> ("y" :> Twice(Slash(<<"y">>)))],
     [skeleton |-> << <<"M", 3>>, <<"d", 1>> >>,
      patterns |-> ("M" :> Twice(MMM \o << <<"d", 1>> >>) @@ "d" :> MMM \o Twice(Slash(<<"d">>)))],
     [skeleton |-> << <<"y", 1>>, <<"M", 3>> >>,
      patterns |-> ("M" :> Twice(MMM) \o << <<"y", 1>> >> @@ "y" :> Twice(MMM \o << <<"y", 1>> >>))],
     [skeleton |-> << <<"y", 1>>, <<"M", 3>>, <<"d", 1>> >>,
      patterns |-> ("d" :> MMM \o Twice(Slash(<<"d">>)) \o << Lit(", "), <<"y", 1>> >>
                    @@ "M" :> Twice(MMM \o << <<"d", 1>> >>) \o << Lit(", "), <<"y", 1>> >>
                    @@ "y" :> Twice(MMM \o << <<"d", 1>>, Lit(", "), <<"y", 1>> >>))],
     [skeleton |-> << <<"y", 1>>, <<"M", 3>>, <<"E", 1>>, <<"d", 1>> >>,
      patterns |-> ("d" :> Twice(<< <<"E", 3>> >> \o MMM \o << <<"d", 1>> >>) \o << Lit(", "), <<"y", 1>> >>
                    @@ "M" :> Twice(<< <<"E", 3>> >> \o MMM \o << <<"d", 1>> >>) \o << Lit(", "), <<"y", 1>> >>
                    @@ "y" :> Twice(<< <<"E", 3>> >> \o MMM \o << <<"d", 1>>, <<"y", 1>> >>))],
     [skeleton |-> << <<"h", 1>> >>,
      patterns |-> ("a" :> Twice(<< <<"h", 1>>, <<"a", 1>> >>) @@ "h" :> Twice(Slash(<<"h">>)) \o << <<"a", 1>> >>)],
     [skeleton |-> << <<"h", 1>>, <<"m", 1>> >>,
      patterns |-> ("a" :> Twice(<< <<"h", 1>>, Lit(":"), <<"m", 2>>, <<"a", 1>> >>)
                    @@ [f \in {"h", "m"} |-> Twice(<< <<"h", 1>>, Lit(":"), <<"m", 2>> >>) \o << <<"a", 1>> >>])],
     [skeleton |-> << <<"H", 1>> >>, patterns |-> [f \in {"a", "h"} |-> Twice(<< <<"H", 2>> >>)]],
     [skeleton |-> << <<"H", 1>>, <<"m", 1>> >>, patterns |-> [f \in {"a", "h", "m"} |-> Twice(<< <<"H", 2>>, Lit(":"), <<"m", 2>> >>)]] >>
Infos == <<English, Reverse(English), <<English[4], English[10], English[13], English[15]>>, <<English[9], English[5], English[12]>> >>

Skel(text) == [i \in DOMAIN text |-> IF text[i] = "MMM" THEN <<"M", 3>> ELSE IF text[i] = "MMMM" THEN <<"M", 4>> ELSE IF text[i] = "MM" THEN <<"M", 2>> ELSE <<text[i], 1>>]
DateSkeletons == {<<>>, <<"d">>, <<"MMMM">>, <<"y">>, <<"y", "M">>, <<"y", "MMMM">>, <<"MM", "d">>, <<"y", "M", "d">>, <<"y", "MMM", "d">>,
                  <<"y", "MMMM", "d">>, <<"y", "MMM", "E", "d">>, <<"MMM", "E", "d">>, <<"G", "y", "M", "d">>, <<"G", "y", "MMM">>}
TimeSkeletons == {<<>>, <<"a", "h">>, <<"a", "h", "m">>, <<"H", "m">>, <<"k">>, <<"b", "K", "m">>, <<"a", "h", "m", "s">>, <<"m", "s">>}
RangeCases == {[info |-> i, skeleton |-> s, laterFirst |-> i % 2 = 0, timeFirst |-> i > 2] :
                 i \in DOMAIN Infos, s \in {Skel(d \o t) : d \in DateSkeletons, t \in TimeSkeletons} \ {<<>>}}
\* Two dates are as the fields they differ in.
Value(differ, c) ==
  CASE c \in {"d", "E"} -> IF c = "d" THEN "d" \in differ ELSE differ \cap {"G", "y", "M", "d"} # {}
    [] c \in {"M", "L"} -> "M" \in differ
    [] c \in {"a", "b"} -> "a" \in differ
    [] c \in {"h", "K"} -> "h" \in differ
    [] c \in {"H", "k"} -> differ \cap {"a", "h"} # {}
    [] OTHER -> c \in differ
Kind(c) == IF c = "L" THEN "M" ELSE IF c = "b" THEN "a" ELSE IF c \in HourLetters THEN "h" ELSE c

\* Two dates written as a range: each field the formatter writes is in it, and
\* one they differ in is there for both; one date is written instead only where
\* the formatter would write both the same; and a part said to be of one of them
\* has nothing the other would be written with differently.
ToldOf(pattern, out, differ) ==
  \A i \in DOMAIN pattern : IsRun(pattern[i]) =>
    LET written == {out.text[k].who : k \in {j \in DOMAIN out.text : out.text[j].who # 0 /\ Kind(out.text[j].run[1]) = Kind(pattern[i][1])}}
    IN  IF Value(differ, pattern[i][1]) THEN written = {1, 2} ELSE written # {}
SourcesTrue(out, spans, differ) ==
  \A i \in DOMAIN out.text :
    LET item == out.text[i]
        from == Source(spans, i)
    IN  item.who # 0 /\ Value(differ, item.run[1]) => from = item.who
RangeTold(r, differ) ==
  LET of(out, spans) ==
        IF spans = <<>> THEN \A i \in DOMAIN r.pattern : IsRun(r.pattern[i]) => ~Value(differ, r.pattern[i][1])
        ELSE ToldOf(r.pattern, out, differ) /\ SourcesTrue(out, spans, differ)
      written(out) == of(out, Spans(out))
  IN  written(FormatImpl(r, LargestDifference(differ)))
Differences ==
  LET from(i) == {FieldLetters[j] : j \in i..Len(FieldLetters)}
  IN  {{}} \cup {{FieldLetters[i]} \cup {FieldLetters[j]} : i, j \in DOMAIN FieldLetters} \cup {from(i) : i \in DOMAIN FieldLetters}
           \cup {from(i) \ {FieldLetters[j]} : i, j \in DOMAIN FieldLetters}
RangesTold(c) ==
  LET all(r) == \A differ \in Differences : RangeTold(r, differ)
  IN  all(Create(Infos[c.info], c.skeleton, c.laterFirst, c.timeFirst))

\* What is put in the table is found, however the codes fall and the table grew,
\* and all of it is gone through.
HashCases == UNION {[1..n -> 0..5] : n \in 0..5}
PutAll(codes) == FoldLeft(LAMBDA h, key : PutInto(h, key, codes[key]), Table(1), [k \in DOMAIN codes |-> k])
AllFound(codes) ==
  LET of(h) == /\ \A key \in DOMAIN codes : h.slots[Find(h, key, codes[key])] = [code |-> codes[key], key |-> key]
               /\ \A key \in DOMAIN codes : Cardinality({i \in DOMAIN h.slots : h.slots[i].key = key}) = 1
               /\ h.count = Len(codes)
  IN  of(PutAll(codes))
=============================================================================
