------------------------------ MODULE SajuEngine ------------------------------
(***************************************************************************)
(* compute_chart: the four pillars of a birth.  Stems and branches are     *)
(* their positions in STEMS_ORDER (0 .. 9) and BRANCHES_ORDER (0 .. 11),   *)
(* so that a pillar is a pair of a cycle of sixty.  The chart hash is a    *)
(* digest of the pillars and the engine version and is not modelled apart  *)
(* from them.                                                              *)
(*                                                                         *)
(* The state is the civil day somebody is born on, and it advances a day   *)
(* at a time, so that what the tables say of one day can be compared with  *)
(* what they say of the next.                                              *)
(***************************************************************************)
EXTENDS Integers

CONSTANTS FirstYear, LastYear   \* bounds of the calendar that is walked

ASSUME CalendarAssumption == FirstYear \in Nat /\ LastYear \in Nat

VARIABLE born                   \* the civil (Gregorian) day of birth

-----------------------------------------------------------------------------
(* Stems, branches and elements *)

Stems    == 0 .. 9              \* 갑을병정무기경신임계
Branches == 0 .. 11             \* 자축인묘진사오미신유술해
Elements == {"wood", "fire", "earth", "metal", "water"}

STEM_ELEMENT == [s \in Stems |->
    CASE s \in {0, 1} -> "wood"  [] s \in {2, 3} -> "fire"  [] s \in {4, 5} -> "earth"
      [] s \in {6, 7} -> "metal" [] s \in {8, 9} -> "water"]

BRANCH_ELEMENT == [b \in Branches |->
    CASE b \in {2, 3} -> "wood"  [] b \in {5, 6}  -> "fire"
      [] b \in {8, 9} -> "metal" [] b \in {0, 11} -> "water"
      [] b \in {1, 4, 7, 10} -> "earth"]

Pillar == [stem : Stems, branch : Branches, element : Elements]

\* The pillar at a place of the cycle of sixty.
PillarAt(i) ==
    [stem |-> i % 10, branch |-> i % 12, element |-> STEM_ELEMENT[i % 10]]

-----------------------------------------------------------------------------
(* The calendar, a library *)

Leap(y)    == y % 4 = 0 /\ (y % 100 # 0 \/ y % 400 = 0)
Length(y, m) == IF m = 2 THEN (IF Leap(y) THEN 29 ELSE 28)
                ELSE IF m \in {4, 6, 9, 11} THEN 30 ELSE 31

\* Days before the first of each month of a common year.
DaysBefore == <<0, 31, 59, 90, 120, 151, 181, 212, 243, 273, 304, 334>>

\* (solar_date - date(1900, 1, 1)).days
DeltaDays(d) ==
    LET y == d.year - 1 IN
    365 * y + y \div 4 - y \div 100 + y \div 400
    + DaysBefore[d.month] + (IF d.month > 2 /\ Leap(d.year) THEN 1 ELSE 0)
    + d.day - 1 - 693595

Dates == [year : Nat, month : 1 .. 12, day : 1 .. 31]

Tomorrow(d) ==
    IF d.day < Length(d.year, d.month) THEN [d EXCEPT !.day = @ + 1]
    ELSE IF d.month < 12 THEN [d EXCEPT !.month = @ + 1, !.day = 1]
    ELSE [year |-> d.year + 1, month |-> 1, day |-> 1]

-----------------------------------------------------------------------------
(* The pillars *)

YearPillar(y) == PillarAt((y - 1984) % 60)

InStart_OffAtGi == [s \in Stems |-> IF s = 5 THEN 4 ELSE (2 + 2 * s) % 10]

\* The stem of the month of 인, by the stem of the year.
InStart == [s \in Stems |->
    CASE s \in {0, 5} -> 2 [] s \in {1, 6} -> 4 [] s \in {2, 7} -> 6
      [] s \in {3, 8} -> 8 [] s \in {4, 9} -> 0]

MonthPillar_BranchAlone(y, m) ==
    LET stem == (InStart[YearPillar(y).stem] + ((m + 10) % 12)) % 10
    IN  [stem |-> stem, branch |-> (m + 1) % 12, element |-> STEM_ELEMENT[stem]]

MonthPillar(y, m) ==
    LET stem == (InStart[YearPillar(y).stem] + ((m + 11) % 12)) % 10
    IN  [stem |-> stem, branch |-> (m + 1) % 12, element |-> STEM_ELEMENT[stem]]

DayPillar(d) == PillarAt((DeltaDays(d) + 10) % 60)

\* The stem of the hour of 자, by the stem of the day.
JaStart == [s \in Stems |->
    CASE s \in {0, 5} -> 0 [] s \in {1, 6} -> 2 [] s \in {2, 7} -> 4
      [] s \in {3, 8} -> 6 [] s \in {4, 9} -> 8]

\* Blocks of two hours, of which the first begins at 23h of the day before;
\* its second half and 23h of the day itself have the stem of that day.
HourPillar(d, h) ==
    LET branch == ((h + 1) \div 2) % 12
        stem   == (JaStart[DayPillar(d).stem] + branch) % 10
    IN  [stem |-> stem, branch |-> branch, element |-> BRANCH_ELEMENT[branch]]

\* What the library korean_lunar_calendar says of a lunar day: a day of the
\* solar month after the one of the same number, or that there is no such day.
LunarLibrary(d) ==
    {{}} \cup {{[year  |-> IF d.month = 12 THEN d.year + 1 ELSE d.year,
                month |-> (d.month % 12) + 1, day |-> k]} : k \in {1, 15, 28}}

\* Four days for want of the library.
LunarTable ==
    {<<[year |-> 1990, month |-> 1, day |-> 1],  [year |-> 1990, month |-> 1, day |-> 27]>>,
     <<[year |-> 2000, month |-> 1, day |-> 1],  [year |-> 2000, month |-> 2, day |-> 5]>>,
     <<[year |-> 2024, month |-> 1, day |-> 1],  [year |-> 2024, month |-> 2, day |-> 10]>>,
     <<[year |-> 1995, month |-> 8, day |-> 15], [year |-> 1995, month |-> 9, day |-> 9]>>}

\* The library's day; failing that the table's; failing that a ValueError.
LunarToSolar(d) ==
    (UNION LunarLibrary(d)) \cup {p[2] : p \in {q \in LunarTable : q[1] = d}}

\* The solar days a request may mean: its own, or that of its lunar day.
SolarDay(d, is_lunar) == IF is_lunar THEN LunarToSolar(d) ELSE {d}

\* compute_chart; the set is empty where the code raises.
ComputeChart(d, h, is_lunar, time_unknown) ==
    {[year  |-> YearPillar(s.year),
      month |-> MonthPillar(s.year, s.month),
      day   |-> DayPillar(s),
      hour  |-> IF time_unknown THEN {} ELSE {HourPillar(s, h)}] :
        s \in SolarDay(d, is_lunar)}

-----------------------------------------------------------------------------
(* The walk *)

BornInit == born \in [year : {FirstYear}, month : {1}, day : {1}]

NextDay == /\ Tomorrow(born).year <= LastYear
           /\ born' = Tomorrow(born)

BornNext == NextDay

BornSpec == BornInit /\ [][BornNext]_born

-----------------------------------------------------------------------------
(* Properties *)

\* A pair of the cycle of sixty: stem and branch are both odd or both even.
OfSixty(p) == p \in Pillar /\ p.stem % 2 = p.branch % 2

\* The next pillar on the cycle.
Follows(q, p) == q.stem = (p.stem + 1) % 10 /\ q.branch = (p.branch + 1) % 12

\* Whatever is known of a birth, solar or lunar, with or without its hour, the
\* tables of the months and hours agree with the cycle of sixty: of a hundred
\* and twenty pairs of a stem and a branch a chart shows only those that exist.
BornTypeOK ==
    /\ born \in Dates
    /\ \A h \in 0 .. 23, lunar, unknown \in BOOLEAN :
          \A c \in ComputeChart(born, h, lunar, unknown) :
              \A p \in {c.year, c.month, c.day} \cup c.hour : OfSixty(p)

\* From one day to the next each pillar stays or moves one place on the cycle,
\* across the ends of months and years too: the day always moves, the month
\* and the year with the calendar, and the hours of a day go on from those of
\* the day before.
PillarsTurn ==
    [][LET a == born  b == born'  IN
       /\ Follows(DayPillar(b), DayPillar(a))
       /\ IF a.month = b.month
          THEN MonthPillar(b.year, b.month) = MonthPillar(a.year, a.month)
          ELSE Follows(MonthPillar(b.year, b.month), MonthPillar(a.year, a.month))
       /\ IF a.year = b.year THEN YearPillar(b.year) = YearPillar(a.year)
          ELSE Follows(YearPillar(b.year), YearPillar(a.year))
       /\ Follows(HourPillar(b, 0), HourPillar(a, 22))]_born
=============================================================================
