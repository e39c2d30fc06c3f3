------------------------------ MODULE Calendar ------------------------------
(***************************************************************************)
(* Birthdays and what they bring (pdr-identity): dates of the civil        *)
(* calendar, the age at a moment, the midnight on which somebody turns so  *)
(* many years, what is announced on it, and until when a guardian and a    *)
(* student have to decide.                                                 *)
(*                                                                         *)
(* A date is [year, month, day]; a moment counts parts of a day.           *)
(***************************************************************************)
EXTENDS Maturity, FiniteSetsExt

CONSTANT PartsOfDay     \* moments in a day

ASSUME CalendarAssumption == PartsOfDay \in Nat \ {0}

-----------------------------------------------------------------------------
(* Dates *)

Leap(year) == (year % 4 = 0 /\ year % 100 # 0) \/ year % 400 = 0

DaysIn(year, month) ==
    CASE month = 2 -> IF Leap(year) THEN 29 ELSE 28
      [] month \in {4, 6, 9, 11} -> 30
      [] OTHER -> 31

\* year_month_day::ok
Exists(date) == date.day <= DaysIn(date.year, date.month)

Earliest == 1900
Latest == 2200

\* BirthDate::Of
Born(date) == Exists(date) /\ date.year \in Earliest..Latest

\* sys_days: the days before the date.
SysDays(date) ==
    LET before == date.year - 1
        days(month) == DaysIn(date.year, month)
    IN  365 * date.year + before \div 4 - before \div 100 + before \div 400
        + MapThenSumSet(days, 1..(date.month - 1)) + date.day

Midnight(date) == SysDays(date) * PartsOfDay

\* CivilDayOf
CivilDayOf(moment) ==
    LET days == moment \div PartsOfDay
        first(year, month) == SysDays([year |-> year, month |-> month, day |-> 1])
        about == (days * 400) \div 146097
        year == CHOOSE y \in (about - 1)..(about + 1) :
                    first(y, 1) <= days /\ days < first(y + 1, 1)
        month == Max({m \in 1..12 : first(year, m) <= days})
    IN  [year |-> year, month |-> month, day |-> days - first(year, month) + 1]

-----------------------------------------------------------------------------
(* Ages *)

Earlier(date, other) ==
    \/ date.month < other.month
    \/ date.month = other.month /\ date.day < other.day

\* Mutant: who was born on a leap day turns on the last day of February.
TurnsOnTheLast(born, years) ==
    LET birthday == [born EXCEPT !.year = @ + years]
    IN  Midnight(IF Exists(birthday) THEN birthday
                 ELSE [birthday EXCEPT !.day = DaysIn(birthday.year, birthday.month)])

\* AgeStatus::TurnsAt: a day that the year does not have is the day after the
\* last of its month.
TurnsAt(born, years) ==
    LET birthday == [born EXCEPT !.year = @ + years]
    IN  IF Exists(birthday)
        THEN Midnight(birthday)
        ELSE Midnight([birthday EXCEPT !.day = DaysIn(birthday.year, birthday.month)])
             + PartsOfDay

\* AgeStatus::At, negative before birth.
Age(born, moment) ==
    LET today == CivilDayOf(moment)
        years == today.year - born.year
    IN  IF Earlier(today, born) THEN years - 1 ELSE years

-----------------------------------------------------------------------------
(* Announcements *)

Thresholds == <<"slots", "payments", "majority">>

\* JustCrossed: the last of the thresholds between the two ages.
JustCrossed(before, now, years) ==
    LET crossed == {n \in 1..3 : /\ before < Years(years, Thresholds[n])
                                 /\ now >= Years(years, Thresholds[n])}
    IN  IF crossed = {} THEN {} ELSE {Thresholds[Max(crossed)]}

\* AnnounceComingOfAge: to each guardian, or to the student alone.
ComingOfAge(born, now, years, guardians) ==
    LET today == Age(born, now)
        yesterday == Age(born, now - PartsOfDay)
        crossed == IF today < 0 \/ yesterday < 0 THEN {}
                   ELSE JustCrossed(yesterday, today, years)
        told == IF guardians = {} THEN {"nobody"} ELSE guardians
    IN  [guardian : told, threshold : crossed, years : {today}]

\* Mutant: the last of the scopes to close.
DecideByTheLast(access, grown, grace) ==
    {Max({day + grace : day \in UNION {grown[scope] : scope \in access.deciding}}) :
        some \in access.deciding}

\* AnnounceGuardianHandover: the first of the scopes to close.
DecideBy(access, grown, grace) ==
    {Min({day + grace : day \in UNION {grown[scope] : scope \in access.deciding}}) :
        some \in access.deciding}
=============================================================================
