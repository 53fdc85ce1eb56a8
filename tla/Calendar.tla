------------------------------- MODULE Calendar -------------------------------
(***************************************************************************)
(* The financial year of the dashboards: April to March, in quarters of    *)
(* three months.  A date is counted in months; the day and the hour are    *)
(* layout, since every window starts on a first and ends on a last of the  *)
(* month.  Two functions answer the same question: fyQuarterRange gives    *)
(* the window of a quarter, startOfFyQuarterUTC the start of the running   *)
(* one.                                                                    *)
(***************************************************************************)
EXTENDS Integers

CONSTANTS FirstYear, LastYear  \* bound: the calendar years of the clock

ASSUME CalendarAssumption == FirstYear \in Nat /\ LastYear \in Nat /\ FirstYear <= LastYear

VARIABLE now     \* new Date(): the year, and the month as getUTCMonth() counts it

Quarters == {"Q1", "Q2", "Q3", "Q4"}

\* Date.UTC(year, month, 1), in months; a month may lie outside 0..11.
MonthOf(year, month) == 12 * year + month

ThisMonth == MonthOf(now.year, now.month)

\* Mutant of FyYear: the calendar year for the financial one.
FyYearIsCalendarYear == now.year

\* The year in which the running financial year began.
FyYear == IF now.month < 3 THEN now.year - 1 ELSE now.year

\* The month of the year FyYear in which a quarter begins.
FirstMonth(quarter) ==
  CASE quarter = "Q1" -> 3 [] quarter = "Q2" -> 6 [] quarter = "Q3" -> 9 [] quarter = "Q4" -> 12

\* fyQuarterRange(quarter, now), as the set of its months.
FyQuarterRange(quarter) ==
  LET first == MonthOf(FyYear, FirstMonth(quarter)) IN first .. first + 2

StartOfMonth == ThisMonth
StartOfFy == MonthOf(FyYear, 3)

\* startOfFyQuarterUTC(now)
StartOfFyQuarter ==
  CASE now.month \in 3..5  -> MonthOf(now.year, 3)
    [] now.month \in 6..8  -> MonthOf(now.year, 6)
    [] now.month \in 9..11 -> MonthOf(now.year, 9)
    [] now.month \in 0..2  -> MonthOf(now.year - 1, 0)

\* The clock starts in a December, the third quarter of a financial year.
CalendarInit == now = [year |-> FirstYear, month |-> 11]

NextMonth ==
  \/ now.month < 11 /\ now' = [now EXCEPT !.month = @ + 1]
  \/ now.month = 11 /\ now.year < LastYear /\ now' = [year |-> now.year + 1, month |-> 0]

CalendarSpec == CalendarInit /\ [][NextMonth]_now

-----------------------------------------------------------------------------
(* Properties                                                              *)

\* The quarter filter of the dashboards loses no change and counts none twice:
\* the four windows tile the financial year that began last, and so the running
\* month is in exactly one of them, also over New Year.
QuartersTileTheYear ==
  /\ \A month \in StartOfFy .. StartOfFy + 11 :
       \E q \in Quarters : /\ month \in FyQuarterRange(q)
                           /\ \A r \in Quarters \ {q} : month \notin FyQuarterRange(r)
  /\ ThisMonth \in StartOfFy .. StartOfFy + 11

-----------------------------------------------------------------------------
(* What the comments promise and the code does not keep                    *)

\* "Q4=Jan-Mar", of the FY "startOfFyUTC" begins: the quarter "addedThisQuarter"
\* counts from began in the running financial year, and the month is in it.
QuarterStartsInItsYear ==
  /\ StartOfFy <= StartOfFyQuarter
  /\ ThisMonth - StartOfFyQuarter \in 0..2
=============================================================================
