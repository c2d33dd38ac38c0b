----------------------------- MODULE DayWindow -----------------------------
(***************************************************************************)
(* The rows a daily report selects for the date it is asked for, in        *)
(* reconciliation.service.ts and settlements.service.ts alike.  A moment   *)
(* is a number of hours, a date a number of days since the epoch; the      *)
(* process keeps a local time Offset hours ahead of UTC all year.          *)
(***************************************************************************)
EXTENDS Integers

CONSTANT Offset     \* hours the zone of the process is ahead of UTC

\* Zones differ from UTC by less than a day.
ASSUME DayWindowAssumption == Offset \in -23..23

\* new Date("YYYY-MM-DD"): midnight of that date in UTC.
Parsed(d) == 24 * d

\* setHours(0, 0, 0, 0): back to local midnight.
SetMidnight(x) == 24 * ((x + Offset) \div 24) - Offset
Start(d)       == SetMidnight(Parsed(d))

\* The driver writes a Date in local time with its offset, and a timestamp
\* without time zone keeps the local time alone.
Bound(x) == x + Offset

\* createdAt >= :start and createdAt < :end
ClosedSlip(h, d) == Bound(Start(d)) <= h /\ h <= Bound(Start(d) + 24)
Selects(h, d)    == Bound(Start(d)) <= h /\ h < Bound(Start(d) + 24)
=============================================================================
