------------------------------ MODULE Schedule ------------------------------
(***************************************************************************)
(* When a routine runs (crates/bokkie-gateway/src/routines/schedule.rs):   *)
(* the instants its schedule's local times name in a time zone, on a range *)
(* of local dates, and the next and the latest of them around an instant.  *)
(*                                                                         *)
(* Time is in the unit of `Hour`, and the days and weeks are as short as   *)
(* the constants make them.  A zone changes its clocks once, at `change`,  *)
(* from one offset to another: forward leaves a gap of local times, back   *)
(* makes some of them happen twice (a fold).                               *)
(***************************************************************************)
EXTENDS Integers, FiniteSets, FiniteSetsExt

CONSTANTS
    Hour, Day, Week,   \* the units of an hour and a day, and the days of a week
    Schedules, Zones,
    Instants           \* the instants asked about

\* The occurrences looked at to say what `next_after` should find.
Horizon == (-3 * Week)..(5 * Week)

VARIABLES schedule, zone, at

vars == <<schedule, zone, at>>

Init == schedule \in Schedules /\ zone \in Zones /\ at \in Instants

-----------------------------------------------------------------------------
(* The time zone, as the library `jiff` knows it *)

Offset(z, x) == IF x < z.change THEN z.before ELSE z.after

\* The instants at which the clocks show a local time.
Shown(z, local) == {x \in {local - z.before, local - z.after} : x + Offset(z, x) = local}

LocalDate(z, x) == (x + Offset(z, x)) \div Day

-----------------------------------------------------------------------------
(* The schedule *)

\* Whether it runs on a date (`runs_on`).
RunsOn(s, date) ==
    CASE s.kind \in {"daily", "hours"} -> TRUE
      [] s.kind = "weekdays" -> date % Week \notin {Week - 2, Week - 1}
      [] s.kind = "days" -> date % Week \in s.days

\* The local times it names in a day (`times`).
Times(s) ==
    IF s.kind = "hours"
    THEN LET step == s.every * Hour IN {m \in 0..(Day - 1) : m % step = s.time % step}
    ELSE {s.time}

\* Mutant: of two times in a fold, the second.
ResolveLast(z, local) ==
    IF Shown(z, local) # {} THEN [at |-> Max(Shown(z, local)), moved |-> FALSE]
    ELSE [at |-> z.change, moved |-> TRUE]

\* The instant a local time names: the first of two in a fold; in a gap, the
\* moment the clocks change (`resolve`).
Resolve(z, local) ==
    IF Shown(z, local) # {} THEN [at |-> Min(Shown(z, local)), moved |-> FALSE]
    ELSE [at |-> z.change, moved |-> TRUE]

Candidates(s, z, from, to) ==
    {Resolve(z, date * Day + m) : date \in {d \in from..to : RunsOn(s, d)}, m \in Times(s)}

Near(x, y) == x - y < Hour /\ y - x < Hour

\* A time that was moved goes if another is within an hour; of two at the
\* same instant the one that was not moved stays.
Kept(cs) ==
    LET single == {c \in cs : c.moved => ~ \E o \in cs : o.at = c.at /\ ~o.moved}
    IN  {c.at : c \in {d \in single : d.moved => \A o \in single \ {d} : ~Near(o.at, d.at)}}

\* The schedule's occurrences on local dates (`occurrences`).
Occurrences(s, z, from, to) == Kept(Candidates(s, z, from, to))

\* The dates searched for the next occurrence, and for the latest (`around`).
DatesAhead(date) == (date - 1)..(date + Week + 1)
DatesBehind(date) == (date - Week - 1)..(date + 1)

\* The first occurrence after an instant (`next_after`).
NextAfter(s, z, x) ==
    LET dates == DatesAhead(LocalDate(z, x))
    IN  Min({o \in Occurrences(s, z, Min(dates), Max(dates)) : o > x})

\* The last occurrence at or before an instant (`latest_at_or_before`).
LatestAtOrBefore(s, z, x) ==
    LET dates == DatesBehind(LocalDate(z, x))
    IN  Max({o \in Occurrences(s, z, Min(dates), Max(dates)) : o =< x})

\* A routine is scheduled anew once it ran, or its owner's zone or it changed.
Reschedule == at' = NextAfter(schedule, zone, at) /\ at' =< Max(Instants) /\ UNCHANGED <<schedule, zone>>

Next == Reschedule

Spec == Init /\ [][Next]_vars

-----------------------------------------------------------------------------
(* Correctness *)

\* The instants the schedule means: for each local time it names on any date,
\* the first instant at which the clocks show that time or later; a time the
\* clocks never show is dropped when one they show is within an hour.
Meant(s, z) ==
    LET named == {date * Day + m : date \in {d \in Horizon : RunsOn(s, d)}, m \in Times(s)}
        first(local) == Min({x \in (local - 3 * Hour)..(local + 3 * Hour) : x + Offset(z, x) >= local})
        shown == {first(l) : l \in {k \in named : Shown(z, k) # {}}}
        others == {first(l) : l \in {k \in named : Shown(z, k) = {}}}
    IN  shown \cup {x \in others : \A y \in shown : ~Near(x, y)}

\* Searching a few dates around an instant finds the next and the latest of
\* all the occurrences the schedule means, on days the clocks change too
\* (`next_after`, `latest_at_or_before`).
FindsMeant ==
    LET meant == Meant(schedule, zone)
    IN  /\ NextAfter(schedule, zone, at) = Min({x \in meant : x > at})
        /\ LatestAtOrBefore(schedule, zone, at) = Max({x \in meant : x =< at})

\* Runs of one routine are at least an hour apart, if the clocks change by
\* whole hours (`occurrences`).
Apart(x, y) == x # y => ~Near(x, y)

HourApart ==
    at \in Meant(schedule, zone) /\ (zone.after - zone.before) % Hour = 0 =>
        Apart(at, NextAfter(schedule, zone, at))

\* The code's words: "Runs of one routine are at least an hour apart".
AlwaysHourApart ==
    at \in Meant(schedule, zone) => Apart(at, NextAfter(schedule, zone, at))

=============================================================================
