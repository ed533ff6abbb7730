------------------------------ MODULE MCServices -----------------------------
(***************************************************************************)
(* The small modules of the gateway as one specification: EventLog,        *)
(* LoginLimiter, Accounts, Allowance, Schedule and Replies.  They share no *)
(* state; the first state chooses which of them runs, `part`: EventLog has *)
(* its own variables, and x1, x2 and so on are the variables of the        *)
(* others, in the order of the INSTANCE.                                   *)
(***************************************************************************)
EXTENDS EventLog

CONSTANTS
    MaxUsers, MaxSessions, MaxInvitations, AccMaxRequests, MaxChanges,   \* Accounts
    Threads, TurnWindow, TokenWindow, DailyTurns, WeeklyTokens,        \* Allowance
    MeterMaxTime, MaxTotal, MeterMaxFaults,
    Users, MaxReplies, MaxText, MaxTurns, RepMaxFaults                 \* Replies

VARIABLES part, x1, x2, x3, x4, x5, x6, x7, x8, x9, x10, x11, x12, x13

all == <<vars, part, x1, x2, x3, x4, x5, x6, x7, x8, x9, x10, x11, x12, x13>>

\* Hours of two units, days of four hours and weeks of three days; the clocks
\* change within the second day, by whole hours and by halves.
Schedules ==
    [kind : {"daily", "weekdays"}, time : {0, 3, 5, 7}]
    \cup [kind : {"days"}, time : {1, 7}, days : {{0}, {1, 2}}]
    \cup [kind : {"hours"}, every : {1, 2}, time : {0, 3, 5}]
Zones == [change : 8..15, before : {0}, after : {-2, -1, 0, 1, 2}]
Instants == 4..23

Limiter == INSTANCE LoginLimiter WITH
    Members <- {"anna"}, Unknown <- {"ghost"}, Addresses <- {"ip"}, Window <- 1,
    PerAccount <- 1, PerAddress <- 2, MaxKeys <- 2, MaxTime <- 1, MaxAttempts <- 3, MaxFaults <- 1,
    now <- x1, failures <- x2, journal <- x3, stored <- x4, attempts <- x5,
    faults <- x6, exact <- x7

Acc == INSTANCE Accounts WITH
    MaxRequests <- AccMaxRequests,
    users <- x1, sessions <- x2, invitations <- x3, requests <- x4,
    changes <- x5

Meter == INSTANCE Allowance WITH
    MaxTime <- MeterMaxTime, MaxFaults <- MeterMaxFaults,
    now <- x1, turns <- x2, tokens <- x3, reported <- x4, totals <- x5,
    resets <- x6, since <- x7, pass <- x8, announced <- x9, faults <- x10,
    history <- x11, started <- x12, missed <- x13

Sch == INSTANCE Schedule WITH
    Hour <- 2, Day <- 8, Week <- 3, Schedules <- Schedules, Zones <- Zones, Instants <- Instants,
    schedule <- x1, zone <- x2, at <- x3

Rep == INSTANCE Replies WITH
    MaxFaults <- RepMaxFaults,
    turn <- x1, said <- x2, rows <- x3, replies <- x4, page <- x5, lost <- x6,
    unsaved <- x7, stuck <- x8, faults <- x9

-----------------------------------------------------------------------------
\* The variables after the first `n` are not used.
Unused(n) ==
    /\ n < 1 => x1 = 0
    /\ n < 2 => x2 = 0
    /\ n < 3 => x3 = 0
    /\ n < 4 => x4 = 0
    /\ n < 5 => x5 = 0
    /\ n < 6 => x6 = 0
    /\ n < 7 => x7 = 0
    /\ n < 8 => x8 = 0
    /\ n < 9 => x9 = 0
    /\ n < 10 => x10 = 0
    /\ n < 11 => x11 = 0
    /\ n < 12 => x12 = 0
    /\ n < 13 => x13 = 0

ServicesInit ==
    /\ Init
    /\ \/ part = "log" /\ Unused(0)
       \/ part = "limiter" /\ Limiter!Init /\ Unused(7)
       \/ part = "accounts" /\ Acc!Init /\ Unused(5)
       \/ part = "allowance" /\ Meter!Init /\ Unused(13)
       \/ part = "schedule" /\ Sch!Init /\ Unused(3)
       \/ part = "replies" /\ Rep!Init /\ Unused(9)

ServicesNext ==
    \/ part = "log" /\ Next /\ UNCHANGED <<part, x1, x2, x3, x4, x5, x6, x7, x8, x9, x10, x11, x12, x13>>
    \/ part = "limiter" /\ Limiter!Next /\ UNCHANGED <<vars, part, x8, x9, x10, x11, x12, x13>>
    \/ part = "accounts" /\ Acc!Next /\ UNCHANGED <<vars, part, x6, x7, x8, x9, x10, x11, x12, x13>>
    \/ part = "allowance" /\ Meter!Next /\ UNCHANGED <<vars, part>>
    \/ part = "schedule" /\ Sch!Next /\ UNCHANGED <<vars, part, x4, x5, x6, x7, x8, x9, x10, x11, x12, x13>>
    \/ part = "replies" /\ Rep!Next /\ UNCHANGED <<vars, part, x10, x11, x12, x13>>

ServicesSpec == ServicesInit /\ [][ServicesNext]_all

-----------------------------------------------------------------------------
(* Each is stated, with the code it is about, in the module it is of. *)

\* Attempts to sign in keep to their limits, and the stored counts are those
\* in memory (auth.rs).
AttemptsLimited == part = "limiter" => Limiter!LimitKept /\ Limiter!StoredAsCounted

\* What is counted in the windows of turns and tokens is what was used in
\* them, and the meter says when a window was left (usage.rs).
UsageCounted == part = "allowance" => Meter!CountsExact /\ Meter!RolledOverAnnounced

\* An invitation makes one account at most, never one that was withdrawn, and
\* a member is told of every reset of their password (`accept_invitation`,
\* `acknowledge_password_reset`).
AccountsKept ==
    /\ [](part = "accounts" => Acc!InvitedOnce)
    /\ [][part = "accounts" => Acc!TellsOfReset]_all

\* A schedule's next and latest occurrences are those it means, an hour
\* apart where the clocks change by whole hours (`next_after`).
OccurrencesMeant == part = "schedule" => Sch!FindsMeant /\ Sch!HourApart

\* The rows and events of a reply are what Codex said, and end with its turn
\* (`flush`, `finish_streaming`).
RepliesAreSaid == part = "replies" => Rep!RepliesAreSaid

=============================================================================
