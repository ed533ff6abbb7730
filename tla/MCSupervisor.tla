----------------------------- MODULE MCSupervisor ----------------------------
(***************************************************************************)
(* The gateway's side of Codex as one specification: Supervisor,           *)
(* AppServer and Tools.  They share no state; the first state chooses      *)
(* which of them runs, `part`: Supervisor has its own variables, and x1,   *)
(* x2 and so on are the variables of the others, in the order of the       *)
(* INSTANCE.                                                               *)
(***************************************************************************)
EXTENDS Supervisor

CONSTANTS
    Threads, AppMaxServers, MaxRequests, AppMaxCalls,   \* AppServer
    Turns, PerTurn, PerDay, MaxNotes, DayMs,            \* Tools
    MaxTime, ToolMaxCalls, ToolMaxFaults

VARIABLES part, x1, x2, x3, x4, x5, x6, x7, x8, x9, x10, x11, x12, x13

all == <<vars, part, x1, x2, x3, x4, x5, x6, x7, x8, x9, x10, x11, x12, x13>>

App == INSTANCE AppServer WITH
    MaxServers <- AppMaxServers, MaxCalls <- AppMaxCalls,
    serial <- x1, alive <- x2, pending <- x3, closed <- x4, ended <- x5,
    incoming <- x6, watching <- x7, served <- x8, refused <- x9,
    tainted <- x10, requests <- x11, calls <- x12, checks <- x13

Tool == INSTANCE Tools WITH
    MaxCalls <- ToolMaxCalls, MaxFaults <- ToolMaxFaults,
    now <- x1, grants <- x2, calls <- x3, counting <- x4, inFlight <- x5,
    writer <- x6, notes <- x7, log <- x8, running <- x9, fetched <- x10,
    unseen <- x11, faults <- x12

-----------------------------------------------------------------------------
\* The variables after the first `n` are not used.
Unused(n) ==
    /\ n < 1 => x1 = 0
    /\ n < 2 => x2 = 0
    /\ n < 3 => x3 = 0
    /\ n < 4 => x4 = 0
    /\ n < 5 => x5 = 0
    /\ n < 6 => x6 = 0
    /\ n < 7 => x7 = 0
    /\ n < 8 => x8 = 0
    /\ n < 9 => x9 = 0
    /\ n < 10 => x10 = 0
    /\ n < 11 => x11 = 0
    /\ n < 12 => x12 = 0
    /\ n < 13 => x13 = 0

CodexInit ==
    /\ Init
    /\ \/ part = "supervisor" /\ Unused(0)
       \/ part = "app_server" /\ App!Init /\ Unused(13)
       \/ part = "tools" /\ Tool!Init /\ Unused(12)

CodexNext ==
    \/ part = "supervisor" /\ Next /\ UNCHANGED <<part, x1, x2, x3, x4, x5, x6, x7, x8, x9, x10, x11, x12, x13>>
    \/ part = "app_server" /\ App!Next /\ UNCHANGED <<vars, part>>
    \/ part = "tools" /\ Tool!Next /\ UNCHANGED <<vars, part, x13>>

CodexSpec == CodexInit /\ [][CodexNext]_all

-----------------------------------------------------------------------------
(* Each is stated, with the code it is about, in the module it is of. *)

\* No request waits for an answer that cannot come, every call is answered
\* once, and a turn is asked for only on a thread its own app server passed
\* (client.rs `PendingGuard`, supervisor.rs `ToolReply`, `ensure_served`).
ServersKept ==
    /\ [](part = "app_server" => App!PendingIsWaiting /\ App!AnsweredOnce)
    /\ [][part = "app_server" => App!AsksCheckedTurns]_all

\* Fetches keep to their limits, as far as the counts see them, a run has the
\* calls of its turn, and notes are lost only to a replacement or their owner
\* (`reserve`, `attribute_to_run`, `append_tool`).
CallsKept ==
    /\ [](part = "tools" => Tool!FetchLimitKept /\ Tool!RunHasItsCalls)
    /\ [][part = "tools" => Tool!KeepsNotes]_all

-----------------------------------------------------------------------------
\* States of Supervisor that differ only in what nothing reads any more are one: the
\* household's app server of a request that is past its use, the sign-in of an
\* app server whose watcher ended, and signed-out sign-ins nobody holds.
ReadsHousehold == {"expiry", "stale", "asking", "asksCode", "hasCode", "signingOutAll",
                   "cancel", "signsOut"}
Held == {server[s].holds : s \in {t \in DOMAIN server : server[t].watched}}

\* So are those that differ only in the order of the requests: each is told by
\* where it is and by what refers to it.
Referred(i) ==
    <<{o \in Owners : slot[o].lock = i}, refreshing = i,
      {c.server : c \in {d \in codes : d.id = i}},
      {<<n.server, n.ok>> : n \in {m \in news : m.id = i}}, login.id = i>>

Told(i) ==
    <<op[i].kind, op[i].user, op[i].at, Referred(i),
      IF op[i].at \in ReadsHousehold THEN op[i].household ELSE None,
      IF op[i].at \in {"toCancel", "startingToCancel"} THEN Referred(op[i].of) ELSE <<op[i].of>>>>

Requests ==
    LET told == [i \in DOMAIN op |-> Told(i)]
    IN  [t \in {told[i] : i \in DOMAIN op} |-> Cardinality({i \in DOMAIN op : told[i] = t})]

Relevant ==
    IF part # "supervisor" THEN <<part, x1, x2, x3, x4, x5, x6, x7, x8, x9, x10, x11, x12, x13>> ELSE
    <<token, lastSignIn, failedLately, [o \in Owners |-> slot[o].server], auth, tainted, recovering,
      <<login.server, login.state, login.old>>, events, signedOut \cap (Held \cup {token.signIn}),
      [s \in DOMAIN server |-> IF server[s].watched THEN server[s]
                               ELSE [server[s] EXCEPT !.holds = None]],
      Requests>>

=============================================================================
