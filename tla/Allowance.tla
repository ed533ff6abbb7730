----------------------------- MODULE Allowance ------------------------------
(***************************************************************************)
(* One user's allowance (crates/bokkie-gateway/src/usage.rs, and its       *)
(* callers in bots/service.rs): the turns and tokens counted in two        *)
(* rolling windows, the meter that shows them, and the pass that announces *)
(* what leaves a window and then deletes it.                               *)
(*                                                                         *)
(* Each Bot has one thread, whose total Codex reports as its turns run; a  *)
(* report may come late, when its turn has ended, and a total may fall.    *)
(* Rows of one time are kept as their sum.  The subscription's windows are *)
(* the earliest time one of them resets, a tick after it is read.  Each    *)
(* transaction is one step, and may fail where the code goes on.  The turns *)
(* themselves, and how those that run are stopped as the tokens are used   *)
(* up, are not here (module Conversation).                                 *)
(***************************************************************************)
EXTENDS Integers, Sequences, FiniteSets, SequencesExt

CONSTANTS
    Threads,
    TurnWindow, TokenWindow,             \* TURN_WINDOW_MS, TOKEN_WINDOW_MS
    DailyTurns, WeeklyTokens,            \* the limits an admin sets
    MaxTime, MaxTotal, MaxFaults         \* bounds

NoTime == -1
Times == 0..MaxTime

VARIABLES
    now,
    turns,      \* the rows of `turns`: how many at each time
    tokens,     \* the rows of `token_usage`: how many tokens at each time
    reported,   \* `bot_threads.tokens_reported`
    totals,     \* Codex's: each thread's total
    resets,     \* when a subscription window that is cached resets
    since,      \* where the next pass starts
    pass,       \* the pass under way
    announced,  \* when the meter was last announced
    faults,
    history,    \* no code keeps it: the tokens reported at each time
    started,    \* nor this: the turns counted at each time and not taken back
    missed      \* nor this: an announcement failed, or a restart passed one over

vars == <<now, turns, tokens, reported, totals, resets, since, pass, announced, faults,
          history, started, missed>>

Idle == [at |-> NoTime, announces |-> FALSE]
None == [t \in Times |-> 0]

Init ==
    /\ now = 0 /\ since = 0 /\ announced = 0
    /\ turns = None /\ tokens = None /\ history = None /\ started = None
    /\ reported = [t \in Threads |-> 0] /\ totals = [t \in Threads |-> 0]
    /\ resets = NoTime /\ pass = Idle
    /\ faults = 0 /\ missed = FALSE

Total(rows) == FoldFunction(LAMBDA n, m : n + m, 0, rows)

\* What a window counts.
Counted(rows, window) == Total([t \in {u \in Times : u > now - window} |-> rows[t]])

\* Whether nothing is left of the allowance (`allowance`).
Exhausted ==
    Counted(turns, TurnWindow) >= DailyTurns \/ Counted(tokens, TokenWindow) >= WeeklyTokens

\* The meter is announced in a transaction that also says what changed (`emit_usage`).
EmitUsage == announced' = now /\ missed' = FALSE

\* A failure that is logged, and the code goes on.
Fault == faults < MaxFaults /\ faults' = faults + 1

\* A turn is counted before Codex is asked to start it (`reserve_turn`).
ReserveTurn ==
    /\ ~Exhausted
    /\ turns' = [turns EXCEPT ![now] = @ + 1]
    /\ started' = [started EXCEPT ![now] = @ + 1]
    /\ EmitUsage
    /\ UNCHANGED <<now, tokens, reported, totals, resets, since, pass, faults, history>>

\* Codex refuses a turn, which is taken back, or that fails and it stays
\* counted (`release_turn`).
ReleaseTurn(at, ok) ==
    /\ turns[at] > 0
    /\ IF ok THEN /\ turns' = [turns EXCEPT ![at] = @ - 1]
                  /\ started' = [started EXCEPT ![at] = @ - 1]
                  /\ EmitUsage /\ UNCHANGED faults
       ELSE Fault /\ UNCHANGED <<turns, started, announced, missed>>
    /\ UNCHANGED <<now, tokens, reported, totals, resets, since, pass, history>>

\* Codex uses tokens of a thread, or starts counting it anew.
Uses(t) ==
    /\ totals[t] < MaxTotal
    /\ totals' = [totals EXCEPT ![t] = @ + 1]
    /\ UNCHANGED <<now, turns, tokens, reported, resets, since, pass, announced, faults,
                   history, started, missed>>

CountsAnew(t) ==
    /\ totals[t] = reported[t] /\ totals[t] > 0 /\ Fault
    /\ totals' = [totals EXCEPT ![t] = 0]
    /\ UNCHANGED <<now, turns, tokens, reported, resets, since, pass, announced, history,
                   started, missed>>

\* What a thread's total grew by since its last report; one that fell is a
\* new baseline.
Growth(t) == IF totals[t] > reported[t] THEN totals[t] - reported[t] ELSE 0

\* Codex reports a thread's total: its growth is counted and the meter
\* announced (`record_turn_tokens`).
Reports(t) ==
    /\ totals[t] # reported[t]
    /\ reported' = [reported EXCEPT ![t] = totals[t]]
    /\ tokens' = [tokens EXCEPT ![now] = @ + Growth(t)]
    /\ history' = [history EXCEPT ![now] =
                      @ + IF totals[t] < reported[t] THEN 0 ELSE totals[t] - reported[t]]
    /\ EmitUsage
    /\ UNCHANGED <<now, turns, totals, resets, since, pass, faults, started>>

\* The app server reports when the subscription's windows reset; the meter is
\* announced, or that fails (`merge`, `usage_changed`).
RateLimits(ok) ==
    /\ resets # now + 1
    /\ resets' = now + 1
    /\ IF ok THEN EmitUsage /\ UNCHANGED faults
       ELSE Fault /\ missed' = TRUE /\ UNCHANGED announced
    /\ UNCHANGED <<now, turns, tokens, reported, totals, since, pass, history, started>>

-----------------------------------------------------------------------------
(* The pass *)

\* Whether usage left its window after `since` (`rolled_over`).
Left(rows, window) ==
    \E t \in Times : rows[t] > 0 /\ t > since - window /\ t =< now - window

\* A pass starts, and finds what left a window or reset since the last (`roll_over`).
StartPass ==
    /\ pass = Idle /\ since < now
    /\ pass' = [at |-> now,
                announces |-> \/ Left(turns, TurnWindow) \/ Left(tokens, TokenWindow)
                              \/ since < resets /\ resets =< now]
    /\ UNCHANGED <<now, turns, tokens, reported, totals, resets, since, announced, faults,
                   history, started, missed>>

\* It announces the meter, once the subscription was read again if its app
\* server runs and answers; a failure is logged.
Announce(ok, read) ==
    /\ pass.announces
    /\ pass' = [pass EXCEPT !.announces = FALSE]
    /\ resets' = IF read /\ resets # NoTime /\ resets =< pass.at THEN now + 1 ELSE resets
    /\ IF ok THEN EmitUsage /\ UNCHANGED faults
       ELSE Fault /\ missed' = TRUE /\ UNCHANGED announced
    /\ UNCHANGED <<now, turns, tokens, reported, totals, since, history, started>>

\* What a window may still count.
Kept(rows, window, time) == [t \in Times |-> IF t > time - window THEN rows[t] ELSE 0]

\* Mutant: a pass that failed is over.
NextSincePassedOver(ok) == pass.at

\* A failed pass is retried from the same start (`run_rollovers`).
NextSince(ok) == IF ok THEN pass.at ELSE since

\* It deletes what no window counts, or has failed before (`prune`).
Prune(ok) ==
    /\ pass # Idle /\ (ok => ~pass.announces)
    /\ pass' = Idle /\ since' = NextSince(ok)
    /\ IF ok THEN /\ turns' = Kept(turns, TurnWindow, pass.at)
                  /\ tokens' = Kept(tokens, TokenWindow, pass.at)
                  /\ UNCHANGED faults
       ELSE Fault /\ UNCHANGED <<turns, tokens>>
    /\ UNCHANGED <<now, reported, totals, resets, announced, history, started, missed>>

\* The gateway restarts: the next pass starts where it does.
Restart ==
    /\ Fault
    /\ since' = now /\ pass' = Idle /\ resets' = NoTime /\ missed' = TRUE
    /\ UNCHANGED <<now, turns, tokens, reported, totals, announced, history, started>>

Clock == now < MaxTime /\ now' = now + 1
         /\ UNCHANGED <<turns, tokens, reported, totals, resets, since, pass, announced, faults,
                        history, started, missed>>

Next ==
    \/ ReserveTurn
    \/ \E at \in Times, ok \in BOOLEAN : ReleaseTurn(at, ok)
    \/ \E t \in Threads : Uses(t) \/ CountsAnew(t) \/ Reports(t)
    \/ \E ok \in BOOLEAN : RateLimits(ok)
    \/ StartPass
    \/ \E ok, read \in BOOLEAN : Announce(ok, read)
    \/ \E ok \in BOOLEAN : Prune(ok)
    \/ Restart
    \/ Clock

Spec == Init /\ [][Next]_vars

-----------------------------------------------------------------------------
(* Correctness *)

\* What each window counts is the turns started and the tokens Codex reported
\* in it, each thread measured against its own last report, whatever the
\* order of the reports, totals that fall, and what was pruned or taken back
\* (`record_tokens`, `prune`).
CountsExact ==
    /\ Counted(tokens, TokenWindow) = Counted(history, TokenWindow)
    /\ Counted(turns, TurnWindow) = Counted(started, TurnWindow)

\* Between passes, the meter was announced after all that left a window, or
\* reset, by the time the last pass covered, a pass that failed included;
\* unless an announcement failed or a restart passed it over (`roll_over`).
RolledOverAnnounced ==
    pass = Idle /\ ~missed =>
        /\ \A t \in Times : /\ history[t] > 0 /\ t + TokenWindow =< since => announced >= t + TokenWindow
                            /\ started[t] > 0 /\ t + TurnWindow =< since => announced >= t + TurnWindow
        /\ resets # NoTime /\ resets =< since => announced >= resets

=============================================================================
