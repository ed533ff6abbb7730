-------------------------------- MODULE Push --------------------------------
(***************************************************************************)
(* The notifications a Bot sends its user and the pushes that carry them   *)
(* to the user's devices (crates/bokkie-gateway/src/push, tools/notify.rs  *)
(* and presence.rs).                                                       *)
(*                                                                         *)
(* A notify call is served in a task of its own while the turn that made   *)
(* it goes on: its notification queues a push, or is left to the push of   *)
(* the routine's run whose turn it is.  A turn is begun before its run is  *)
(* recorded running in it, so a notification may come before its run is    *)
(* known.  One sender reads queued pushes a page at a time, decides each   *)
(* in a write transaction, and delivers in tasks, one per subscription,    *)
(* which retry.  Devices subscribe, show the Bot and sign out meanwhile.   *)
(*                                                                         *)
(* Texts, keys and the requests' encoding are left out, and so are waits   *)
(* between attempts: an answer may come any time after the claim.          *)
(***************************************************************************)
EXTENDS Integers, Sequences, FiniteSets, FiniteSetsExt

CONSTANTS
    Sessions,          \* the user's sessions, one per device
    Endpoints,         \* the push service's addresses for them
    Connections,       \* the devices' event sockets
    Subscribed,        \* the subscriptions there are at first
    Kinds,             \* the kinds of notification, "result" and "question"
    HourlyLimit, PerTurn, PerHour,
    Hour, Day, Viewing,      \* in ticks of the clock
    Retries, Page,
    MaxTime, MaxTurns, MaxRuns,      \* bounds: the last time, the turns, the runs queued
    MaxEvents          \* bound: what devices, admins, the push service and crashes do

ASSUME PushAssumption ==
    /\ {HourlyLimit, PerTurn, PerHour, Retries, MaxTime, MaxTurns, MaxRuns, MaxEvents}
           \subseteq Nat
    /\ {Hour, Viewing, Page} \subseteq Nat \ {0}
    /\ Day \in Nat /\ Day >= 2 * Hour
    /\ Kinds \subseteq {"result", "question"}
    /\ \A x \in Subscribed : x.id \in Nat /\ x.session \in Sessions /\ x.endpoint \in Endpoints

VARIABLES
    now,
    account,     \* whether it is disabled, and whether its Bot is there
    shownUntil,  \* until when each connection says it shows the Bot
    live,        \* the sessions that are signed in
    subs,        \* the rows of push_subscriptions
    gone,        \* the endpoints the push service ended
    run,         \* the routine runs
    turn,        \* the turn under way and the last turn begun
    calls,       \* the turns a notify call is being served for
    notes,       \* the notifications, in the order of their ids
    pushes,      \* the rows of pushes, in the order of their ids
    sender,      \* the sender's loop: the page it holds, the last id it read
    tasks,       \* deliveries under way
    flight,      \* the pushes whose delivery this gateway has under way
    took,        \* those of them that a push service took
    events,      \* how many of MaxEvents happened
    claims       \* what no code keeps: the claims of pushes, in order

deviceVars == <<shownUntil, live, subs, gone>>
turnVars == <<run, turn, calls>>
sendVars == <<sender, tasks, flight, took, claims>>
vars == <<now, account, deviceVars, turnVars, notes, pushes, sendVars, events>>

None == 0
RunIds == 1..MaxRuns
Idle == [on |-> FALSE, page |-> {}, after |-> 0]

Init ==
    /\ now = 1
    /\ account = [disabled |-> FALSE, bot |-> TRUE]
    /\ shownUntil = [c \in Connections |-> 0]
    /\ live = Sessions
    /\ subs = Subscribed
    /\ gone = {}
    /\ run = [r \in RunIds |-> [state |-> "waiting", turn |-> None, over |-> "no"]]
    /\ turn = [open |-> None, last |-> 0]
    /\ calls = {}
    /\ notes = <<>>
    /\ pushes = <<>>
    /\ sender = Idle
    /\ tasks = {}
    /\ flight = {}
    /\ took = {}
    /\ events = 0
    /\ claims = <<>>

Happens == events < MaxEvents /\ events' = events + 1

-----------------------------------------------------------------------------
(* Queueing *)

\* The pushes `ps` with one more, unless the account is disabled or has no
\* such Bot (`queue`, which wakes the sender).
Queued(ps, cause, note) ==
    IF account.disabled \/ ~account.bot THEN ps
    ELSE Append(ps, [cause |-> cause, note |-> note, state |-> "queued",
                     created |-> now, sent |-> 0])

\* The notification a run's push carries: its newest question, or else its
\* newest notification.
RunNotification(r, ns) ==
    LET mine == {n \in DOMAIN ns : ns[n].run = r}
        asks == {n \in mine : ns[n].kind = "question"}
    IN  Max((IF asks # {} THEN asks ELSE mine) \cup {None})

\* The pushes once those still queued for the run's own notifications are
\* left to the run's push.
Merged(r, ps, ns) ==
    [p \in DOMAIN ps |->
        IF /\ ps[p].state = "queued" /\ ps[p].cause = "notify"
           /\ ns[ps[p].note].run = r
        THEN [ps[p] EXCEPT !.state = "merged"] ELSE ps[p]]

SentAlone(note, ps) ==
    \E p \in DOMAIN ps : /\ ps[p].cause = "notify" /\ ps[p].note = note
                         /\ ps[p].state \notin {"merged", "deleted"}

\* Mutant: the notification is carried though its own push went out.
RunEndedTwice(r, state, every, ps, ns) ==
    LET note == RunNotification(r, ns)
    IN  IF state \in {"succeeded", "stopped"} /\ note = None THEN ps
        ELSE Queued(Merged(r, ps, ns), "run", note)

\* The pushes once run r ended in `state`, of a routine that pushes on every
\* run or only on notify (`run_ended`).
RunEnded(r, state, every, ps, ns) ==
    LET merged == Merged(r, ps, ns)
        note == RunNotification(r, ns)
        carried == IF note # None /\ ~SentAlone(note, merged) THEN note ELSE None
    IN  CASE state = "succeeded" ->
                 IF carried # None \/ (every /\ note = None)
                 THEN Queued(merged, "run", carried) ELSE merged
          [] state = "stopped" ->
                 IF carried # None THEN Queued(merged, "run", carried) ELSE merged
          [] state = "paused" -> Queued(merged, "pause", carried)
          [] state \in {"failed", "interrupted"} -> Queued(merged, "failure", carried)
          [] state = "missed" -> Queued(merged, "miss", None)
          [] state = "disabled" -> merged

-----------------------------------------------------------------------------
(* Turns and their notifications *)

NextTurn ==
    /\ account.bot /\ turn.open = None /\ turn.last < MaxTurns
    /\ turn' = [open |-> turn.last + 1, last |-> turn.last + 1]

TurnBegins ==
    /\ NextTurn
    /\ UNCHANGED <<now, account, deviceVars, run, calls, notes, pushes, sendVars, events>>

\* Codex starts the turn of a waiting run, which is not yet recorded.
RunTurnBegins(r) ==
    /\ run[r].state = "waiting" /\ run[r].turn = None
    /\ NextTurn
    /\ run' = [run EXCEPT ![r].turn = turn'.open]
    /\ UNCHANGED <<now, account, deviceVars, calls, notes, pushes, sendVars, events>>

Attributed(r) ==
    [n \in DOMAIN notes |->
        IF notes[n].turn = run[r].turn /\ notes[n].run = None
        THEN [notes[n] EXCEPT !.run = r] ELSE notes[n]]

Ends(r, state, ns, every) ==
    /\ run' = [run EXCEPT ![r].state = "ended"]
    /\ pushes' = RunEnded(r, state, every, pushes, ns)

\* The run is recorded running in its turn and gets the notifications already
\* sent there; if the turn ended before, so does the run.  A run that was
\* ended meanwhile stays as it is.
MarkRunning(r) ==
    /\ account.bot
    /\ run[r].state = "waiting" /\ run[r].turn # None
    /\ notes' = Attributed(r)
    /\ IF run[r].over = "no"
       THEN run' = [run EXCEPT ![r].state = "running"] /\ UNCHANGED pushes
       ELSE \E every \in BOOLEAN : Ends(r, run[r].over, notes', every)
    /\ UNCHANGED <<now, account, deviceVars, turn, calls, sendVars, events>>

\* A turn ends: it completes once its calls are answered, and fails or is
\* interrupted, by its owner or by the gateway, whatever they do.
TurnEnds(how) ==
    LET mine == {r \in RunIds : run[r].turn = turn.open}
    IN  /\ account.bot /\ turn.open # None
        /\ how = "succeeded" => turn.open \notin calls
        /\ turn' = [turn EXCEPT !.open = None]
        /\ \/ \E r \in mine, every \in BOOLEAN :
                  run[r].state = "running" /\ Ends(r, how, notes, every)
           \/ /\ \A r \in mine : run[r].state # "running"
              /\ run' = [r \in RunIds |-> IF r \in mine /\ run[r].state = "waiting"
                                          THEN [run[r] EXCEPT !.over = how] ELSE run[r]]
              /\ UNCHANGED pushes
        /\ UNCHANGED <<now, account, deviceVars, calls, notes, sendVars, events>>

\* The scheduler gives a run up that is still recorded waiting, in no turn.
RunMissed(r) ==
    /\ account.bot /\ run[r].state = "waiting"
    /\ run' = [run EXCEPT ![r].state = "ended", ![r].turn = None]
    /\ pushes' = RunEnded(r, IF account.disabled THEN "disabled" ELSE "missed", FALSE,
                          pushes, notes)
    /\ UNCHANGED <<now, account, deviceVars, turn, calls, notes, sendVars, events>>

CallMade ==
    /\ turn.open # None /\ turn.open \notin calls
    /\ Cardinality({n \in DOMAIN notes : notes[n].turn = turn.open}) < PerTurn
    /\ calls' = calls \cup {turn.open}
    /\ UNCHANGED <<now, account, deviceVars, run, turn, notes, pushes, sendVars, events>>

\* The run recorded in turn t, ended or not.
RunOfTurn(t) ==
    Max({r \in RunIds : run[r].turn = t /\ run[r].state # "waiting"} \cup {None})

Refused(t) ==
    \/ Cardinality({n \in DOMAIN notes : notes[n].turn = t}) >= PerTurn
    \/ Cardinality({n \in DOMAIN notes : notes[n].created > now - Hour}) >= PerHour

\* A notify call is served: its notification is recorded with its marker and,
\* outside a run, with its push, unless the turn or the hour has as many as
\* it may (`record`).
Notify(t, kind) ==
    /\ t \in calls
    /\ calls' = calls \ {t}
    /\ IF ~account.bot \/ Refused(t) THEN UNCHANGED <<notes, pushes>>
       ELSE LET r == RunOfTurn(t)
            IN  /\ notes' = Append(notes, [turn |-> t, run |-> r, kind |-> kind, created |-> now])
                /\ pushes' = IF r = None THEN Queued(pushes, "notify", Len(notes')) ELSE pushes
    /\ UNCHANGED <<now, account, deviceVars, run, turn, sendVars, events>>

-----------------------------------------------------------------------------
(* The sender *)

FirstOf(S, n) == {p \in S : Cardinality({q \in S : q < p}) < n}
Pending == {p \in DOMAIN pushes : pushes[p].state = "queued" /\ p > sender.after}

\* The sender, woken or by its timer, reads the next page of queued pushes;
\* an empty one ends its round (`deliver_pending`).
ReadPage ==
    /\ sender.page = {}
    /\ sender.on \/ Pending # {}
    /\ sender' = IF Pending = {} THEN Idle
                 ELSE [on |-> TRUE, page |-> FirstOf(Pending, Page), after |-> sender.after]
    /\ UNCHANGED <<now, account, deviceVars, turnVars, notes, pushes, tasks, flight, took, events,
                   claims>>

IsShown == \E c \in Connections : shownUntil[c] > now

\* The subscriptions of live sessions.
Targets == {s \in subs : s.session \in live /\ ~account.disabled}

\* Mutant: only the pushes already delivered count.
RecentDone == {p \in DOMAIN pushes : pushes[p].state \in {"sent", "failed"}
                                     /\ pushes[p].sent > now - Hour}

Recent == {p \in DOMAIN pushes : pushes[p].state \in {"sending", "sent", "failed"}
                                 /\ pushes[p].sent > now - Hour}

\* What becomes of a queued push (`decide`).
Decision(p) ==
    LET push == pushes[p]
    IN  IF now - push.created >= Hour THEN "expired"
        ELSE IF account.disabled THEN "disabled"
        ELSE IF push.cause = "notify" /\ notes[push.note].run # None THEN "merged"
        ELSE IF IsShown THEN "shown"
        ELSE IF Targets = {} THEN "unsubscribed"
        ELSE IF Cardinality(Recent) >= HourlyLimit THEN "limited" ELSE "send"

\* The next push of the page is decided, and marked, in one transaction; one
\* that is no longer queued is left alone.  The deliveries of a push to be
\* sent begin (`claim`).
Claim ==
    /\ sender.page # {}
    /\ LET p == Min(sender.page)
           decision == Decision(p)
       IN  /\ sender' = [sender EXCEPT !.page = @ \ {p}, !.after = p]
           /\ IF pushes[p].state # "queued"
              THEN UNCHANGED <<pushes, tasks, flight, claims>>
              ELSE IF decision # "send"
              THEN /\ pushes' = [pushes EXCEPT ![p].state = decision]
                   /\ UNCHANGED <<tasks, flight, claims>>
              ELSE /\ pushes' = [pushes EXCEPT ![p].state = "sending", ![p].sent = now]
                   /\ tasks' = tasks \cup {[push |-> p, id |-> s.id, endpoint |-> s.endpoint,
                                            tries |-> 0] : s \in Targets}
                   /\ flight' = flight \cup {p}
                   /\ claims' = Append(claims, [push |-> p, note |-> pushes[p].note, at |-> now])
    /\ UNCHANGED <<now, account, deviceVars, turnVars, notes, took, events>>

\* A claim that fails on the database ends the round.
ClaimFails ==
    /\ sender.page # {}
    /\ Happens
    /\ sender' = Idle
    /\ UNCHANGED <<now, account, deviceVars, turnVars, notes, pushes, tasks, flight, took, claims>>

\* The subscriptions without the one a delivery was for, unless its device
\* subscribed again meanwhile (`subscription::remove`).
Without(task) == {s \in subs : s.id # task.id \/ s.endpoint # task.endpoint}

Answered(task) == tasks' = tasks \ {task}

\* A delivery comes to an end: the push service took the push, says the
\* subscription is gone, or refuses.
Taken(task) ==
    /\ task.endpoint \notin gone
    /\ Answered(task) /\ took' = took \cup {task.push}
    /\ UNCHANGED <<now, account, deviceVars, turnVars, notes, pushes, sender, flight, events,
                   claims>>

Gone(task) ==
    /\ task.endpoint \in gone
    /\ Answered(task)
    /\ subs' = Without(task)
    /\ UNCHANGED <<now, account, shownUntil, live, gone, turnVars, notes, pushes, sender, flight, took,
                   events, claims>>

NotTaken(task) ==
    /\ Answered(task)
    /\ UNCHANGED <<now, account, deviceVars, turnVars, notes, pushes, sender, flight, took,
                   events, claims>>

\* One that may yet succeed is tried again, so often (`deliver_to`).
TriedAgain(task) ==
    /\ task.tries < Retries
    /\ tasks' = (tasks \ {task}) \cup {[task EXCEPT !.tries = @ + 1]}
    /\ UNCHANGED <<now, account, deviceVars, turnVars, notes, pushes, sender, flight, took,
                   events, claims>>

Deliver == \E task \in tasks :
               Taken(task) \/ Gone(task) \/ NotTaken(task) \/ TriedAgain(task)

\* Once the last delivery of a push ended, its row says whether any was taken.
Settle(p) ==
    /\ p \in flight
    /\ \A task \in tasks : task.push # p
    /\ pushes' = IF pushes[p].state # "sending" THEN pushes
                 ELSE [pushes EXCEPT ![p].state = IF p \in took THEN "sent" ELSE "failed"]
    /\ flight' = flight \ {p} /\ took' = took \ {p}
    /\ UNCHANGED <<now, account, deviceVars, turnVars, notes, sender, tasks, events, claims>>

-----------------------------------------------------------------------------
(* Devices, the push service, admins and the clock *)

\* A device's event socket says it shows the Bot, or stops saying so when it
\* shows another or closes.
Show(c) ==
    /\ Happens
    /\ \E until \in {now + Viewing, 0} :
           shownUntil[c] # until /\ shownUntil' = [shownUntil EXCEPT ![c] = until]
    /\ UNCHANGED <<now, account, live, subs, gone, turnVars, notes, pushes, sendVars>>

\* A session's subscription replaces its earlier one, in the same row, and
\* ends any other session's with its endpoint (`put`).
Subscribe(s, e) ==
    LET others == {x \in subs : x.endpoint # e \/ x.session = s}
        mine == {x \in others : x.session = s}
        id == IF mine # {} THEN (CHOOSE x \in mine : TRUE).id
              ELSE Max({x.id : x \in others} \cup {0}) + 1
    IN  /\ Happens
        /\ s \in live /\ e \notin gone
        /\ subs' = (others \ mine) \cup {[id |-> id, session |-> s, endpoint |-> e]}
        /\ subs' # subs
        /\ UNCHANGED <<now, account, shownUntil, live, gone, turnVars, notes, pushes, sendVars>>

Unsubscribe(s) ==
    /\ Happens
    /\ \E x \in subs : x.session = s
    /\ subs' = {x \in subs : x.session # s}
    /\ UNCHANGED <<now, account, shownUntil, live, gone, turnVars, notes, pushes, sendVars>>

\* A session is revoked, and its subscription with it, or expires.
EndSession(s, revoked) ==
    /\ Happens
    /\ s \in live
    /\ live' = live \ {s}
    /\ subs' = IF revoked THEN {x \in subs : x.session # s} ELSE subs
    /\ UNCHANGED <<now, account, shownUntil, gone, turnVars, notes, pushes, sendVars>>

EndpointGone(e) ==
    /\ Happens
    /\ e \notin gone /\ \E x \in subs : x.endpoint = e
    /\ gone' = gone \cup {e}
    /\ UNCHANGED <<now, account, shownUntil, live, subs, turnVars, notes, pushes, sendVars>>

\* An admin disables the account, which revokes its sessions.
Disable ==
    /\ Happens
    /\ ~account.disabled
    /\ account' = [account EXCEPT !.disabled = TRUE]
    /\ live' = {} /\ subs' = {}
    /\ UNCHANGED <<now, shownUntil, gone, turnVars, notes, pushes, sendVars>>

\* Deleting the Bot deletes its rows; the deliveries go on.
DeleteBot ==
    /\ Happens
    /\ account.bot
    /\ account' = [account EXCEPT !.bot = FALSE]
    /\ pushes' = [p \in DOMAIN pushes |-> [pushes[p] EXCEPT !.state = "deleted"]]
    /\ UNCHANGED <<now, deviceVars, turnVars, notes, sendVars>>

\* Once in a while, rows of a day ago that are settled and subscriptions of
\* ended sessions are deleted (`prune`).
Prune ==
    LET old == {p \in DOMAIN pushes :
                   /\ pushes[p].created =< now - Day
                   /\ pushes[p].state \notin {"queued", "sending", "deleted"}}
        ended == {x \in subs : x.session \notin live}
    IN  /\ old # {} \/ ended # {}
        /\ subs' = subs \ ended
        /\ pushes' = [p \in DOMAIN pushes |->
                         IF p \in old THEN [pushes[p] EXCEPT !.state = "deleted"] ELSE pushes[p]]
        /\ UNCHANGED <<now, account, shownUntil, live, gone, turnVars, notes, sendVars, events>>

\* Mutant: deliveries that were under way are forgotten.
RecoveredNot(ps) == ps

\* The pushes being delivered when the gateway stopped count as failed.
Recovered(ps) ==
    [p \in DOMAIN ps |-> IF ps[p].state = "sending" THEN [ps[p] EXCEPT !.state = "failed"]
                         ELSE ps[p]]

\* The gateway stops and starts: its tasks and what devices show are gone, a
\* running run is interrupted, and one not recorded running waits again.
Restart ==
    LET cut == {r \in RunIds : run[r].state = "running"}
        ends == IF cut = {} THEN Recovered(pushes)
                ELSE RunEnded(CHOOSE r \in cut : TRUE, "interrupted", FALSE,
                              Recovered(pushes), notes)
    IN  /\ Happens
        /\ shownUntil' = [c \in Connections |-> 0]
        /\ turn' = [turn EXCEPT !.open = None]
        /\ calls' = {}
        /\ sender' = Idle /\ tasks' = {} /\ flight' = {} /\ took' = {}
        /\ pushes' = IF account.bot THEN ends ELSE pushes
        /\ run' = [r \in RunIds |->
                      IF r \in cut THEN [run[r] EXCEPT !.state = "ended"]
                      ELSE IF run[r].state = "waiting"
                      THEN [run[r] EXCEPT !.turn = None, !.over = "no"] ELSE run[r]]
        /\ UNCHANGED <<now, account, live, subs, gone, notes, claims>>

\* A run ends at its deadline, long before its notifications' pushes are a
\* day old (module RoutineScheduler).
Clock ==
    /\ now < MaxTime
    /\ \A n \in DOMAIN notes, r \in RunIds :
           run[r].turn = notes[n].turn /\ run[r].state # "ended" =>
               now + 1 - notes[n].created < Day
    /\ now' = now + 1
    /\ UNCHANGED <<account, deviceVars, turnVars, notes, pushes, sendVars, events>>

Next ==
    \/ TurnBegins
    \/ \E r \in RunIds : RunTurnBegins(r) \/ MarkRunning(r) \/ RunMissed(r)
    \/ \E how \in {"succeeded", "failed", "paused", "stopped", "interrupted"} : TurnEnds(how)
    \/ CallMade
    \/ \E t \in calls, kind \in Kinds : Notify(t, kind)
    \/ ReadPage \/ Claim \/ ClaimFails \/ Deliver
    \/ \E p \in DOMAIN pushes : Settle(p)
    \/ \E c \in Connections : Show(c)
    \/ \E s \in Sessions : \/ \E e \in Endpoints : Subscribe(s, e)
                           \/ Unsubscribe(s)
                           \/ \E revoked \in BOOLEAN : EndSession(s, revoked)
    \/ \E e \in Endpoints : EndpointGone(e)
    \/ Disable \/ DeleteBot \/ Prune \/ Restart \/ Clock

Spec == Init /\ [][Next]_vars

-----------------------------------------------------------------------------
(* Correctness *)

\* No push is sent twice, and no notification goes out in two pushes: not
\* alone and with its run's push, though its run may become known after its
\* own push was queued, read or sent, and the gateway may stop in between
\* (`run_ended`, `claim`, `recover`).
PushedOnce ==
    \A i, j \in DOMAIN claims : i # j =>
        /\ claims[i].push # claims[j].push
        /\ claims[i].note # None => claims[i].note # claims[j].note

\* In no hour are more than HourlyLimit pushes sent, counting those still
\* being delivered, through restarts and the pruning of rows (`claim`).
HourlyLimitKept ==
    \A i \in DOMAIN claims :
        Cardinality({j \in DOMAIN claims : claims[j].at \in claims[i].at .. claims[i].at + Hour - 1})
            =< HourlyLimit

\* A push being delivered is one this gateway delivers, so that it is settled:
\* none is left as a stopped gateway left it (`recover`, `deliver`).
NoneStranded ==
    \A p \in DOMAIN pushes : pushes[p].state = "sending" => p \in flight

\* An answer about a subscription that its device has since replaced ends
\* only what it is about: delivering removes no subscription that the push
\* service still knows (`deliver_to`).
EndsOnlyGone ==
    [][Deliver => \A s \in subs \ subs' : s.endpoint \in gone]_vars

\* What a run's turn tells its owner reaches them: once the run ended, its
\* notification went out alone or is carried by the run's push (tools/notify.rs:
\* "In a run, the run's own push carries it when the run ends").
RunPushCarries ==
    \A n \in DOMAIN notes :
        LET r == notes[n].run
        IN  r # None /\ run[r].state = "ended" /\ account.bot /\ ~account.disabled =>
                \E p \in DOMAIN pushes :
                    pushes[p].note \in {m \in DOMAIN notes : notes[m].run = r}

=============================================================================
