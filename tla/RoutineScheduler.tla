-------------------------- MODULE RoutineScheduler --------------------------
(***************************************************************************)
(* The routines of one of a user's Bots and the scheduler that runs them   *)
(* (crates/bokkie-gateway/src/routines/mod.rs and store.rs).               *)
(*                                                                         *)
(* The scheduler's pass queues the runs of due routines, then sets off a   *)
(* task per waiting run, to start it, and per running run, to enforce its  *)
(* deadline; a task holds its run.  The pass is set off by a timer or by   *)
(* one of two wake-ups that each keep at most one permit.  Meanwhile the   *)
(* owner edits, the user's messages hold the Bot's send lock and start     *)
(* turns, the router ends turns, and the household signs in and out.       *)
(*                                                                         *)
(* Times are counted in a coarse unit: only their order against the four   *)
(* limits of a run is seen.  Schedules are sets of due times (how local    *)
(* times give them is module Schedule).  Steps that only read the database *)
(* before the first wait on another task are one action.  Left out:        *)
(* prompts, pushes (module Push), and database failures.                   *)
(***************************************************************************)
EXTENDS Integers, Sequences, FiniteSets, FiniteSetsExt

CONSTANTS
    Routines,         \* the routines of the Bot
    Schedules,        \* the sets of due times a schedule may have
    OtherZone,        \* how a change of time zone moves their due times
    Created,          \* those there may be at first
    FirstSchedule,    \* each routine's schedule at first
    MisfireWindow, BusyWait, RunDeadline, InterruptGrace,
    FailuresToPause,
    MaxTime,          \* bound: the last time, for all later ones
    MaxRuns,          \* bound: runs queued
    MaxManual,        \* bound: runs the owner asks for
    MaxEvents         \* bound: the owner's edits and messages, changes of the
                      \* account, app servers and gateways that stop

ASSUME SchedulerAssumption ==
    /\ IsFiniteSet(Routines) /\ Created \subseteq SUBSET Routines
    /\ Schedules \subseteq SUBSET (1..MaxTime)
    /\ FirstSchedule \in [Routines -> Schedules]
    /\ OtherZone \in [Schedules -> Schedules]
    /\ {MisfireWindow, BusyWait, RunDeadline, InterruptGrace} \subseteq Nat
    /\ FailuresToPause \in Nat \ {0}
    /\ {MaxTime, MaxRuns, MaxManual, MaxEvents} \subseteq Nat

VARIABLES
    now,
    account,   \* whether the account is disabled, the household signed in
    routine,   \* each routine's row
    run,       \* the runs' rows, in the order of their ids
    bot,       \* the Bot: its turn, its send lock, how often it turned idle
    router,    \* the turn whose end the router has still to record
    wakes,     \* the permits of `wake` and of `Conversations::idle`
    pass,      \* the scheduler's pass
    task,      \* the task that holds each run
    looks,     \* what tasks that let their run go compare with how often the Bot turned idle
    asking,    \* "run now" requests under way, by their run
    events,    \* how many of MaxEvents happened
    history    \* what no code keeps, for the properties

rows == <<account, routine, run>>
vars == <<now, account, routine, run, bot, router, wakes, pass, task, looks, asking,
          events, history>>

RunIds == 1..MaxRuns
None == 0
UserTurn == MaxRuns + 1
Never == MaxTime + 1
Free == <<"free", None>>
Ended == {"succeeded", "failed", "missed", "skipped", "interrupted", "deleted"}
TurnEndings == {"completed", "interrupted", "failed"}

Active == {i \in DOMAIN run : run[i].state \in {"waiting", "running"}}
RunsOf(r) == {i \in DOMAIN run : run[i].routine = r}

NextAfter(schedule, t) == Min({d \in schedule : d > t} \cup {Never})
\* Mutant: the first of the times missed.
EarliestUpTo(schedule, t) == Min({d \in schedule : d =< t} \cup {Never})

LatestUpTo(schedule, t) == Max({d \in schedule : d =< t} \cup {None})

\* The row of a routine scheduled from time t, and of a run.
NewRoutine(schedule, paused, t) ==
    [alive |-> TRUE, paused |-> paused, failures |-> 0, schedule |-> schedule,
     next |-> IF paused THEN Never ELSE NextAfter(schedule, t)]

NewRun(r, trigger, due, t, state) ==
    [routine |-> r, trigger |-> trigger, due |-> due, queued |-> t,
     state |-> state, waitingFor |-> "nothing", started |-> None,
     asked |-> None, turn |-> "none"]

Init ==
    /\ now = 1
    /\ account = [disabled |-> FALSE, signedIn |-> TRUE]
    /\ \E created \in Created :
           routine = [r \in Routines |->
               [NewRoutine(FirstSchedule[r], FALSE, 0) EXCEPT !.alive = r \in created]]
    /\ run = <<>>
    /\ bot = [turn |-> None, lock |-> Free, idled |-> 0]
    /\ router = None
    /\ wakes = [wake |-> FALSE, idle |-> FALSE]
    /\ pass = [at |-> "rest", time |-> 0, due |-> {}]
    /\ task = [i \in RunIds |-> [step |-> "none"]]
    /\ looks = {}
    /\ asking = {}
    /\ events = 0
    /\ history = [turns |-> [i \in RunIds |-> 0],      \* turns begun for a run since the restart
                  tried |-> [i \in RunIds |-> 0],      \* `idled` at its last attempt
                  since |-> [r \in Routines |-> 0]]    \* scheduled from then

\* Whether a limit has passed since `from`.  MaxTime stands for all later times.
Past(from, limit, time) == time - from >= limit \/ time = MaxTime

Happens == events < MaxEvents /\ events' = events + 1

-----------------------------------------------------------------------------
(* Rows *)

\* Mutant: an end written whatever the run's state.
FinishingAny(which, only) == which

\* The runs of `which` end in `state`; one that already ended is left alone
\* (`store::finish`, and with `only` = {"waiting"} `store::finish_waiting`).
Finishing(which, only) == {i \in which : run[i].state \in only}

\* An outcome counts against its routine: a failure, or a turn stopped at
\* its deadline, adds to its failures and may pause it; a success clears them.
CountOutcome(row, failed) ==
    IF ~failed THEN [row EXCEPT !.failures = 0]
    ELSE LET counted == [row EXCEPT !.failures = @ + 1]
         IN  IF counted.failures >= FailuresToPause /\ ~row.paused
             THEN [counted EXCEPT !.paused = TRUE, !.next = Never]
             ELSE counted

Counts(i, state) ==
    \/ state \in {"failed", "succeeded"}
    \/ state = "interrupted" /\ run[i].asked # None

\* At most one of `which` is an unfinished run of any routine.
EndRuns(which, only, state) ==
    LET ending == Finishing(which, only)
    IN  /\ run' = [i \in DOMAIN run |->
               IF i \in ending
               THEN [run[i] EXCEPT !.state = state, !.waitingFor = "nothing"]
               ELSE run[i]]
        /\ routine' = [r \in Routines |->
               IF routine[r].alive
                  /\ \E i \in ending : run[i].routine = r /\ Counts(i, state)
               THEN CountOutcome(routine[r], state # "succeeded")
               ELSE routine[r]]

\* How a run ends with its turn.
StateOf(ending) == CASE ending = "completed" -> "succeeded"
                     [] ending = "interrupted" -> "interrupted"
                     [] OTHER -> "failed"

\* Mutant: a run that waits is not looked for.
QueueBesideWaiting(r, row, trigger, due, time) ==
    /\ routine' = [routine EXCEPT ![r] = row]
    /\ Len(run) < MaxRuns
    /\ run' = Append(run, NewRun(r, trigger, due, time,
           IF \E i \in RunsOf(r) : run[i].state = "running"
           THEN "skipped" ELSE "waiting"))

\* Queues a run of r that is due at `due`, by its trigger: a row for it, or
\* none if the run that waits stands for it.  r's row becomes `row`.
Queue(r, row, trigger, due, time) ==
    LET active == {i \in Active : run[i].routine = r}
        missed == account.disabled \/ Past(due, MisfireWindow + 1, time)
        state == IF missed THEN "missed"
                 ELSE IF active = {} THEN "waiting" ELSE "skipped"
        coalesced == /\ state = "skipped"
                     /\ \E i \in active : run[i].state = "waiting"
    IN  /\ routine' = [routine EXCEPT ![r] = row]
        /\ IF coalesced
           THEN run' = [i \in DOMAIN run |->
                    IF i \in active /\ trigger = "schedule" /\ run[i].due < due
                    THEN [run[i] EXCEPT !.due = due]
                    ELSE run[i]]
           ELSE /\ Len(run) < MaxRuns
                /\ run' = Append(run, NewRun(r, trigger, due, time, state))

-----------------------------------------------------------------------------
(* The Bot *)

Working == bot.turn # None

\* The Bot turned idle, and the scheduler is woken: one permit is kept.
TurnedIdle(b) == /\ bot' = [b EXCEPT !.idled = @ + 1]
                 /\ wakes' = [wakes EXCEPT !.idle = TRUE]

\* Lets the Bot's lock go as `BotLock` does: while idle, the Bot turns idle.
LetLockGo ==
    IF Working
    THEN bot' = [bot EXCEPT !.lock = Free] /\ UNCHANGED wakes
    ELSE TurnedIdle([bot EXCEPT !.lock = Free])

\* A user's message takes the Bot's lock, and then starts a turn or steers
\* the running one, or is refused.
MessageArrives ==
    /\ bot.lock = Free
    /\ Happens
    /\ bot' = [bot EXCEPT !.lock = <<"user", None>>]
    /\ UNCHANGED <<now, rows, router, wakes, pass, task, looks, asking, history>>

MessageDone ==
    /\ bot.lock = <<"user", None>>
    /\ \/ ~Working /\ bot' = [bot EXCEPT !.lock = Free, !.turn = UserTurn]
                   /\ UNCHANGED wakes
       \/ LetLockGo
    /\ UNCHANGED <<now, rows, router, pass, task, looks, asking, events, history>>

\* The router hears that the turn ended: the Bot is no longer working ...
TurnEnds ==
    /\ Working /\ router = None
    /\ bot' = [bot EXCEPT !.turn = None]
    /\ router' = bot.turn
    /\ IF bot.turn = UserTurn
       THEN UNCHANGED run
       ELSE \E ending \in TurnEndings :
                run' = [run EXCEPT ![bot.turn].turn = ending]
    /\ UNCHANGED <<now, account, routine, wakes, pass, task, looks, asking, events,
                   history>>

\* ... and then, in the database, the run of that turn ends, if it is running.
TurnEndRecorded ==
    /\ router # None
    /\ IF router = UserTurn
       THEN UNCHANGED <<run, routine>>
       ELSE EndRuns({router}, {"running"}, StateOf(run[router].turn))
    /\ router' = None
    /\ TurnedIdle(bot)
    /\ UNCHANGED <<now, account, pass, task, looks, asking, events, history>>

\* The user's app server stops: its turn is gone, and running runs fail.
\* How the turn ended is not kept for a start that has yet to record its run.
AppServerStops ==
    /\ Working /\ router = None
    /\ Happens
    /\ EndRuns(DOMAIN run, {"running"}, "failed")
    /\ TurnedIdle([bot EXCEPT !.turn = None])
    /\ UNCHANGED <<now, account, router, pass, task, looks, asking, history>>

-----------------------------------------------------------------------------
(* The scheduler's pass *)

\* Only a start that waits on the app server, and what waits on people or
\* models, lasts long enough for the timer to fire or a unit of time to pass.
Quiet ==
    /\ pass.at = "rest" /\ ~wakes.wake /\ ~wakes.idle
    /\ looks = {} /\ router = None
    /\ \A i \in RunIds : task[i].step \in {"none", "starting"}

\* What sets off a pass: the timer, or a wake-up, whose permit it takes.  The
\* due routines are read at once.
BeginPass(cause) ==
    /\ pass.at = "rest"
    /\ IF cause = "tick"
       THEN Quiet /\ UNCHANGED wakes
       ELSE wakes[cause] /\ wakes' = [wakes EXCEPT ![cause] = FALSE]
    /\ pass' = [at |-> "queue", time |-> now,
                due |-> {r \in Routines : routine[r].alive /\ ~routine[r].paused
                                          /\ routine[r].next =< now}]
    /\ UNCHANGED <<now, rows, bot, router, task, looks, asking, events, history>>

\* A due routine, read again: an edit may have come between.  The times it
\* missed are coalesced into the latest.
FallDue(r) ==
    /\ pass.at = "queue" /\ r \in pass.due
    /\ pass' = [pass EXCEPT !.due = @ \ {r}]
    /\ LET row == routine[r]
           latest == LatestUpTo(row.schedule, pass.time)
       IN  IF row.alive /\ ~row.paused /\ row.next =< pass.time
           THEN Queue(r, [row EXCEPT !.next = NextAfter(row.schedule, pass.time)],
                      "schedule",
                      IF latest >= row.next THEN latest ELSE row.next,
                      pass.time)
           ELSE UNCHANGED <<run, routine>>
    /\ UNCHANGED <<now, account, bot, router, wakes, task, looks, asking, events, history>>

\* A task with what it read of its run; a run that is held is left alone.
Spawned(tasks, runs, step, time) ==
    [i \in RunIds |->
        IF i \in runs /\ tasks[i].step = "none"
        THEN [step |-> step, time |-> time, asked |-> run[i].asked,
              due |-> IF step = "start" THEN run[i].due ELSE None]
        ELSE tasks[i]]

RunsIn(state) == {i \in DOMAIN run : run[i].state = state}

\* Mutant: an interrupted turn is waited for.
DeadlineAsksOnce(row, asked, time) ==
    IF asked = None /\ Past(row.started, RunDeadline, time)
    THEN "interrupt" ELSE "nothing"

\* What a running run's deadline asks for at a time.
DeadlineAsks(row, asked, time) ==
    IF asked = None
    THEN IF Past(row.started, RunDeadline, time) THEN "interrupt" ELSE "nothing"
    ELSE IF Past(asked, InterruptGrace, time) THEN "end" ELSE "nothing"

\* The pass ends by setting off a task per waiting and per running run.  The
\* task of a run that its deadline asks nothing of ends at once.
SpawnTasks ==
    /\ pass.at = "queue" /\ pass.due = {}
    /\ task' = Spawned(Spawned(task, RunsIn("waiting"), "start", pass.time),
                      {i \in RunsIn("running") :
                          DeadlineAsks(run[i], run[i].asked, pass.time) # "nothing"},
                      "deadline", pass.time)
    /\ pass' = [at |-> "rest", time |-> 0, due |-> {}]
    /\ UNCHANGED <<now, rows, bot, router, wakes, looks, asking, events, history>>

-----------------------------------------------------------------------------
(* The tasks *)

At(i, step) == task[i].step = step
Goes(i, step) == task' = [task EXCEPT ![i].step = step]
LetsGo(i) == task' = [task EXCEPT ![i] = [step |-> "none"]]

\* A run that does not start waits on, or ends if it is still waiting.
WaitsFor(i, what) ==
    /\ run' = IF run[i].state = "waiting"
              THEN [run EXCEPT ![i].waitingFor = what] ELSE run
    /\ UNCHANGED routine

NotStarted(i, state) == EndRuns({i}, {"waiting"}, state) /\ LetsGo(i)

\* An attempt to start a run first reads how often the Bot has turned idle,
\* and takes the Bot's lock without waiting for it.  Under the lock it reads
\* the run and its routine again.
AttemptOutcome(i) ==
    LET row == run[i] IN
    IF account.disabled THEN "missed"
    ELSE IF ~routine[row.routine].alive THEN "gone"
    ELSE IF bot.lock # Free THEN "busy"
    ELSE IF row.state # "waiting" THEN "gone"
    ELSE IF routine[row.routine].paused /\ row.trigger = "schedule" THEN "paused"
    ELSE IF Working THEN "busy"
    ELSE "starts"

Attempt(i) ==
    /\ At(i, "start")
    /\ LET outcome == AttemptOutcome(i)
           late == Past(run[i].queued, BusyWait, task[i].time)
       IN  \/ outcome = "starts" /\ Goes(i, "starting") /\ UNCHANGED <<run, routine>>
           \/ outcome = "gone" /\ LetsGo(i) /\ UNCHANGED <<run, routine>>
           \/ outcome = "missed" /\ NotStarted(i, "missed")
           \/ /\ outcome = "paused" \/ (outcome = "busy" /\ late)
              /\ NotStarted(i, "skipped")
           \/ /\ outcome = "busy" /\ ~late
              /\ WaitsFor(i, "bot")
              /\ task' = [task EXCEPT ![i] = [step |-> "waits", idled |-> bot.idled]]
    /\ bot' = IF task'[i].step = "starting" THEN [bot EXCEPT !.lock = <<"run", i>>]
              ELSE bot
    /\ history' = [history EXCEPT !.tried[i] =
           IF task'[i].step = "waits" THEN bot.idled ELSE 0]
    /\ UNCHANGED <<now, account, router, wakes, pass, looks, asking, events>>

\* The start fails under the lock: the Bot or the turn is refused, no turn is
\* left, or the household is signed out.  Letting this lock go wakes nobody.
StartFails(i) ==
    /\ At(i, "starting")
    /\ \/ Goes(i, "failed")
       \/ ~account.signedIn /\ Goes(i, "signedOut")
    /\ bot' = [bot EXCEPT !.lock = Free]
    /\ UNCHANGED <<now, rows, router, wakes, pass, looks, asking, events, history>>

\* Codex starts the turn, which may end before its run is marked running.
TurnBegins(i) ==
    /\ At(i, "starting")
    /\ account.signedIn
    /\ bot' = [bot EXCEPT !.turn = i]
    /\ run' = [run EXCEPT ![i].turn = "going"]
    /\ Goes(i, "begun")
    /\ history' = [history EXCEPT !.turns[i] = @ + 1]
    /\ UNCHANGED <<now, account, routine, router, wakes, pass, looks, asking, events>>

\* The run is running, or ends at once if its turn is known to have ended,
\* before the lock is let go.
MarkRunning(i) ==
    /\ At(i, "begun")
    /\ IF run[i].state # "waiting"
       THEN UNCHANGED <<run, routine>>
       ELSE IF run[i].turn \in TurnEndings
       THEN EndRuns({i}, {"waiting"}, StateOf(run[i].turn))
       ELSE /\ run' = [run EXCEPT ![i].state = "running", ![i].started = now,
                                  ![i].waitingFor = "nothing"]
            /\ UNCHANGED routine
    /\ bot' = [bot EXCEPT !.lock = Free]
    /\ LetsGo(i)
    /\ UNCHANGED <<now, account, router, wakes, pass, looks, asking, events, history>>

\* A run whose start failed has failed, and one that found the household
\* signed out waits for it, until it is missed.
StartFailed(i) ==
    /\ \/ At(i, "failed") /\ NotStarted(i, "failed")
       \/ /\ At(i, "signedOut") /\ Past(task[i].due, MisfireWindow + 1, task[i].time)
          /\ NotStarted(i, "missed")
       \/ /\ At(i, "signedOut") /\ ~Past(task[i].due, MisfireWindow + 1, task[i].time)
          /\ WaitsFor(i, "signIn") /\ LetsGo(i)
    /\ UNCHANGED <<now, account, bot, router, wakes, pass, looks, asking, events, history>>

\* A run past its deadline is marked, and its turn interrupted; a marked one
\* whose turn has not ended soon after is ended anyway.
EnforceDeadline(i) ==
    /\ At(i, "deadline")
    /\ IF DeadlineAsks(run[i], task[i].asked, task[i].time) = "end"
       THEN EndRuns({i}, {"waiting", "running"}, "interrupted")
       ELSE /\ run' = IF run[i].state = "running" /\ run[i].asked = None
                      THEN [run EXCEPT ![i].asked = task[i].time] ELSE run
            /\ UNCHANGED routine
    /\ LetsGo(i)
    /\ UNCHANGED <<now, account, bot, router, wakes, pass, looks, asking, events, history>>

\* Mutant: the task does not look again.
LetRunGoUnlooked(i) ==
    /\ At(i, "waits")
    /\ LetsGo(i)
    /\ UNCHANGED <<now, rows, bot, router, wakes, pass, looks, asking, events, history>>

\* The task of a run that waits for the Bot lets it go ...
LetRunGo(i) ==
    /\ At(i, "waits")
    /\ LetsGo(i)
    /\ looks' = looks \cup {task[i].idled}
    /\ UNCHANGED <<now, rows, bot, router, wakes, pass, asking, events, history>>

\* ... and then wakes the scheduler if the Bot turned idle since the task began
\* its attempt: the pass that set off may have left the run to it.
LookAgain(idled) ==
    /\ idled \in looks
    /\ looks' = looks \ {idled}
    /\ wakes' = IF bot.idled # idled THEN [wakes EXCEPT !.wake = TRUE] ELSE wakes
    /\ UNCHANGED <<now, rows, bot, router, pass, task, asking, events, history>>

-----------------------------------------------------------------------------
(* The owner *)

\* "Run now" queues a manual run, paused or not, sets off starting it, waits
\* until no task holds it, and wakes the scheduler.
RunNow(r) ==
    /\ routine[r].alive
    /\ now =< LatestUpTo(UNION Schedules, MaxTime)
    /\ Cardinality({i \in DOMAIN run : run[i].trigger = "manual"}) < MaxManual
    /\ Queue(r, routine[r], "manual", now, now)
    /\ LET new == {i \in {Len(run')} \ DOMAIN run : run'[i].state = "waiting"}
       IN  /\ asking' = asking \cup new
           /\ task' = [i \in RunIds |->
                  IF i \in new
                  THEN [step |-> "start", time |-> now, asked |-> None,
                        due |-> now]
                  ELSE task[i]]
    /\ UNCHANGED <<now, account, bot, router, wakes, pass, looks, events, history>>

AskEnds(i) ==
    /\ i \in asking /\ At(i, "none")
    /\ asking' = asking \ {i}
    /\ wakes' = [wakes EXCEPT !.wake = TRUE]
    /\ UNCHANGED <<now, rows, bot, router, pass, task, looks, events, history>>

\* Mutant: pausing does not wait for the Bot's lock.
AskPauseUnlocked(r) ==
    /\ Happens
    /\ routine' = [routine EXCEPT ![r].paused = TRUE, ![r].next = Never]
    /\ run' = [i \in DOMAIN run |->
           IF i \in RunsOf(r) /\ run[i].state = "waiting"
           THEN [run[i] EXCEPT !.state = "skipped", !.waitingFor = "nothing"]
           ELSE run[i]]
    /\ UNCHANGED <<now, account, bot, router, wakes, pass, task, looks, asking, history>>

\* A routine scheduled from now, its missed times left behind.
FromNow(row, schedule) ==
    [row EXCEPT !.schedule = schedule,
                !.next = IF row.paused THEN Never ELSE NextAfter(schedule, now)]

Since(rs) == [history EXCEPT !.since = [r \in Routines |->
                                           IF r \in rs THEN now ELSE @[r]]]

\* A new routine, which the owner may create paused.
Create(r) ==
    /\ ~routine[r].alive
    /\ r \notin {run[i].routine : i \in DOMAIN run}
    /\ Happens
    /\ \E schedule \in Schedules, paused \in BOOLEAN :
           routine' = [routine EXCEPT ![r] = NewRoutine(schedule, paused, now)]
    /\ history' = Since({r})
    /\ UNCHANGED <<now, account, run, bot, router, wakes, pass, task, looks, asking>>

\* Pausing waits for the Bot's lock ...
AskPause(r) ==
    /\ Happens
    /\ bot.lock = Free
    /\ bot' = [bot EXCEPT !.lock = <<"pause", r>>]
    /\ UNCHANGED <<now, rows, router, wakes, pass, task, looks, asking, history>>

\* ... and skips the run that waits.
Pause(r) ==
    /\ bot.lock = <<"pause", r>>
    /\ IF ~routine[r].alive
       THEN UNCHANGED <<run, routine>>
       ELSE /\ routine' = [routine EXCEPT ![r].paused = TRUE, ![r].next = Never]
            /\ run' = [i \in DOMAIN run |->
                   IF /\ i \in RunsOf(r) /\ run[i].state = "waiting"
                      /\ ~routine[r].paused
                   THEN [run[i] EXCEPT !.state = "skipped", !.waitingFor = "nothing"]
                   ELSE run[i]]
    /\ LetLockGo
    /\ UNCHANGED <<now, account, router, pass, task, looks, asking, events, history>>

Resume(r) ==
    /\ routine[r].alive /\ routine[r].paused
    /\ Happens
    /\ routine' = [routine EXCEPT ![r] =
           FromNow([@ EXCEPT !.paused = FALSE, !.failures = 0], @.schedule)]
    /\ history' = Since({r})
    /\ UNCHANGED <<now, account, run, bot, router, wakes, pass, task, looks, asking>>

Reschedule(r) ==
    /\ routine[r].alive
    /\ Happens
    /\ \E schedule \in Schedules \ {routine[r].schedule} :
           routine' = [routine EXCEPT ![r] = FromNow(@, schedule)]
    /\ history' = Since({r})
    /\ UNCHANGED <<now, account, run, bot, router, wakes, pass, task, looks, asking>>

\* A new time zone moves the due times of every routine.
SetTimeZone ==
    /\ Happens
    /\ routine' = [r \in Routines |->
           IF routine[r].alive /\ ~routine[r].paused
           THEN FromNow(routine[r], OtherZone[routine[r].schedule])
           ELSE routine[r]]
    /\ history' = Since(Routines)
    /\ UNCHANGED <<now, account, run, bot, router, wakes, pass, task, looks, asking>>

\* A deleted routine takes its history along; a turn of it carries on.
Delete(r) ==
    /\ routine[r].alive
    /\ Happens
    /\ routine' = [routine EXCEPT ![r].alive = FALSE]
    /\ run' = [i \in DOMAIN run |-> IF i \in RunsOf(r)
                                    THEN [run[i] EXCEPT !.state = "deleted",
                                                        !.waitingFor = "nothing"]
                                    ELSE run[i]]
    /\ UNCHANGED <<now, account, bot, router, wakes, pass, task, looks, asking,
                   history>>

AccountChanges ==
    /\ Happens
    /\ \/ account' = [account EXCEPT !.disabled = ~@]
       \/ account' = [account EXCEPT !.signedIn = ~@]
    /\ UNCHANGED <<now, routine, run, bot, router, wakes, pass, task, looks,
                   asking, history>>

-----------------------------------------------------------------------------
(* Time, and restarts *)

Clock ==
    /\ now < MaxTime
    /\ Quiet
    /\ now' = now + 1
    /\ UNCHANGED <<rows, bot, router, wakes, pass, task, looks, asking, events,
                   history>>

\* The gateway restarts: running runs fail, waiting runs carry on, and what
\* was in memory is gone.
Restart ==
    /\ Happens
    /\ EndRuns(DOMAIN run, {"running"}, "failed")
    /\ bot' = [turn |-> None, lock |-> Free, idled |-> 0]
    /\ router' = None
    /\ wakes' = [wake |-> FALSE, idle |-> FALSE]
    /\ pass' = [at |-> "rest", time |-> 0, due |-> {}]
    /\ task' = [i \in RunIds |-> [step |-> "none"]]
    /\ looks' = {}
    /\ asking' = {}
    /\ history' = [history EXCEPT !.tried = [i \in RunIds |-> 0],
                                  !.turns = [i \in RunIds |-> 0]]
    /\ UNCHANGED <<now, account>>

\* A task's steps that wait on nothing but the database or Codex.
TaskStep(i) ==
    \/ Attempt(i) \/ StartFails(i) \/ TurnBegins(i) \/ MarkRunning(i)
    \/ StartFailed(i) \/ EnforceDeadline(i) \/ LetRunGo(i)
    \/ AskEnds(i)

PassStep ==
    \/ \E r \in Routines : FallDue(r)
    \/ SpawnTasks

OwnerStep ==
    \/ \E r \in Routines : \/ Create(r) \/ RunNow(r) \/ AskPause(r) \/ Pause(r) \/ Resume(r)
                           \/ Reschedule(r) \/ Delete(r)
    \/ SetTimeZone

Next ==
    \/ \E cause \in {"tick", "wake", "idle"} : BeginPass(cause)
    \/ PassStep
    \/ \E i \in RunIds : TaskStep(i)
    \/ \E idled \in looks : LookAgain(idled)
    \/ OwnerStep
    \/ MessageArrives \/ MessageDone
    \/ TurnEnds \/ TurnEndRecorded \/ AppServerStops
    \/ AccountChanges
    \/ Clock \/ Restart

Spec == Init /\ [][Next]_vars

-----------------------------------------------------------------------------
(* Correctness *)

\* The runs of a routine do not overlap, whoever queues them: at most one is
\* unfinished, and a run begins at most one turn, however many attempts and
\* requests to run now race for it (`queue`, `start_routine`), unless the
\* gateway restarts before the run is marked running.
RunsDoNotOverlap ==
    /\ \A i, j \in Active : run[i].routine = run[j].routine => i = j
    /\ \A i \in RunIds : history.turns[i] =< 1

\* While a routine is not paused, its failed runs in a row are fewer than
\* those that pause it, whichever of the router, the scheduler, a restart or
\* a failed start ended them; and a paused one falls due never.
PausedAfterFailures ==
    \A r \in Routines : routine[r].alive /\ ~routine[r].paused =>
        routine[r].failures < FailuresToPause

\* Every due time since the routine was last scheduled by its owner is either
\* still to fall due or stood for by a run due at it or later: passes that
\* overslept, coalesced times and runs under way lose none (`fall_due`).
NoTimeLost ==
    \A r \in Routines :
        LET row == routine[r]
            passed == {d \in row.schedule : history.since[r] < d /\ d < row.next}
        IN  row.alive /\ ~row.paused /\ passed # {} =>
                \E i \in RunsOf(r) : run[i].due >= Max(passed)

\* No wake-up is lost: once the scheduler, its tasks and its wake-ups are at
\* rest, a run that waits for the Bot was last tried after the Bot last
\* turned idle, without the help of the timer (`spawn_start`).
NoLostWake ==
    (/\ pass.at = "rest" /\ ~wakes.wake /\ ~wakes.idle /\ looks = {} /\ asking = {}
     /\ \A i \in RunIds : task[i].step = "none") =>
        \A i \in Active : run[i].waitingFor = "bot" => history.tried[i] = bot.idled

\* A scheduled run's turn never begins once its routine is paused: a run
\* starts before the pause or not at all (`Routines::update`).
PausedStartsNothing ==
    [][\A i \in RunIds :
         history'.turns[i] > history.turns[i] /\ run[i].trigger = "schedule" =>
             ~routine[run[i].routine].paused]_vars

\* A run that ended stays as it ended, though its turn, a deadline, a late
\* attempt, a pause and a restart all may end it.
EndsOnce ==
    [][\A i \in DOMAIN run :
         run[i].state \in Ended => run'[i].state \in {run[i].state, "deleted"}]_vars

-----------------------------------------------------------------------------
(* Progress: the timer, the tasks and the clock go on, and what holds the    *)
(* Bot's lock lets it go.  Turns need not end.                               *)

Fairness ==
    /\ \A cause \in {"tick", "wake", "idle"} : WF_vars(BeginPass(cause))
    /\ WF_vars(PassStep)
    /\ \A i \in RunIds : WF_vars(TaskStep(i))
    /\ WF_vars(\E idled \in looks : LookAgain(idled))
    /\ WF_vars(TurnEndRecorded)
    /\ SF_vars(Clock)
    /\ WF_vars(MessageDone)
    /\ \A r \in Routines : WF_vars(Pause(r))

FairSpec == Spec /\ Fairness

\* Every run ends: it starts or gives up waiting for the Bot or the sign-in,
\* and one that started ends even if its turn never does and its interrupt
\* is lost (`attempt`, `enforce_deadline`).
RunsEnd ==
    \A i \in RunIds : i \in Active ~> i \notin Active

=============================================================================
