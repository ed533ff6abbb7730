-------------------------- MODULE MCRoutineScheduler -------------------------
(* An instance of RoutineScheduler for TLC. *)
EXTENDS RoutineScheduler

OneOrTwo == {{1}, {1, 2}}
TwoSchedules == {{1, 2}, {2}}
SwapZone == [s \in Schedules |-> CHOOSE t \in Schedules : t # s]
OneEach == [r \in Routines |-> IF r = 1 THEN {1, 2} ELSE {2}]

\* States that differ only in what nothing reads again are one to TLC: how
\* often the Bot turned idle, but for whether that changed, and of a run
\* that ended, all but its routine and when it was due.
Relevant ==
    <<now, account, routine, router, wakes, pass, asking, events,
      bot.turn, bot.lock, {n = bot.idled : n \in looks},
      [i \in DOMAIN run |->
          IF i \in Active
          THEN IF run[i].state = "waiting" THEN run[i]
               ELSE <<run[i].routine, run[i].due, run[i].started, run[i].asked,
                      IF router = i THEN run[i].turn ELSE "none">>
          ELSE <<run[i].routine, run[i].due, run[i].state = "deleted",
                 IF At(i, "begun") \/ router = i THEN run[i].turn ELSE "none">>],
      [i \in RunIds |-> IF At(i, "waits") THEN task[i].idled = bot.idled ELSE task[i]],
      [i \in DOMAIN run |-> /\ i \in Active /\ run[i].waitingFor = "bot"
                            /\ history.tried[i] = bot.idled],
      history.since>>

=============================================================================
