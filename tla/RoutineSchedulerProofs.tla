----------------------- MODULE RoutineSchedulerProofs -----------------------
(*****************************************************************************)
(* What the scheduler guarantees for any number of routines and runs,        *)
(* whatever the schedules and the limits.  The inductive invariant says what *)
(* the tasks that hold runs know of them, why a routine of a run that is     *)
(* being started is not paused, what each missed time is stood for by, and   *)
(* what will try a run that waits for the Bot.                               *)
(*****************************************************************************)
EXTENDS RoutineScheduler, Extrema

States == {"waiting", "running"} \cup Ended
Turns == {"none", "going"} \cup TurnEndings
Steps == {"start", "starting", "begun", "failed", "signedOut", "deadline"}

RoutineRows == [alive : BOOLEAN, paused : BOOLEAN, failures : Nat, schedule : Schedules,
                next : Nat]
RunRows == [routine : Routines, trigger : {"schedule", "manual"}, due : Nat, queued : Nat,
            state : States, waitingFor : {"nothing", "bot", "signIn"}, started : Nat,
            asked : Nat, turn : Turns]
TaskRows == [step : {"none"}] \cup [step : {"waits"}, idled : Nat]
               \cup [step : Steps, time : Nat, asked : Nat, due : Nat]

Locks == ({"free", "user"} \X {None}) \cup ({"pause"} \X Routines) \cup ({"run"} \X RunIds)
BotRows == [turn : 0..UserTurn, lock : Locks, idled : Nat]

TypeOK ==
    /\ now \in Nat
    /\ account \in [disabled : BOOLEAN, signedIn : BOOLEAN]
    /\ routine \in [Routines -> RoutineRows]
    /\ run \in Seq(RunRows)
    /\ bot \in BotRows
    /\ wakes \in [wake : BOOLEAN, idle : BOOLEAN]
    /\ pass \in [at : {"rest", "queue"}, time : Nat, due : SUBSET Routines]
    /\ task \in [RunIds -> TaskRows]
    /\ history \in [turns : [RunIds -> Nat], tried : [RunIds -> Nat], since : [Routines -> Nat]]

\* Tasks, turns and what the router has to record are of runs there are.
OfRuns ==
    /\ Len(run) =< MaxRuns
    /\ \A i \in RunIds : i \notin DOMAIN run => task[i].step = "none" /\ history.turns[i] = 0
    /\ {bot.turn, router} \subseteq DOMAIN run \cup {None, UserTurn}

\* At most one run of a routine is unfinished; its routine is there, and it
\* waits for something only before it runs.
OneActive ==
    /\ \A i, j \in Active : run[i].routine = run[j].routine => i = j
    /\ \A i \in Active : routine[run[i].routine].alive
    /\ \A i \in DOMAIN run : run[i].state # "waiting" => run[i].waitingFor = "nothing"

\* The task that starts a run holds the Bot's lock, and so keeps its routine
\* from being paused; a run has a turn only once it is started.
Holds(i) ==
    /\ task[i].step \in {"starting", "begun"} => bot.lock = <<"run", i>>
    /\ task[i].step = "starting" =>
           /\ history.turns[i] = 0
           /\ run[i].state = "waiting" \/ ~routine[run[i].routine].alive
           /\ run[i].trigger = "schedule" => ~routine[run[i].routine].paused
    /\ task[i].step = "deadline" => run[i].state # "waiting"
    /\ task[i].step = "waits" => history.tried[i] = task[i].idled
    /\ run[i].state = "waiting" /\ task[i].step # "begun" => history.turns[i] = 0
    /\ history.turns[i] =< 1

TasksHold == \A i \in DOMAIN run : Holds(i)

\* Each due time there was since the routine was scheduled has a run.
TimesStood ==
    \A r \in Routines :
        LET row == routine[r]
        IN  row.alive /\ ~row.paused =>
                \A d \in row.schedule :
                    history.since[r] < d /\ d < row.next => \E i \in RunsOf(r) : run[i].due >= d

\* Whatever waits for the Bot was tried since the Bot last turned idle, or
\* something goes on that will try it.
Woken(i) ==
    \/ history.tried[i] = bot.idled
    \/ wakes.wake \/ wakes.idle
    \/ pass.at = "queue"
    \/ task[i].step \in Steps
    \/ task[i].step = "waits" /\ task[i].idled # bot.idled
    \/ \E idled \in looks : idled # bot.idled

AllWoken == \A i \in Active : run[i].waitingFor = "bot" => Woken(i)

IInv == TypeOK /\ OfRuns /\ OneActive /\ TasksHold /\ TimesStood /\ AllWoken /\ PausedAfterFailures

-----------------------------------------------------------------------------

\* What a step may do to a run's row: a run never waits again, and how it ended
\* stays, unless its routine is deleted.
RowGoes(x, y) ==
    /\ y.routine = x.routine /\ y.trigger = x.trigger /\ y.due >= x.due
    /\ x.state \in Ended => y.state \in {x.state, "deleted"}
    /\ y.state = "waiting" => x.state = "waiting"
    /\ (x.state # "waiting" => x.waitingFor = "nothing")
           => (y.state # "waiting" => y.waitingFor = "nothing")

\* What a step may do to the rows.
RowsGo ==
    /\ run' \in Seq(RunRows) /\ routine' \in [Routines -> RoutineRows]
    /\ Len(run') \in {Len(run), Len(run) + 1}
    /\ Len(run) =< MaxRuns => Len(run') =< MaxRuns
    /\ \A i \in 1..Len(run) :
          /\ RowGoes(run[i], run'[i])
          /\ ~routine'[run[i].routine].alive =>
                ~routine[run[i].routine].alive \/ run'[i].state = "deleted"
    /\ Len(run') = Len(run) + 1 =>
          LET new == run'[Len(run')]
          IN  /\ routine'[new.routine].alive
              /\ new.state # "running" /\ new.waitingFor = "nothing"
              /\ new.state = "waiting" => \A i \in Active : run[i].routine # new.routine

\* A sequence whose elements change stays one.
LEMMA SameLength ==
    ASSUME NEW S, NEW ps \in Seq(S), NEW qs,
           qs = [p \in DOMAIN ps |-> qs[p]], \A p \in 1..Len(ps) : qs[p] \in S
    PROVE  qs \in Seq(S) /\ Len(qs) = Len(ps)
<1>1. DOMAIN ps = 1..Len(ps) /\ Len(ps) \in Nat
    OBVIOUS
<1> QED BY <1>1

\* What the rows are.
LEMMA RowTypes ==
    ASSUME TypeOK
    PROVE  /\ DOMAIN run = 1..Len(run) /\ Len(run) \in Nat
           /\ \A i \in 1..Len(run) : run[i] \in RunRows
           /\ \A r \in Routines : routine[r] \in RoutineRows
           /\ Never \in Nat /\ MaxRuns \in Nat /\ MaxTime \in Nat
<1> HIDE DEF RunRows, RoutineRows
<1>1. run \in Seq(RunRows) /\ routine \in [Routines -> RoutineRows]
    BY DEF TypeOK
<1>2. MaxRuns \in Nat /\ MaxTime \in Nat
    BY SchedulerAssumption
<1> QED BY <1>1, <1>2 DEF Never

\* One row takes another value; the others stay.
LEMMA OneRow ==
    ASSUME TypeOK, NEW i \in DOMAIN run, NEW row \in RunRows, run' = [run EXCEPT ![i] = row]
    PROVE  /\ run' \in Seq(RunRows) /\ Len(run') = Len(run)
           /\ \A j \in 1..Len(run) : run'[j] = IF j = i THEN row ELSE run[j]
<1> HIDE DEF RunRows
<1>1. run \in Seq(RunRows)
    BY DEF TypeOK
<1>2. \A j \in 1..Len(run) : run'[j] = IF j = i THEN row ELSE run[j]
    BY RowTypes
<1>3. \A j \in 1..Len(run) : run'[j] \in RunRows
    BY <1>2, RowTypes
<1>4. run' = [j \in DOMAIN run |-> run'[j]]
    OBVIOUS
<1> QED BY <1>1, <1>2, <1>3, <1>4, SameLength

\* An outcome pauses a routine, or leaves what it is due for.
LEMMA CountKeeps ==
    ASSUME NEW row \in RoutineRows, NEW failed \in BOOLEAN
    PROVE  LET new == CountOutcome(row, failed)
           IN  /\ new \in RoutineRows
               /\ new.alive = row.alive /\ new.schedule = row.schedule
               /\ \/ new.paused
                  \/ new.paused = row.paused /\ new.next = row.next
               /\ ~new.paused => new.failures < FailuresToPause
<1> DEFINE counted == [row EXCEPT !.failures = @ + 1]
           new == CountOutcome(row, failed)
<1>1. Never \in Nat /\ FailuresToPause \in Nat \ {0}
    BY SchedulerAssumption DEF Never
<1>5. /\ counted \in RoutineRows /\ counted.alive = row.alive /\ counted.schedule = row.schedule
      /\ counted.paused = row.paused /\ counted.next = row.next
    BY DEF RoutineRows
<1>2. CASE ~failed
    BY <1>1, <1>2 DEF CountOutcome, RoutineRows
<1>3. CASE failed /\ counted.failures >= FailuresToPause /\ ~row.paused
    <2>1. new = [counted EXCEPT !.paused = TRUE, !.next = Never]
        BY <1>3 DEF CountOutcome
    <2>2. /\ new \in RoutineRows /\ new.alive = row.alive /\ new.schedule = row.schedule
          /\ new.paused = TRUE
        <3> HIDE DEF counted, new
        <3> QED BY <1>1, <1>5, <2>1 DEF RoutineRows
    <2> QED BY <2>2, Zenon
<1>4. CASE failed /\ ~(counted.failures >= FailuresToPause /\ ~row.paused)
    <2>1. new = counted
        BY <1>4 DEF CountOutcome
    <2>2. /\ new \in RoutineRows /\ new.alive = row.alive /\ new.schedule = row.schedule
          /\ new.paused = row.paused /\ new.next = row.next
        <3> HIDE DEF counted, new
        <3> QED BY <1>5, <2>1
    <2>3. new.failures \in Nat /\ new.failures = counted.failures
        <3> HIDE DEF counted, new
        <3> QED BY <2>1, <2>2 DEF RoutineRows
    <2>4. ~row.paused => new.failures < FailuresToPause
        <3> HIDE DEF new, counted
        <3> QED BY <1>1, <1>4, <2>3
    <2> QED BY <2>2, <2>4, Zenon
<1> QED BY <1>2, <1>3, <1>4

\* Ending runs of `which` that are in one of the states `only`.
EndsRuns(which, only, state) ==
    /\ run' \in Seq(RunRows) /\ Len(run') = Len(run)
    /\ routine' \in [Routines -> RoutineRows]
    /\ \A i \in 1..Len(run) :
          run'[i] = IF i \in which /\ run[i].state \in only
                    THEN [run[i] EXCEPT !.state = state, !.waitingFor = "nothing"] ELSE run[i]
    /\ \A r \in Routines :
          /\ routine'[r].alive = routine[r].alive /\ routine'[r].schedule = routine[r].schedule
          /\ \/ routine'[r].paused
             \/ routine'[r].paused = routine[r].paused /\ routine'[r].next = routine[r].next
          /\ routine'[r] # routine[r] =>
                /\ routine[r].alive
                /\ \E i \in which : run[i].state \in only /\ run[i].routine = r
                /\ ~routine'[r].paused => routine'[r].failures < FailuresToPause

\* Runs that end change their rows, and the row of a routine only if one of
\* its runs ends.
LEMMA EndRunsShape ==
    ASSUME TypeOK, NEW which \in SUBSET DOMAIN run, NEW only \in SUBSET {"waiting", "running"},
           NEW state \in Ended \ {"deleted"}, EndRuns(which, only, state)
    PROVE  EndsRuns(which, only, state) /\ RowsGo
<1> DEFINE ending == Finishing(which, only)
<1>1. ending = {i \in which : run[i].state \in only}
    BY DEF Finishing
<1>2. /\ run' = [i \in DOMAIN run |->
                    IF i \in ending
                    THEN [run[i] EXCEPT !.state = state, !.waitingFor = "nothing"] ELSE run[i]]
      /\ routine' = [r \in Routines |->
                        IF routine[r].alive
                           /\ \E i \in ending : run[i].routine = r /\ Counts(i, state)
                        THEN CountOutcome(routine[r], state # "succeeded")
                        ELSE routine[r]]
    BY DEF EndRuns
<1> HIDE DEF ending
<1>3. \A i \in 1..Len(run) :
          run'[i] = IF i \in which /\ run[i].state \in only
                    THEN [run[i] EXCEPT !.state = state, !.waitingFor = "nothing"] ELSE run[i]
    BY <1>1, <1>2, RowTypes
<1>4. \A i \in 1..Len(run) : run'[i] \in RunRows /\ RowGoes(run[i], run'[i])
    <2> SUFFICES ASSUME NEW i \in 1..Len(run)
                 PROVE  run'[i] \in RunRows /\ RowGoes(run[i], run'[i])
        OBVIOUS
    <2>1. run[i] \in RunRows /\ state \in States
        BY RowTypes DEF States
    <2>2. CASE run'[i] = run[i]
        BY <2>1, <2>2 DEF RowGoes, RunRows
    <2>3. CASE /\ run[i].state \in only
               /\ run'[i] = [run[i] EXCEPT !.state = state, !.waitingFor = "nothing"]
        <3>1. run[i].state \notin Ended /\ state # "waiting" /\ state # "running"
            BY <2>3 DEF Ended
        <3>2. /\ run'[i].routine = run[i].routine /\ run'[i].trigger = run[i].trigger
              /\ run'[i].due = run[i].due /\ run'[i].state = state
              /\ run'[i].waitingFor = "nothing" /\ run[i].due \in Nat /\ run'[i] \in RunRows
            BY <2>1, <2>3 DEF RunRows
        <3> QED BY <3>1, <3>2 DEF RowGoes
    <2> QED BY <1>3, <2>2, <2>3
<1>5. run' \in Seq(RunRows) /\ Len(run') = Len(run)
    <2> HIDE DEF RunRows
    <2>1. run' = [i \in DOMAIN run |-> run'[i]] /\ run \in Seq(RunRows)
        BY <1>2 DEF TypeOK
    <2> QED BY <1>4, <2>1, SameLength
<1>6. ASSUME NEW r \in Routines
      PROVE  /\ routine'[r] \in RoutineRows
             /\ routine'[r].alive = routine[r].alive /\ routine'[r].schedule = routine[r].schedule
             /\ \/ routine'[r].paused
                \/ routine'[r].paused = routine[r].paused /\ routine'[r].next = routine[r].next
             /\ routine'[r] # routine[r] =>
                   /\ routine[r].alive
                   /\ \E i \in which : run[i].state \in only /\ run[i].routine = r
                   /\ ~routine'[r].paused => routine'[r].failures < FailuresToPause
    <2>1. routine[r] \in RoutineRows /\ (state # "succeeded") \in BOOLEAN
        BY RowTypes
    <2>2. CASE routine[r].alive /\ \E i \in ending : run[i].routine = r /\ Counts(i, state)
        <3>1. routine'[r] = CountOutcome(routine[r], state # "succeeded")
            BY <1>2, <2>2
        <3>2. \E i \in which : run[i].state \in only /\ run[i].routine = r
            BY <1>1, <2>2
        <3>3. LET new == routine'[r]
              IN  /\ new \in RoutineRows
                  /\ new.alive = routine[r].alive /\ new.schedule = routine[r].schedule
                  /\ \/ new.paused
                     \/ new.paused = routine[r].paused /\ new.next = routine[r].next
                  /\ ~new.paused => new.failures < FailuresToPause
            <4> DEFINE failed == state # "succeeded"
            <4>1. failed \in BOOLEAN /\ routine'[r] = CountOutcome(routine[r], failed)
                BY <3>1
            <4> HIDE DEF failed, RoutineRows
            <4> QED BY <2>1, <4>1, CountKeeps
        <3> QED BY <2>2, <3>2, <3>3
    <2>3. CASE ~(routine[r].alive /\ \E i \in ending : run[i].routine = r /\ Counts(i, state))
        <3>1. routine'[r] = routine[r]
            BY <1>2, <2>3
        <3> QED BY <2>1, <3>1
    <2> QED BY <2>2, <2>3
<1>7. routine' \in [Routines -> RoutineRows]
    <2>1. routine' = [r \in Routines |-> routine'[r]]
        BY <1>2
    <2> HIDE DEF RoutineRows
    <2> QED BY <1>6, <2>1
<1>8. EndsRuns(which, only, state)
    BY <1>3, <1>5, <1>6, <1>7 DEF EndsRuns
<1>9. RowsGo
    <2>1. \A i \in 1..Len(run) : run[i].routine \in Routines
        BY RowTypes DEF RunRows
    <2>2. Len(run') # Len(run) + 1
        <3>1. Len(run) \in Nat
            BY RowTypes
        <3> QED BY <1>5, <3>1
    <2> HIDE DEF RunRows, RoutineRows
    <2> QED BY <1>4, <1>5, <1>6, <1>7, <2>1, <2>2 DEF RowsGo
<1> QED BY <1>8, <1>9

\* Queueing a run of r: one more row, or none where a run that waits stands
\* for it.
QueuesRun(r, row, trigger, due) ==
    /\ run' \in Seq(RunRows) /\ Len(run') \in {Len(run), Len(run) + 1}
    /\ routine' = [routine EXCEPT ![r] = row]
    /\ \A i \in 1..Len(run) :
          \/ run'[i] = run[i]
          \/ run[i].due < due /\ run'[i] = [run[i] EXCEPT !.due = due]
    /\ Len(run') = Len(run) + 1 =>
          LET new == run'[Len(run')]
          IN  /\ Len(run) < MaxRuns
              /\ new.routine = r /\ new.trigger = trigger /\ new.due = due
              /\ new.state \in {"waiting", "missed", "skipped"} /\ new.waitingFor = "nothing"
              /\ new.state = "waiting" => \A i \in Active : run[i].routine # r
    /\ trigger = "schedule" =>
          \E i \in 1..Len(run') : run'[i].routine = r /\ run'[i].due >= due

\* A queued run stands for the time it is due, or one that waits does.
LEMMA QueueShape ==
    ASSUME TypeOK, NEW r \in Routines, NEW row \in RoutineRows,
           NEW trigger \in {"schedule", "manual"}, NEW due \in Nat, NEW time \in Nat,
           Queue(r, row, trigger, due, time)
    PROVE  QueuesRun(r, row, trigger, due)
<1> DEFINE active == {i \in Active : run[i].routine = r}
           missed == account.disabled \/ Past(due, MisfireWindow + 1, time)
           state == IF missed THEN "missed" ELSE IF active = {} THEN "waiting" ELSE "skipped"
           coalesced == state = "skipped" /\ \E i \in active : run[i].state = "waiting"
           new == NewRun(r, trigger, due, time, state)
<1> HIDE DEF missed
<1>1. /\ routine' = [routine EXCEPT ![r] = row]
      /\ coalesced =>
            run' = [i \in DOMAIN run |->
                       IF i \in active /\ trigger = "schedule" /\ run[i].due < due
                       THEN [run[i] EXCEPT !.due = due] ELSE run[i]]
      /\ ~coalesced => Len(run) < MaxRuns /\ run' = Append(run, new)
    BY DEF Queue, missed
<1>2. /\ DOMAIN run = 1..Len(run) /\ Len(run) \in Nat
      /\ \A i \in 1..Len(run) : run[i] \in RunRows
    BY RowTypes
<1>3. CASE coalesced
    <2>1. \A i \in 1..Len(run) :
              \/ run'[i] = run[i] /\ ~(i \in active /\ trigger = "schedule" /\ run[i].due < due)
              \/ /\ i \in active /\ trigger = "schedule" /\ run[i].due < due
                 /\ run'[i] = [run[i] EXCEPT !.due = due]
        BY <1>1, <1>2, <1>3, Zenon
    <2>2. ASSUME NEW i \in 1..Len(run) PROVE run'[i] \in RunRows
        <3>1. run'[i] = run[i] \/ run'[i] = [run[i] EXCEPT !.due = due]
            BY <2>1
        <3>2. run[i] \in RunRows
            BY <1>2
        <3> HIDE DEF active, coalesced
        <3> QED BY <3>1, <3>2 DEF RunRows
    <2>3. run' \in Seq(RunRows) /\ Len(run') = Len(run)
        <3> HIDE DEF RunRows, coalesced
        <3>1. run' = [i \in DOMAIN run |-> run'[i]] /\ run \in Seq(RunRows)
            BY <1>1, <1>3 DEF TypeOK
        <3> QED BY <2>2, <3>1, SameLength
    <2>4. trigger = "schedule" =>
              \E i \in 1..Len(run) : run'[i].routine = r /\ run'[i].due >= due
        <3>1. PICK i \in active : run[i].state = "waiting"
            BY <1>3
        <3>2. i \in 1..Len(run) /\ run[i].routine = r
            BY <1>2 DEF Active
        <3>3. trigger = "schedule" => run'[i].routine = r /\ run'[i].due >= due
            <4>1. run[i] \in RunRows
                BY <1>2, <3>2
            <4>2. CASE run[i].due < due /\ run'[i] = [run[i] EXCEPT !.due = due]
                BY <3>2, <4>1, <4>2 DEF RunRows
            <4>3. CASE run'[i] = run[i] /\ ~(trigger = "schedule" /\ run[i].due < due)
                BY <3>2, <4>1, <4>3 DEF RunRows
            <4> QED BY <2>1, <3>2, <4>2, <4>3
        <3> QED BY <3>2, <3>3
    <2>5. Len(run') # Len(run) + 1
        <3>1. Len(run') = Len(run) /\ Len(run) \in Nat
            BY <1>2, <2>3
        <3> QED BY <3>1
    <2> HIDE DEF RunRows
    <2> QED BY <1>1, <2>1, <2>3, <2>4, <2>5 DEF QueuesRun
<1>4. CASE ~coalesced
    <2>1. state \in {"waiting", "missed", "skipped"} /\ (state = "waiting" => active = {})
        OBVIOUS
    <2> HIDE DEF state
    <2>2. /\ new.routine = r /\ new.trigger = trigger /\ new.due = due
          /\ new.state = state /\ new.waitingFor = "nothing"
        BY DEF NewRun
    <2>3. new \in RunRows
        BY <2>1 DEF NewRun, RunRows, States, Ended, Turns, None
    <2> HIDE DEF new, coalesced
    <2>4. /\ run' \in Seq(RunRows) /\ Len(run') = Len(run) + 1
          /\ \A i \in 1..Len(run) : run'[i] = run[i]
          /\ run'[Len(run) + 1] = new
        <3> HIDE DEF RunRows
        <3>1. run \in Seq(RunRows)
            BY DEF TypeOK
        <3> QED BY <1>1, <1>4, <2>3, <3>1
    <2>5. /\ Len(run) + 1 \in 1..(Len(run) + 1)
          /\ \A i \in 1..Len(run) : i \in DOMAIN run
          /\ due >= due
        BY <1>2
    <2>6. state = "waiting" => \A i \in Active : run[i].routine # r
        BY <2>1
    <2> HIDE DEF RunRows, active
    <2> QED BY <1>1, <1>4, <2>1, <2>2, <2>4, <2>5, <2>6 DEF QueuesRun
<1> QED BY <1>3, <1>4

\* The rows go as they may where a run is queued.
LEMMA QueuedRows ==
    ASSUME TypeOK, NEW r \in Routines, NEW row \in RoutineRows, row.alive,
           routine[r].alive,
           NEW trigger \in {"schedule", "manual"}, NEW due \in Nat,
           QueuesRun(r, row, trigger, due)
    PROVE  RowsGo
<1>1. /\ DOMAIN run = 1..Len(run) /\ Len(run) \in Nat /\ MaxRuns \in Nat
      /\ \A i \in 1..Len(run) : run[i] \in RunRows
    BY RowTypes
<1>2. \A i \in 1..Len(run) : RowGoes(run[i], run'[i])
    <2> SUFFICES ASSUME NEW i \in 1..Len(run) PROVE RowGoes(run[i], run'[i])
        OBVIOUS
    <2>1. run[i] \in RunRows
        BY <1>1
    <2>2. CASE run'[i] = run[i]
        BY <2>1, <2>2 DEF RowGoes, RunRows
    <2>3. CASE run[i].due < due /\ run'[i] = [run[i] EXCEPT !.due = due]
        BY <2>1, <2>3 DEF RowGoes, RunRows
    <2> QED BY <2>2, <2>3 DEF QueuesRun
<1>3. /\ routine' \in [Routines -> RoutineRows]
      /\ \A q \in Routines : routine'[q].alive = routine[q].alive \/ q = r
      /\ routine'[r].alive
    <2> HIDE DEF RoutineRows
    <2> QED BY DEF QueuesRun, TypeOK
<1>4. \A i \in 1..Len(run) : run[i].routine \in Routines
    BY <1>1 DEF RunRows
<1>5. Len(run) =< MaxRuns => Len(run') =< MaxRuns
    <2>1. Len(run') = Len(run) \/ (Len(run') = Len(run) + 1 /\ Len(run) < MaxRuns)
        BY DEF QueuesRun
    <2> QED BY <1>1, <2>1
<1>6. \A i \in 1..Len(run) : ~routine'[run[i].routine].alive => ~routine[run[i].routine].alive
    BY <1>3, <1>4
<1> HIDE DEF RunRows, RoutineRows
<1> QED BY <1>2, <1>3, <1>5, <1>6 DEF QueuesRun, RowsGo

-----------------------------------------------------------------------------

\* The next due time is the first after t, and the latest the last up to t.
LEMMA DueTimes ==
    ASSUME NEW schedule \in Schedules, NEW t \in Nat
    PROVE  /\ NextAfter(schedule, t) \in Nat /\ LatestUpTo(schedule, t) \in Nat
           /\ \A d \in schedule : d \in Nat
           /\ \A d \in schedule : d < NextAfter(schedule, t) => d =< t
           /\ \A d \in schedule : d =< t => d =< LatestUpTo(schedule, t)
<1>1. /\ schedule \subseteq 1..MaxTime /\ MaxTime \in Nat /\ Never \in Nat
    BY SchedulerAssumption DEF Never
<1> DEFINE N == {d \in schedule : d > t} \cup {Never}
           L == {d \in schedule : d =< t} \cup {None}
<1>2. N \in SUBSET Nat /\ N # {} /\ L \in SUBSET (0..MaxTime) /\ L # {}
    <2>1. \A d \in schedule : d \in Nat /\ d \in 0..MaxTime
        BY <1>1
    <2>2. None \in 0..MaxTime
        BY <1>1 DEF None
    <2>3. N \in SUBSET Nat
        BY <1>1, <2>1
    <2>4. L \in SUBSET (0..MaxTime)
        BY <2>1, <2>2
    <2> QED BY <2>3, <2>4
<1>3. Min(N) \in N /\ \A d \in N : Min(N) =< d
    <2> HIDE DEF N
    <2> QED BY <1>2, MinIsSmallest
<1>4. Max(L) \in L /\ \A d \in L : d =< Max(L)
    <2> HIDE DEF L
    <2> QED BY <1>1, <1>2, MaxIsLargest
<1>5. NextAfter(schedule, t) = Min(N) /\ LatestUpTo(schedule, t) = Max(L)
    BY DEF NextAfter, LatestUpTo
<1>6. Min(N) \in Nat /\ Max(L) \in Nat
    <2> HIDE DEF N, L
    <2>1. Max(L) \in 0..MaxTime
        BY <1>2, <1>4
    <2>2. Max(L) \in Nat
        BY <1>1, <2>1
    <2>3. Min(N) \in Nat
        BY <1>2, <1>3
    <2> QED BY <2>2, <2>3
<1>7. \A d \in schedule : d < Min(N) => d =< t
    <2> SUFFICES ASSUME NEW d \in schedule, ~(d =< t) PROVE ~(d < Min(N))
        OBVIOUS
    <2>1. d \in N /\ d \in Nat
        BY <1>1
    <2> HIDE DEF N
    <2> QED BY <1>3, <1>6, <2>1
<1>8. \A d \in schedule : d =< t => d =< Max(L)
    <2> HIDE DEF N
    <2> QED BY <1>4
<1>9. \A d \in schedule : d \in Nat
    BY <1>1
<1> HIDE DEF N, L
<1> QED BY <1>5, <1>6, <1>7, <1>8, <1>9

\* Rescheduled and new routines are routines.
LEMMA RoutineTypes ==
    ASSUME TypeOK
    PROVE  /\ \A r \in Routines, schedule \in Schedules :
                 /\ FromNow(routine[r], schedule) \in RoutineRows
                 /\ FromNow(routine[r], schedule).alive = routine[r].alive
           /\ \A schedule \in Schedules, paused \in BOOLEAN :
                 NewRoutine(schedule, paused, now) \in RoutineRows
           /\ \A r \in Routines : [routine[r] EXCEPT !.alive = FALSE] \in RoutineRows
           /\ \A r \in Routines : [routine[r] EXCEPT !.paused = TRUE, !.next = Never] \in RoutineRows
           /\ \A r \in Routines :
                 [routine[r] EXCEPT !.paused = FALSE, !.failures = 0] \in RoutineRows
<1>1. now \in Nat /\ Never \in Nat /\ \A r \in Routines : routine[r] \in RoutineRows
    BY RowTypes DEF TypeOK
<1>2. \A schedule \in Schedules : NextAfter(schedule, now) \in Nat
    BY <1>1, DueTimes
<1> QED BY <1>1, <1>2 DEF FromNow, NewRoutine, RoutineRows

\* Where the runs stay and no routine is deleted, the rows go as they may.
LEMMA SameRuns ==
    ASSUME TypeOK, run' = run, routine' \in [Routines -> RoutineRows],
           \A r \in Routines : routine[r].alive => routine'[r].alive
    PROVE  RowsGo
<1>1. /\ run \in Seq(RunRows) /\ Len(run) \in Nat
      /\ \A i \in 1..Len(run) : run[i] \in RunRows
    BY RowTypes DEF TypeOK
<1>2. \A i \in 1..Len(run) : RowGoes(run[i], run[i]) /\ run[i].routine \in Routines
    BY SMTT(30), <1>1 DEF RowGoes, RunRows
<1>3. Len(run) # Len(run) + 1
    BY <1>1
<1> HIDE DEF RunRows, RoutineRows
<1> QED BY <1>1, <1>2, <1>3 DEF RowsGo

\* The same where one run's row changes, or those of a routine.
LEMMA ChangedRuns ==
    ASSUME TypeOK, run' \in Seq(RunRows), Len(run') = Len(run),
           routine' \in [Routines -> RoutineRows],
           \A i \in 1..Len(run) :
               /\ RowGoes(run[i], run'[i])
               /\ ~routine'[run[i].routine].alive =>
                     ~routine[run[i].routine].alive \/ run'[i].state = "deleted"
    PROVE  RowsGo
<1>1. Len(run) \in Nat
    BY RowTypes
<1>2. Len(run) # Len(run) + 1
    BY <1>1
<1> HIDE DEF RunRows, RoutineRows
<1> QED BY <1>2 DEF RowsGo

\* The same where one run's row changes.
LEMMA ChangedRun ==
    ASSUME TypeOK, NEW i \in DOMAIN run, NEW row \in RunRows, RowGoes(run[i], row),
           run' = [run EXCEPT ![i] = row], routine' = routine
    PROVE  RowsGo
<1>1. /\ run' \in Seq(RunRows) /\ Len(run') = Len(run)
      /\ \A j \in 1..Len(run) : run'[j] = IF j = i THEN row ELSE run[j]
    BY OneRow
<1>2. \A j \in 1..Len(run) : RowGoes(run[j], run[j])
    BY SMTT(30), RowTypes DEF RowGoes, RunRows
<1>3. routine' \in [Routines -> RoutineRows]
    BY DEF TypeOK
<1> HIDE DEF RunRows, RoutineRows
<1> QED BY <1>1, <1>2, <1>3, ChangedRuns

\* A run that is ended, or deleted.
LEMMA ClosedRow ==
    ASSUME NEW x \in RunRows, NEW state \in Ended, x.state \notin Ended \/ state = "deleted",
           NEW y, y = [x EXCEPT !.state = state, !.waitingFor = "nothing"]
    PROVE  y \in RunRows /\ RowGoes(x, y) /\ y.state = state
<1>1. /\ y \in RunRows /\ y.routine = x.routine /\ y.trigger = x.trigger
      /\ y.due = x.due /\ y.due \in Nat /\ y.state = state /\ y.waitingFor = "nothing"
    BY DEF RunRows, States
<1>2. RowGoes(x, y)
    <2>1. state # "waiting"
        BY DEF Ended
    <2> HIDE DEF RunRows
    <2> QED BY <1>1, <2>1 DEF RowGoes
<1> QED BY <1>1, <1>2

\* Whatever a step does, a run's row goes on as it may.
LEMMA RowsStep ==
    ASSUME TypeOK, OfRuns, [Next]_vars
    PROVE  RowsGo
<1>0. /\ DOMAIN run = 1..Len(run) /\ Len(run) \in Nat /\ Never \in Nat /\ now \in Nat
      /\ \A i \in 1..Len(run) : run[i] \in RunRows
      /\ run \in Seq(RunRows) /\ routine \in [Routines -> RoutineRows]
    BY RowTypes DEF TypeOK
<1>s. ASSUME run' = run, routine' = routine PROVE RowsGo
    BY <1>0, <1>s, SameRuns
\* What the ends of runs come to.
<1>e. ASSUME NEW which \in SUBSET DOMAIN run, NEW only \in SUBSET {"waiting", "running"},
             NEW state \in {"succeeded", "failed", "missed", "skipped", "interrupted"},
             EndRuns(which, only, state)
      PROVE  RowsGo
    BY <1>e, EndRunsShape DEF Ended
<1>w. ASSUME NEW i \in DOMAIN run, NEW what \in {"bot", "signIn"}, WaitsFor(i, what) PROVE RowsGo
    <2>1. CASE run[i].state # "waiting"
        BY <1>s, <1>w, <2>1 DEF WaitsFor
    <2>2. CASE run[i].state = "waiting"
        <3> DEFINE row == [run[i] EXCEPT !.waitingFor = what]
        <3>1. /\ row \in RunRows /\ row.routine = run[i].routine /\ row.trigger = run[i].trigger
              /\ row.due = run[i].due /\ row.due \in Nat /\ row.state = "waiting"
            BY ZenonT(40), <1>0, <2>2 DEF RunRows
        <3>2. run' = [run EXCEPT ![i] = row] /\ routine' = routine
            BY <1>w, <2>2 DEF WaitsFor
        <3> HIDE DEF row, RunRows
        <3>3. RowGoes(run[i], row)
            BY <2>2, <3>1 DEF RowGoes, Ended
        <3> QED BY <3>1, <3>2, <3>3, ChangedRun
    <2> QED BY <2>1, <2>2
<1>t. ASSUME NEW i \in DOMAIN run, NEW t \in Turns, run' = [run EXCEPT ![i].turn = t],
             routine' = routine
      PROVE  RowsGo
    <2> DEFINE row == [run[i] EXCEPT !.turn = t]
    <2>1. /\ row \in RunRows /\ row.routine = run[i].routine /\ row.trigger = run[i].trigger
          /\ row.due = run[i].due /\ row.due \in Nat /\ row.state = run[i].state
          /\ row.waitingFor = run[i].waitingFor
        BY ZenonT(40), <1>0 DEF RunRows
    <2>2. run' = [run EXCEPT ![i] = row]
        BY <1>t
    <2> HIDE DEF row, RunRows
    <2>3. RowGoes(run[i], row)
        BY <2>1 DEF RowGoes
    <2> QED BY <1>t, <2>1, <2>2, <2>3, ChangedRun
<1>h. \A i \in RunIds : task[i].step # "none" => i \in DOMAIN run
    BY DEF OfRuns
<1>1. ASSUME NEW r \in Routines, FallDue(r) PROVE RowsGo
    <2> DEFINE row == routine[r]
               latest == LatestUpTo(row.schedule, pass.time)
               due == IF latest >= row.next THEN latest ELSE row.next
               new == [row EXCEPT !.next = NextAfter(row.schedule, pass.time)]
    <2>1. CASE ~(row.alive /\ ~row.paused /\ row.next =< pass.time)
        BY <1>1, <1>s, <2>1 DEF FallDue
    <2>2. CASE row.alive /\ ~row.paused /\ row.next =< pass.time
        <3>1. Queue(r, new, "schedule", due, pass.time)
            BY <1>1, <2>2 DEF FallDue
        <3>2. row \in RoutineRows /\ pass.time \in Nat
            BY <1>0 DEF TypeOK
        <3>3. /\ latest \in Nat /\ NextAfter(row.schedule, pass.time) \in Nat
              /\ row.next \in Nat
            BY <3>2, DueTimes DEF RoutineRows
        <3>4. due \in Nat
            BY <3>3
        <3>5. new \in RoutineRows /\ new.alive = row.alive
            BY <3>2, <3>3 DEF RoutineRows
        <3> HIDE DEF due, new, RoutineRows
        <3> QED BY <2>2, <3>1, <3>2, <3>4, <3>5, QueueShape, QueuedRows
    <2> QED BY <2>1, <2>2
<1>2. ASSUME NEW i \in RunIds, Attempt(i) PROVE RowsGo
    <2>1. i \in DOMAIN run
        BY <1>2, <1>h DEF Attempt, At
    <2>2. {i} \in SUBSET DOMAIN run /\ {"waiting"} \in SUBSET {"waiting", "running"}
        BY <2>1
    <2>3. \/ UNCHANGED <<run, routine>>
          \/ EndRuns({i}, {"waiting"}, "missed") \/ EndRuns({i}, {"waiting"}, "skipped")
          \/ WaitsFor(i, "bot")
        BY <1>2 DEF Attempt, NotStarted
    <2> QED BY <1>s, <1>e, <1>w, <2>1, <2>2, <2>3
<1>3. ASSUME NEW i \in RunIds, TurnBegins(i) PROVE RowsGo
    <2>1. i \in DOMAIN run /\ "going" \in Turns
        BY <1>3, <1>h DEF TurnBegins, At, Turns
    <2> QED BY <1>3, <1>t, <2>1 DEF TurnBegins
<1>4. ASSUME NEW i \in RunIds, MarkRunning(i) PROVE RowsGo
    <2>1. i \in DOMAIN run
        BY <1>4, <1>h DEF MarkRunning, At
    <2>2. CASE run[i].state # "waiting"
        BY <1>4, <1>s, <2>2 DEF MarkRunning
    <2>3. CASE run[i].state = "waiting" /\ run[i].turn \in TurnEndings
        <3>1. EndRuns({i}, {"waiting"}, StateOf(run[i].turn))
            BY <1>4, <2>3 DEF MarkRunning
        <3>2. StateOf(run[i].turn) \in {"succeeded", "failed", "missed", "skipped", "interrupted"}
            BY DEF StateOf
        <3> QED BY <1>e, <2>1, <3>1, <3>2
    <2>4. CASE run[i].state = "waiting" /\ run[i].turn \notin TurnEndings
        <3> DEFINE row == [run[i] EXCEPT !.state = "running", !.started = now,
                                         !.waitingFor = "nothing"]
        <3>1. /\ row \in RunRows /\ row.routine = run[i].routine
              /\ row.trigger = run[i].trigger
              /\ row.due = run[i].due /\ row.due \in Nat /\ row.state = "running"
              /\ row.waitingFor = "nothing"
            BY ZenonT(40), <1>0, <2>1 DEF RunRows, States
        <3>2. run' = [run EXCEPT ![i] = row] /\ routine' = routine
            BY <1>4, <2>4 DEF MarkRunning
        <3> HIDE DEF row, RunRows
        <3>3. RowGoes(run[i], row)
            BY <2>4, <3>1 DEF RowGoes, Ended
        <3> QED BY <2>1, <3>1, <3>2, <3>3, ChangedRun
    <2> QED BY <2>2, <2>3, <2>4
<1>5. ASSUME NEW i \in RunIds, StartFailed(i) PROVE RowsGo
    <2>1. i \in DOMAIN run
        BY <1>5, <1>h DEF StartFailed, At
    <2>2. {i} \in SUBSET DOMAIN run /\ {"waiting"} \in SUBSET {"waiting", "running"}
        BY <2>1
    <2>3. \/ EndRuns({i}, {"waiting"}, "failed") \/ EndRuns({i}, {"waiting"}, "missed")
          \/ WaitsFor(i, "signIn")
        BY <1>5 DEF StartFailed, NotStarted
    <2> QED BY <1>e, <1>w, <2>1, <2>2, <2>3
<1>6. ASSUME NEW i \in RunIds, EnforceDeadline(i) PROVE RowsGo
    <2>1. i \in DOMAIN run /\ task[i].step = "deadline"
        BY <1>6, <1>h DEF EnforceDeadline, At
    <2>2. CASE EndRuns({i}, {"waiting", "running"}, "interrupted")
        BY <1>e, <2>1, <2>2
    <2>3. CASE run' = run /\ routine' = routine
        BY <1>s, <2>3
    <2>4. CASE run[i].state = "running" /\ run' = [run EXCEPT ![i].asked = task[i].time]
               /\ routine' = routine
        <3> DEFINE row == [run[i] EXCEPT !.asked = task[i].time]
        <3>0. task[i].time \in Nat
            BY <2>1 DEF TypeOK, TaskRows
        <3>1. /\ row \in RunRows /\ row.routine = run[i].routine
              /\ row.trigger = run[i].trigger
              /\ row.due = run[i].due /\ row.due \in Nat /\ row.state = "running"
              /\ row.waitingFor = run[i].waitingFor
            BY ZenonT(40), <1>0, <2>1, <2>4, <3>0 DEF RunRows
        <3>2. run' = [run EXCEPT ![i] = row]
            BY <2>4
        <3> HIDE DEF row, RunRows
        <3>3. RowGoes(run[i], row)
            BY <2>4, <3>1 DEF RowGoes, Ended
        <3> QED BY <2>1, <2>4, <3>1, <3>2, <3>3, ChangedRun
    <2> QED BY <1>6, <2>2, <2>3, <2>4 DEF EnforceDeadline
<1>7. CASE TurnEnds
    <2>1. CASE run' = run
        BY <1>7, <1>s, <2>1 DEF TurnEnds
    <2>2. ASSUME NEW ending \in TurnEndings, bot.turn # UserTurn,
                 run' = [run EXCEPT ![bot.turn].turn = ending]
          PROVE  RowsGo
        <3>1. bot.turn \in DOMAIN run /\ ending \in Turns /\ routine' = routine
            BY <1>7, <2>2 DEF TurnEnds, OfRuns, Working, Turns
        <3> QED BY <1>t, <2>2, <3>1
    <2> QED BY <1>7, <2>1, <2>2 DEF TurnEnds
<1>8. CASE TurnEndRecorded
    <2>1. CASE router = UserTurn
        BY <1>8, <1>s, <2>1 DEF TurnEndRecorded
    <2>2. CASE router # UserTurn
        <3>1. {router} \in SUBSET DOMAIN run /\ {"running"} \in SUBSET {"waiting", "running"}
            BY <1>8, <2>2 DEF TurnEndRecorded, OfRuns
        <3>2. StateOf(run[router].turn) \in
                  {"succeeded", "failed", "missed", "skipped", "interrupted"}
            BY DEF StateOf
        <3> QED BY <1>8, <1>e, <2>2, <3>1, <3>2 DEF TurnEndRecorded
    <2> QED BY <2>1, <2>2
<1>9. CASE AppServerStops \/ Restart
    <2>1. EndRuns(DOMAIN run, {"running"}, "failed")
        BY <1>9 DEF AppServerStops, Restart
    <2> QED BY <1>e, <2>1
<1>10. ASSUME NEW r \in Routines, NEW row \in RoutineRows, routine[r].alive => row.alive,
              run' = run, routine' = [routine EXCEPT ![r] = row]
       PROVE  RowsGo
    <2> HIDE DEF RoutineRows
    <2>1. /\ routine' \in [Routines -> RoutineRows]
          /\ \A q \in Routines : routine[q].alive => routine'[q].alive
        BY <1>0, <1>10
    <2> QED BY <1>10, <2>1, SameRuns
<1>11. ASSUME NEW r \in Routines, Create(r) PROVE RowsGo
    <2>1. PICK schedule \in Schedules, paused \in BOOLEAN :
              routine' = [routine EXCEPT ![r] = NewRoutine(schedule, paused, now)]
        BY <1>11 DEF Create
    <2>2. NewRoutine(schedule, paused, now) \in RoutineRows
        BY RoutineTypes
    <2>3. run' = run /\ ~routine[r].alive
        BY <1>11 DEF Create
    <2> QED BY <1>10, <2>1, <2>2, <2>3
<1>12. ASSUME NEW r \in Routines, RunNow(r) PROVE RowsGo
    <2>1. Queue(r, routine[r], "manual", now, now) /\ routine[r].alive
        BY <1>12 DEF RunNow
    <2>2. routine[r] \in RoutineRows
        BY RowTypes
    <2> QED BY <1>0, <2>1, <2>2, QueueShape, QueuedRows
<1>13. ASSUME NEW r \in Routines, Pause(r) PROVE RowsGo
    <2>1. CASE ~routine[r].alive
        BY <1>13, <1>s, <2>1 DEF Pause
    <2>2. CASE routine[r].alive
        <3>1. /\ routine' = [routine EXCEPT ![r] = [routine[r] EXCEPT !.paused = TRUE,
                                                                      !.next = Never]]
              /\ run' = [i \in DOMAIN run |->
                   IF /\ i \in RunsOf(r) /\ run[i].state = "waiting"
                      /\ ~routine[r].paused
                   THEN [run[i] EXCEPT !.state = "skipped", !.waitingFor = "nothing"]
                   ELSE run[i]]
            BY <1>13, <2>2 DEF Pause
        <3>2. [routine[r] EXCEPT !.paused = TRUE, !.next = Never] \in RoutineRows
            BY RoutineTypes
        <3>3. /\ routine' \in [Routines -> RoutineRows]
              /\ \A q \in Routines : routine'[q].alive = routine[q].alive
            <4>1. [routine[r] EXCEPT !.paused = TRUE, !.next = Never].alive = routine[r].alive
                BY RowTypes DEF RoutineRows
            <4> HIDE DEF RoutineRows
            <4> QED BY <1>0, <3>1, <3>2, <4>1
        <3>4. ASSUME NEW i \in 1..Len(run)
              PROVE  /\ run'[i] \in RunRows /\ RowGoes(run[i], run'[i])
                     /\ run[i].routine \in Routines
            <4>1. run[i] \in RunRows
                BY <1>0
            <4>2. CASE run'[i] = run[i]
                BY <4>1, <4>2 DEF RowGoes, RunRows
            <4>3. CASE /\ run[i].state = "waiting"
                       /\ run'[i] = [run[i] EXCEPT !.state = "skipped", !.waitingFor = "nothing"]
                <5>1. "skipped" \in Ended /\ run[i].state \notin Ended
                    BY <4>3 DEF Ended
                <5>2. run[i].routine \in Routines
                    BY <4>1 DEF RunRows
                <5> HIDE DEF RunRows
                <5> QED BY <4>1, <4>3, <5>1, <5>2, ClosedRow
            <4> QED BY <1>0, <3>1, <4>2, <4>3
        <3>5. run' \in Seq(RunRows) /\ Len(run') = Len(run)
            <4> HIDE DEF RunRows
            <4>1. run' = [i \in DOMAIN run |-> run'[i]]
                BY <3>1
            <4> QED BY <1>0, <3>4, <4>1, SameLength
        <3> HIDE DEF RunRows, RoutineRows
        <3> QED BY <3>3, <3>4, <3>5, ChangedRuns
    <2> QED BY <2>1, <2>2
<1>14. ASSUME NEW r \in Routines, Resume(r) PROVE RowsGo
    <2> DEFINE open == [routine[r] EXCEPT !.paused = FALSE, !.failures = 0]
               new == FromNow(open, open.schedule)
    <2>1. /\ open \in RoutineRows /\ open.alive = routine[r].alive
          /\ open.schedule \in Schedules
        BY RowTypes, RoutineTypes DEF RoutineRows
    <2>2. NextAfter(open.schedule, now) \in Nat
        BY <1>0, <2>1, DueTimes
    <2>3. run' = run /\ routine' = [routine EXCEPT ![r] = new]
        BY <1>14 DEF Resume
    <2> HIDE DEF open
    <2>4. new \in RoutineRows /\ new.alive = open.alive
        BY <1>0, <2>1, <2>2 DEF FromNow, RoutineRows
    <2> HIDE DEF new, RoutineRows
    <2> QED BY <1>10, <2>1, <2>3, <2>4
<1>15. ASSUME NEW r \in Routines, Reschedule(r) PROVE RowsGo
    <2>1. PICK schedule \in Schedules :
              routine' = [routine EXCEPT ![r] = FromNow(routine[r], schedule)]
        BY <1>15 DEF Reschedule
    <2>2. FromNow(routine[r], schedule) \in RoutineRows
          /\ FromNow(routine[r], schedule).alive = routine[r].alive
        BY RoutineTypes
    <2>3. run' = run
        BY <1>15 DEF Reschedule
    <2> HIDE DEF RoutineRows
    <2> QED BY <1>10, <2>1, <2>2, <2>3
<1>16. CASE SetTimeZone
    <2>1. run' = run /\ routine' = [r \in Routines |->
              IF routine[r].alive /\ ~routine[r].paused
              THEN FromNow(routine[r], OtherZone[routine[r].schedule])
              ELSE routine[r]]
        BY <1>16 DEF SetTimeZone
    <2>2. ASSUME NEW r \in Routines
          PROVE  routine'[r] \in RoutineRows /\ routine'[r].alive = routine[r].alive
        <3>1. routine[r] \in RoutineRows
            BY RowTypes
        <3>2. OtherZone[routine[r].schedule] \in Schedules
            BY <3>1, SchedulerAssumption DEF RoutineRows
        <3>3. \/ routine'[r] = routine[r]
              \/ routine'[r] = FromNow(routine[r], OtherZone[routine[r].schedule])
            BY <2>1
        <3> HIDE DEF RoutineRows
        <3> QED BY <3>1, <3>2, <3>3, RoutineTypes
    <2>3. routine' \in [Routines -> RoutineRows]
        <3> HIDE DEF RoutineRows
        <3> QED BY <2>1, <2>2
    <2> QED BY <2>1, <2>2, <2>3, SameRuns
<1>17. ASSUME NEW r \in Routines, Delete(r) PROVE RowsGo
    <2>1. /\ routine' = [routine EXCEPT ![r] = [routine[r] EXCEPT !.alive = FALSE]]
          /\ run' = [i \in DOMAIN run |->
                        IF i \in RunsOf(r)
                        THEN [run[i] EXCEPT !.state = "deleted", !.waitingFor = "nothing"]
                        ELSE run[i]]
        BY <1>17 DEF Delete
    <2>2. /\ routine' \in [Routines -> RoutineRows]
          /\ \A q \in Routines : q # r => routine'[q].alive = routine[q].alive
        <3>1. [routine[r] EXCEPT !.alive = FALSE] \in RoutineRows
            BY RoutineTypes
        <3> HIDE DEF RoutineRows
        <3> QED BY <1>0, <2>1, <3>1
    <2>3. ASSUME NEW i \in 1..Len(run)
          PROVE  /\ run'[i] \in RunRows /\ RowGoes(run[i], run'[i])
                 /\ run[i].routine \in Routines
                 /\ run[i].routine = r => run'[i].state = "deleted"
        <3>1. run[i] \in RunRows
            BY <1>0
        <3>2. CASE run'[i] = run[i] /\ run[i].routine # r
            BY <3>1, <3>2 DEF RowGoes, RunRows
        <3>3. CASE run'[i] = [run[i] EXCEPT !.state = "deleted", !.waitingFor = "nothing"]
            <4>1. "deleted" \in Ended
                BY DEF Ended
            <4>2. run[i].routine \in Routines
                BY <3>1 DEF RunRows
            <4> HIDE DEF RunRows
            <4> QED BY <3>1, <3>3, <4>1, <4>2, ClosedRow
        <3> QED BY <1>0, <2>1, <3>2, <3>3 DEF RunsOf
    <2>4. run' \in Seq(RunRows) /\ Len(run') = Len(run)
        <3> HIDE DEF RunRows
        <3>1. run' = [i \in DOMAIN run |-> run'[i]]
            BY <2>1
        <3> QED BY <1>0, <2>3, <3>1, SameLength
    <2> HIDE DEF RunRows, RoutineRows
    <2> QED BY <2>2, <2>3, <2>4, ChangedRuns
<1>18. ASSUME UNCHANGED <<routine, run>> PROVE RowsGo
    BY <1>18, <1>s
<1>19. ASSUME NEW i \in RunIds,
              StartFails(i) \/ LetRunGo(i) \/ AskEnds(i)
       PROVE  RowsGo
    BY <1>18, <1>19 DEF StartFails, LetRunGo, AskEnds, rows
<1>20. ASSUME \/ \E cause \in {"tick", "wake", "idle"} : BeginPass(cause)
              \/ SpawnTasks
              \/ \E idled \in looks : LookAgain(idled)
              \/ \E r \in Routines : AskPause(r)
              \/ MessageArrives \/ MessageDone \/ AccountChanges \/ Clock
              \/ UNCHANGED vars
       PROVE  RowsGo
    BY <1>18, <1>20 DEF BeginPass, SpawnTasks, LookAgain, AskPause, MessageArrives,
                        MessageDone, AccountChanges, Clock, rows, vars
<1> QED BY <1>1, <1>2, <1>3, <1>4, <1>5, <1>6, <1>7, <1>8, <1>9, <1>11, <1>12, <1>13, <1>14,
           <1>15, <1>16, <1>17, <1>19, <1>20 DEF Next, PassStep, TaskStep, OwnerStep

\* So a routine has one unfinished run at most, and that routine is there.
LEMMA OneActiveStep ==
    ASSUME TypeOK, OneActive, RowsGo
    PROVE  OneActive'
<1>0. /\ DOMAIN run = 1..Len(run) /\ Len(run) \in Nat
      /\ \A i \in 1..Len(run) : run[i] \in RunRows
    BY RowTypes
<1>1. /\ Len(run') \in {Len(run), Len(run) + 1} /\ DOMAIN run' = 1..Len(run')
      /\ \A i \in 1..Len(run') : run'[i] \in RunRows
    <2> HIDE DEF RunRows
    <2> QED BY SMTT(30) DEF RowsGo
<1>2. \A i \in DOMAIN run' : \/ i \in DOMAIN run
                             \/ i = Len(run') /\ Len(run') = Len(run) + 1
    <2>1. /\ Len(run') \in {Len(run), Len(run) + 1} /\ Len(run) \in Nat
          /\ DOMAIN run' = 1..Len(run') /\ DOMAIN run = 1..Len(run)
        BY <1>0, <1>1
    <2> QED BY ZenonT(40), <2>1, OneMore
<1>3. \A i \in DOMAIN run :
          /\ run'[i].routine = run[i].routine /\ RowGoes(run[i], run'[i])
          /\ ~routine'[run[i].routine].alive =>
                ~routine[run[i].routine].alive \/ run'[i].state = "deleted"
    BY <1>0 DEF RowsGo, RowGoes
<1>4. \A i \in DOMAIN run : i \in Active' => i \in Active
    <2>1. \A i \in DOMAIN run : run[i].state \in States
        BY <1>0 DEF RunRows
    <2> QED BY <1>3, <2>1 DEF Active, RowGoes, States, Ended
<1>5. Len(run') = Len(run) + 1 =>
          LET new == run'[Len(run')]
          IN  /\ routine'[new.routine].alive
              /\ new.state # "running" /\ new.waitingFor = "nothing"
              /\ new.state = "waiting" => \A i \in Active : run[i].routine # new.routine
    BY DEF RowsGo
<1>6. \A i \in Active' : i \in DOMAIN run'
    BY DEF Active
<1>7. Len(run') = Len(run) + 1 /\ Len(run') \in Active' => run'[Len(run')].state = "waiting"
    BY <1>5 DEF Active
<1>8. ASSUME NEW i \in Active', NEW j \in Active', run'[i].routine = run'[j].routine
      PROVE  i = j
    <2>1. CASE i \in DOMAIN run /\ j \in DOMAIN run
        BY <1>3, <1>4, <1>8, <2>1 DEF OneActive
    <2>2. CASE i \in DOMAIN run /\ j \notin DOMAIN run
        BY <1>2, <1>3, <1>4, <1>5, <1>6, <1>7, <1>8, <2>2
    <2>3. CASE i \notin DOMAIN run /\ j \in DOMAIN run
        BY <1>2, <1>3, <1>4, <1>5, <1>6, <1>7, <1>8, <2>3
    <2>4. CASE i \notin DOMAIN run /\ j \notin DOMAIN run
        BY <1>2, <1>6, <2>4
    <2> QED BY <2>1, <2>2, <2>3, <2>4
<1>9. ASSUME NEW i \in Active' PROVE routine'[run'[i].routine].alive
    <2>1. CASE i \in DOMAIN run
        <3>1. i \in Active /\ run'[i].state # "deleted"
            BY <1>4, <2>1 DEF Active
        <3> QED BY <1>3, <2>1, <3>1 DEF OneActive
    <2>2. CASE i \notin DOMAIN run
        BY <1>2, <1>5, <1>6, <2>2
    <2> QED BY <2>1, <2>2
<1>10. ASSUME NEW i \in DOMAIN run', run'[i].state # "waiting" PROVE run'[i].waitingFor = "nothing"
    BY <1>2, <1>3, <1>5, <1>10 DEF OneActive, RowGoes
<1> QED BY <1>8, <1>9, <1>10 DEF OneActive

\* The steps of a task keep it a task.
LEMMA TaskTypes ==
    ASSUME TypeOK, NEW i \in RunIds
    PROVE  /\ LetsGo(i) => task' \in [RunIds -> TaskRows]
           /\ \A step \in Steps :
                 Goes(i, step) /\ task[i].step \in Steps => task' \in [RunIds -> TaskRows]
           /\ \A idled \in Nat :
                 task' = [task EXCEPT ![i] = [step |-> "waits", idled |-> idled]]
                     => task' \in [RunIds -> TaskRows]
<1>1. task \in [RunIds -> TaskRows]
    BY DEF TypeOK
<1>2. /\ [step |-> "none"] \in TaskRows
      /\ \A idled \in Nat : [step |-> "waits", idled |-> idled] \in TaskRows
    BY DEF TaskRows
<1>3. ASSUME NEW step \in Steps, task[i].step \in Steps
      PROVE  [task[i] EXCEPT !.step = step] \in TaskRows
    <2>1. task[i] \in [step : Steps, time : Nat, asked : Nat, due : Nat]
        BY <1>1, <1>3 DEF TaskRows, Steps
    <2>2. [task[i] EXCEPT !.step = step] \in [step : Steps, time : Nat, asked : Nat, due : Nat]
        BY <2>1
    <2> QED BY <2>2 DEF TaskRows
<1> HIDE DEF TaskRows, Steps
<1>4. ASSUME NEW step \in Steps, Goes(i, step), task[i].step \in Steps
      PROVE  task' \in [RunIds -> TaskRows]
    <2>1. task' = [task EXCEPT ![i] = [task[i] EXCEPT !.step = step]]
        BY <1>4 DEF Goes
    <2> QED BY <1>1, <1>3, <1>4, <2>1
<1> QED BY <1>1, <1>2, <1>4 DEF LetsGo

\* Tasks that are set off read rows there are.
LEMMA SpawnTypes ==
    ASSUME TypeOK, NEW tasks \in [RunIds -> TaskRows], NEW runs \in SUBSET DOMAIN run,
           NEW step \in {"start", "deadline"}, NEW time \in Nat
    PROVE  Spawned(tasks, runs, step, time) \in [RunIds -> TaskRows]
<1> SUFFICES ASSUME NEW i \in RunIds
             PROVE  Spawned(tasks, runs, step, time)[i] \in TaskRows
    BY DEF Spawned
<1>1. CASE ~(i \in runs /\ tasks[i].step = "none")
    BY <1>1 DEF Spawned
<1>2. CASE i \in runs /\ tasks[i].step = "none"
    <2>1. run[i] \in RunRows
        BY <1>2, RowTypes
    <2>2. run[i].asked \in Nat /\ run[i].due \in Nat /\ None \in Nat
        BY <2>1 DEF RunRows, None
    <2>3. Spawned(tasks, runs, step, time)[i] =
              [step |-> step, time |-> time, asked |-> run[i].asked,
               due |-> IF step = "start" THEN run[i].due ELSE None]
        BY <1>2 DEF Spawned
    <2> QED BY <2>2, <2>3 DEF TaskRows, Steps
<1> QED BY <1>1, <1>2

\* Every step keeps the types.
LEMMA TypeStep ==
    ASSUME TypeOK, OfRuns, [Next]_vars
    PROVE  TypeOK'
<1>0. /\ DOMAIN run = 1..Len(run) /\ now \in Nat /\ bot \in BotRows /\ MaxRuns \in Nat
      /\ bot.idled \in Nat
      /\ pass.time \in Nat /\ task \in [RunIds -> TaskRows]
      /\ wakes \in [wake : BOOLEAN, idle : BOOLEAN]
      /\ account \in [disabled : BOOLEAN, signedIn : BOOLEAN]
      /\ pass \in [at : {"rest", "queue"}, time : Nat, due : SUBSET Routines]
      /\ history \in [turns : [RunIds -> Nat], tried : [RunIds -> Nat], since : [Routines -> Nat]]
    BY RowTypes DEF TypeOK, BotRows
<1>1. run' \in Seq(RunRows) /\ routine' \in [Routines -> RoutineRows]
    BY RowsStep DEF RowsGo
<1> DEFINE Clocks == now' \in Nat /\ account' \in [disabled : BOOLEAN, signedIn : BOOLEAN]
           Bots == /\ bot' \in BotRows
                   /\ wakes' \in [wake : BOOLEAN, idle : BOOLEAN]
           Passes == pass' \in [at : {"rest", "queue"}, time : Nat, due : SUBSET Routines]
           Tasks == task' \in [RunIds -> TaskRows]
           Histories == history' \in [turns : [RunIds -> Nat], tried : [RunIds -> Nat],
                                      since : [Routines -> Nat]]
           Rest == Clocks /\ Bots /\ Passes /\ Tasks /\ Histories
<1>2. SUFFICES Rest
    <2> HIDE DEF RunRows, RoutineRows, TaskRows
    <2> QED BY <1>1 DEF TypeOK
<1>3. UNCHANGED <<now, account>> => Clocks
    BY <1>0
<1>4. UNCHANGED <<bot, wakes>> => Bots
    BY <1>0
<1>5. UNCHANGED pass => Passes
    BY <1>0
<1>6. UNCHANGED task => Tasks
    BY <1>0
<1>7. UNCHANGED history => Histories
    BY <1>0
<1>l. /\ Free \in Locks /\ <<"user", None>> \in Locks
      /\ \A r \in Routines : <<"pause", r>> \in Locks
      /\ \A i \in RunIds : <<"run", i>> \in Locks
      /\ \A turn \in RunIds \cup {None, UserTurn} : turn \in 0..UserTurn
    BY <1>0 DEF Locks, Free, RunIds, None, UserTurn
<1>b. ASSUME NEW b \in BotRows
      PROVE  /\ \A lock \in Locks : [b EXCEPT !.lock = lock] \in BotRows
             /\ \A turn \in 0..UserTurn : [b EXCEPT !.turn = turn] \in BotRows
             /\ \A lock \in Locks, turn \in 0..UserTurn :
                   [b EXCEPT !.lock = lock, !.turn = turn] \in BotRows
             /\ [b EXCEPT !.idled = @ + 1] \in BotRows
    <2>1. ASSUME NEW lock \in Locks PROVE [b EXCEPT !.lock = lock] \in BotRows
        BY DEF BotRows
    <2>2. ASSUME NEW turn \in 0..UserTurn PROVE [b EXCEPT !.turn = turn] \in BotRows
        BY DEF BotRows
    <2>3. ASSUME NEW lock \in Locks, NEW turn \in 0..UserTurn
          PROVE  [b EXCEPT !.lock = lock, !.turn = turn] \in BotRows
        BY DEF BotRows
    <2>4. [b EXCEPT !.idled = @ + 1] \in BotRows
        BY DEF BotRows
    <2> QED BY <2>1, <2>2, <2>3, <2>4
<1>8. ASSUME NEW lock \in Locks, bot' = [bot EXCEPT !.lock = lock], UNCHANGED wakes PROVE Bots
    BY <1>0, <1>b, <1>8
<1>9. ASSUME NEW b \in BotRows, TurnedIdle(b)
      PROVE  Bots
    BY <1>0, <1>b, <1>9 DEF TurnedIdle
<1>10. ASSUME NEW cause \in {"tick", "wake", "idle"}, BeginPass(cause) PROVE Rest
    <2>1. Passes
        BY <1>0, <1>10 DEF BeginPass
    <2>2. Bots
        BY ZenonT(40), <1>0, <1>10 DEF BeginPass
    <2> QED BY <1>3, <1>6, <1>7, <1>10, <2>1, <2>2 DEF BeginPass, rows
<1>11. ASSUME NEW r \in Routines, FallDue(r) PROVE Rest
    <2>1. Passes
        BY <1>0, <1>11 DEF FallDue
    <2> QED BY <1>3, <1>4, <1>6, <1>7, <1>11, <2>1 DEF FallDue
<1>12. CASE SpawnTasks
    <2>1. Passes
        BY <1>12 DEF SpawnTasks
    <2>2. RunsIn("waiting") \subseteq DOMAIN run /\ RunsIn("running") \subseteq DOMAIN run
        BY DEF RunsIn
    <2> DEFINE first == Spawned(task, RunsIn("waiting"), "start", pass.time)
               late == {i \in RunsIn("running") :
                           DeadlineAsks(run[i], run[i].asked, pass.time) # "nothing"}
    <2>3. first \in [RunIds -> TaskRows]
        BY <1>0, <2>2, SpawnTypes
    <2>4. task' = Spawned(first, late, "deadline", pass.time) /\ late \in SUBSET DOMAIN run
        BY <1>12, <2>2 DEF SpawnTasks
    <2>5. Tasks
        <3> HIDE DEF first, late
        <3> QED BY <1>0, <2>3, <2>4, SpawnTypes
    <2> QED BY <1>3, <1>4, <1>7, <1>12, <2>1, <2>5 DEF SpawnTasks, rows
<1>13. ASSUME NEW i \in RunIds, Attempt(i) PROVE Rest
    <2>1. Tasks
        BY <1>0, <1>13, TaskTypes DEF Attempt, NotStarted, At, Steps
    <2>2. Bots
        BY <1>4, <1>8, <1>l, <1>13 DEF Attempt
    <2>3. Histories
        <3>1. PICK n \in Nat : history' = [history EXCEPT !.tried[i] = n]
            BY <1>0, <1>13 DEF Attempt
        <3> QED BY <1>0, <3>1
    <2> QED BY <1>3, <1>5, <1>13, <2>1, <2>2, <2>3 DEF Attempt
<1>14. ASSUME NEW i \in RunIds, StartFails(i) PROVE Rest
    <2>1. Tasks
        BY <1>0, <1>14, TaskTypes DEF StartFails, At, Steps
    <2> QED BY <1>3, <1>5, <1>7, <1>8, <1>l, <1>14, <2>1 DEF StartFails, rows
<1>15. ASSUME NEW i \in RunIds, TurnBegins(i) PROVE Rest
    <2>1. Tasks
        BY <1>0, <1>15, TaskTypes DEF TurnBegins, At, Steps
    <2>2. Histories
        <3> DEFINE turns == [history.turns EXCEPT ![i] = @ + 1]
        <3>1. turns \in [RunIds -> Nat]
            BY <1>0
        <3>2. history' = [history EXCEPT !.turns = turns]
            BY <1>15 DEF TurnBegins
        <3> HIDE DEF turns
        <3> QED BY <1>0, <3>1, <3>2
    <2>3. Bots
        BY <1>0, <1>b, <1>l, <1>15 DEF TurnBegins
    <2> QED BY <1>3, <1>5, <1>15, <2>1, <2>2, <2>3 DEF TurnBegins
<1>16. ASSUME NEW i \in RunIds, MarkRunning(i) \/ StartFailed(i) \/ EnforceDeadline(i) PROVE Rest
    <2>1. Tasks
        BY <1>16, TaskTypes DEF MarkRunning, StartFailed, EnforceDeadline, NotStarted
    <2>2. Bots
        BY <1>4, <1>8, <1>l, <1>16 DEF MarkRunning, StartFailed, EnforceDeadline
    <2> QED BY <1>3, <1>5, <1>7, <1>16, <2>1, <2>2 DEF MarkRunning, StartFailed, EnforceDeadline
<1>17. ASSUME NEW i \in RunIds, LetRunGo(i) \/ AskEnds(i) PROVE Rest
    <2>1. Tasks
        BY <1>6, <1>17, TaskTypes DEF LetRunGo, AskEnds
    <2>2. Bots
        BY <1>0, <1>17 DEF LetRunGo, AskEnds
    <2> QED BY <1>3, <1>5, <1>7, <1>17, <2>1, <2>2 DEF LetRunGo, AskEnds, rows
<1>18. ASSUME NEW idled \in looks, LookAgain(idled) PROVE Rest
    <2>1. Bots
        BY <1>0, <1>18 DEF LookAgain
    <2> QED BY <1>3, <1>5, <1>6, <1>7, <1>18, <2>1 DEF LookAgain, rows
<1>19. CASE MessageArrives \/ \E r \in Routines : AskPause(r)
    BY <1>3, <1>5, <1>6, <1>7, <1>8, <1>l, <1>19 DEF MessageArrives, AskPause, rows
<1>20. LetLockGo => Bots
    <2>1. CASE Working
        BY <1>8, <1>l, <2>1 DEF LetLockGo
    <2>2. CASE ~Working
        BY <1>0, <1>9, <1>b, <1>l, <2>2 DEF LetLockGo
    <2> QED BY <2>1, <2>2
<1>21. CASE MessageDone \/ \E r \in Routines : Pause(r)
    <2>1. CASE LetLockGo
        BY <1>3, <1>5, <1>6, <1>7, <1>20, <1>21, <2>1 DEF MessageDone, Pause, rows
    <2>2. CASE MessageDone /\ ~LetLockGo
        <3>1. Bots
            <4>1. bot' = [bot EXCEPT !.lock = Free, !.turn = UserTurn] /\ wakes' = wakes
                BY <2>2 DEF MessageDone
            <4>2. UserTurn \in 0..UserTurn
                BY <1>l
            <4> HIDE DEF UserTurn
            <4> QED BY <1>0, <1>b, <1>l, <4>1, <4>2
        <3> QED BY <1>3, <1>5, <1>6, <1>7, <2>2, <3>1 DEF MessageDone, rows
    <2> QED BY <1>21, <2>1, <2>2 DEF Pause
<1>22. CASE TurnEnds
    <2>1. Bots
        BY <1>0, <1>b, <1>l, <1>22 DEF TurnEnds
    <2> QED BY <1>3, <1>5, <1>6, <1>7, <1>22, <2>1 DEF TurnEnds
<1>23. CASE TurnEndRecorded
    <2>1. Bots
        BY <1>0, <1>9, <1>23 DEF TurnEndRecorded
    <2> QED BY <1>3, <1>5, <1>6, <1>7, <1>23, <2>1 DEF TurnEndRecorded
<1>24. CASE AppServerStops
    <2>1. Bots
        BY <1>0, <1>9, <1>b, <1>l, <1>24 DEF AppServerStops
    <2> QED BY <1>3, <1>5, <1>6, <1>7, <1>24, <2>1 DEF AppServerStops
<1>25. ASSUME NEW rs, history' = Since(rs) PROVE Histories
    <2>1. history' = [history EXCEPT !.since = [r \in Routines |->
                                                   IF r \in rs THEN now ELSE history.since[r]]]
        BY <1>25 DEF Since
    <2>2. [r \in Routines |-> IF r \in rs THEN now ELSE history.since[r]] \in [Routines -> Nat]
        BY <1>0
    <2> QED BY <1>0, <2>1, <2>2
<1>26. CASE SetTimeZone \/ \E r \in Routines : Create(r) \/ Resume(r) \/ Reschedule(r)
    BY <1>3, <1>4, <1>5, <1>6, <1>25, <1>26 DEF SetTimeZone, Create, Resume, Reschedule
<1>27. CASE \E r \in Routines : Delete(r)
    BY <1>3, <1>4, <1>5, <1>6, <1>7, <1>27 DEF Delete
<1>28. ASSUME NEW r \in Routines, RunNow(r) PROVE Rest
    <2>1. Tasks
        <3> DEFINE new == {i \in {Len(run')} \ DOMAIN run : run'[i].state = "waiting"}
                   row == [step |-> "start", time |-> now, asked |-> None, due |-> now]
        <3>1. task' = [i \in RunIds |-> IF i \in new THEN row ELSE task[i]]
            BY <1>28 DEF RunNow
        <3>2. row \in TaskRows
            BY <1>0 DEF TaskRows, Steps, None
        <3> HIDE DEF new, row, TaskRows
        <3> QED BY <1>0, <3>1, <3>2
    <2> QED BY <1>3, <1>4, <1>5, <1>7, <1>28, <2>1 DEF RunNow
<1>29. CASE AccountChanges
    <2>1. Clocks
        BY <1>0, <1>29 DEF AccountChanges
    <2> QED BY <1>4, <1>5, <1>6, <1>7, <1>29, <2>1 DEF AccountChanges
<1>30. CASE Clock
    <2>1. Clocks
        BY <1>0, <1>30 DEF Clock, rows
    <2> QED BY <1>4, <1>5, <1>6, <1>7, <1>30, <2>1 DEF Clock
<1>31. CASE Restart
    <2>1. Bots /\ Passes /\ Clocks
        BY <1>0, <1>l, <1>31 DEF Restart, BotRows
    <2>2. Tasks
        BY <1>31 DEF Restart, TaskRows
    <2>3. Histories
        <3>1. [i \in RunIds |-> 0] \in [RunIds -> Nat]
            OBVIOUS
        <3> QED BY <1>0, <1>31, <3>1 DEF Restart
    <2> QED BY <2>1, <2>2, <2>3
<1>32. CASE UNCHANGED vars
    BY <1>3, <1>4, <1>5, <1>6, <1>7, <1>32 DEF vars
<1> HIDE DEF Rest
<1> QED BY <1>10, <1>11, <1>12, <1>13, <1>14, <1>15, <1>16, <1>17, <1>18, <1>19, <1>21, <1>22,
           <1>23, <1>24, <1>26, <1>27, <1>28, <1>29, <1>30, <1>31, <1>32
        DEF Next, PassStep, TaskStep, OwnerStep

-----------------------------------------------------------------------------

\* No task, turn or record is of a run that is not there; a run that a step
\* queues has no turn, and a task at most that is to start it.
LEMMA OfRunsStep ==
    ASSUME TypeOK, OfRuns, [Next]_vars
    PROVE  /\ OfRuns'
           /\ \A i \in RunIds \ DOMAIN run :
                 task'[i].step \in {"none", "start"} /\ history'.turns[i] = 0
           /\ DOMAIN run \subseteq DOMAIN run' /\ DOMAIN run' \subseteq RunIds
<1>0. /\ DOMAIN run = 1..Len(run) /\ Len(run) \in Nat /\ MaxRuns \in Nat
      /\ task \in [RunIds -> TaskRows]
      /\ history \in [turns : [RunIds -> Nat], tried : [RunIds -> Nat], since : [Routines -> Nat]]
      /\ history' \in [turns : [RunIds -> Nat], tried : [RunIds -> Nat], since : [Routines -> Nat]]
    BY RowTypes, TypeStep DEF TypeOK
<1>1. /\ DOMAIN run' = 1..Len(run') /\ Len(run') \in {Len(run), Len(run) + 1}
      /\ Len(run') =< MaxRuns
    <2>1. RowsGo
        BY RowsStep
    <2> HIDE DEF RunRows, RoutineRows
    <2> QED BY <2>1 DEF RowsGo, OfRuns
<1>2. DOMAIN run \subseteq DOMAIN run' /\ DOMAIN run' \subseteq RunIds /\ DOMAIN run \subseteq RunIds
    <2>1. /\ DOMAIN run' = 1..Len(run') /\ Len(run') \in {Len(run), Len(run) + 1}
          /\ Len(run') =< MaxRuns /\ DOMAIN run = 1..Len(run) /\ Len(run) \in Nat /\ MaxRuns \in Nat
        BY ZenonT(40), <1>0, <1>1
    <2> DEFINE n == Len(run)
               m == Len(run')
    <2>2. n \in Nat /\ m \in {n, n + 1} /\ m =< MaxRuns
        BY <2>1
    <2> HIDE DEF n, m
    <2>3. 1..n \subseteq 1..m /\ 1..m \subseteq 1..MaxRuns /\ 1..n \subseteq 1..MaxRuns
        BY SMTT(30), <1>0, <2>2, Longer
    <2> QED BY <2>1, <2>3 DEF n, m, RunIds
<1> DEFINE Apart == \A i \in RunIds \ DOMAIN run :
                        /\ task'[i].step \in {"none", "start"} /\ history'.turns[i] = 0
                        /\ i \notin DOMAIN run' => task'[i].step = "none"
           Turned == {bot'.turn, router'} \subseteq DOMAIN run \cup {None, UserTurn}
<1>3. SUFFICES Apart /\ Turned
    BY <1>1, <1>2 DEF OfRuns
<1>4. \A i \in RunIds \ DOMAIN run : task[i].step = "none" /\ history.turns[i] = 0
    BY DEF OfRuns
<1>5. ASSUME task' = task, history'.turns = history.turns PROVE Apart
    BY <1>4, <1>5
<1>6. ASSUME NEW i \in RunIds, task[i].step # "none",
             \A j \in RunIds : j # i => /\ task'[j] = task[j]
                                        /\ history'.turns[j] = history.turns[j]
      PROVE  Apart
    BY <1>4, <1>6
<1>7. ASSUME UNCHANGED <<bot, router>> PROVE Turned
    BY <1>7 DEF OfRuns
<1>8. ASSUME bot'.turn = bot.turn, router' = router PROVE Turned
    BY <1>8 DEF OfRuns
<1>9. bot \in BotRows
    BY DEF TypeOK
<1>10. \A lock : [bot EXCEPT !.lock = lock].turn = bot.turn
    BY SMTT(30), <1>9 DEF BotRows
<1>11. ASSUME \/ \E cause \in {"tick", "wake", "idle"} : BeginPass(cause)
              \/ \E r \in Routines : FallDue(r)
              \/ \E i \in RunIds : AskEnds(i)
              \/ \E idled \in looks : LookAgain(idled)
              \/ \E r \in Routines : Delete(r)
              \/ AccountChanges \/ Clock \/ UNCHANGED vars
       PROVE  Apart /\ Turned
    BY <1>5, <1>7, <1>11 DEF BeginPass, FallDue, AskEnds, LookAgain, Delete, AccountChanges, Clock, vars
<1>12. CASE SpawnTasks
    <2>1. \A i \in RunIds \ DOMAIN run : task'[i] = task[i]
        BY <1>12 DEF SpawnTasks, Spawned, RunsIn
    <2>2. history' = history /\ UNCHANGED <<bot, router>>
        BY <1>12 DEF SpawnTasks
    <2> QED BY <1>4, <1>7, <2>1, <2>2
<1>13. ASSUME NEW i \in RunIds, TaskStep(i) PROVE Apart /\ Turned
    <2>1. CASE AskEnds(i)
        BY <1>11, <2>1
    <2>2. CASE ~AskEnds(i)
        <3>1. task[i].step # "none"
            BY <1>13, <2>2 DEF TaskStep, Attempt, StartFails, TurnBegins, MarkRunning,
                               StartFailed, EnforceDeadline, LetRunGo, At
        <3>2. \A j \in RunIds : j # i => task'[j] = task[j]
            BY <1>0, <1>13, <2>2 DEF TaskStep, Attempt, StartFails, TurnBegins, MarkRunning,
                               StartFailed, EnforceDeadline, LetRunGo, Goes, LetsGo, NotStarted
        <3>3. history' = history \/ TurnBegins(i) \/ Attempt(i)
            BY <1>13, <2>2 DEF TaskStep, StartFails, MarkRunning, StartFailed, EnforceDeadline,
                               LetRunGo
        <3>4. TurnBegins(i) \/ Attempt(i) =>
                  \A j \in RunIds : j # i => history'.turns[j] = history.turns[j]
            BY <1>0 DEF TurnBegins, Attempt
        <3>5. Apart
            BY <1>6, <3>1, <3>2, <3>3, <3>4
        <3>6. Turned
            <4>1. CASE TurnBegins(i)
                <5>1. bot'.turn = i /\ router' = router /\ i \in DOMAIN run
                    BY <1>4, <1>9, <3>1, <4>1 DEF TurnBegins, BotRows
                <5> QED BY <5>1 DEF OfRuns
            <4>2. CASE ~TurnBegins(i)
                <5>1. router' = router /\ \E lock : bot' = [bot EXCEPT !.lock = lock] \/ bot' = bot
                    BY <1>13, <2>2, <4>2 DEF TaskStep, Attempt, StartFails, MarkRunning,
                               StartFailed, EnforceDeadline, LetRunGo
                <5> QED BY <1>8, <1>10, <5>1
            <4> QED BY <4>1, <4>2
        <3> QED BY <3>5, <3>6
    <2> QED BY <2>1, <2>2
<1>14. CASE \/ MessageArrives \/ MessageDone \/ TurnEnds \/ TurnEndRecorded \/ AppServerStops
            \/ \E r \in Routines : AskPause(r) \/ Pause(r)
    <2>1. UNCHANGED <<task, history>>
        BY <1>14 DEF MessageArrives, MessageDone, TurnEnds, TurnEndRecorded, AppServerStops,
                     AskPause, Pause
    <2>2. Apart
        BY <1>5, <2>1
    <2>3. LetLockGo => bot'.turn = bot.turn
        BY <1>9 DEF LetLockGo, TurnedIdle, BotRows
    <2>4. Turned
        <3>1. CASE MessageArrives \/ \E r \in Routines : AskPause(r)
            BY <1>8, <1>9, <3>1 DEF MessageArrives, AskPause, BotRows
        <3>2. CASE MessageDone
            BY <1>8, <1>9, <2>3, <3>2 DEF MessageDone, BotRows, OfRuns
        <3>3. CASE \E r \in Routines : Pause(r)
            BY <1>8, <2>3, <3>3 DEF Pause
        <3>4. CASE TurnEnds
            BY <1>9, <3>4 DEF TurnEnds, BotRows, OfRuns
        <3>5. CASE TurnEndRecorded
            BY <1>9, <3>5 DEF TurnEndRecorded, TurnedIdle, BotRows, OfRuns
        <3>6. CASE AppServerStops
            BY <1>9, <3>6 DEF AppServerStops, TurnedIdle, BotRows, OfRuns
        <3> QED BY <1>14, <3>1, <3>2, <3>3, <3>4, <3>5, <3>6
    <2> QED BY SMTT(30), <2>2, <2>4
<1>15. CASE SetTimeZone \/ \E r \in Routines : Create(r) \/ Resume(r) \/ Reschedule(r)
    <2>1. UNCHANGED <<task, bot, router>> /\ \E rs : history' = Since(rs)
        BY <1>15 DEF SetTimeZone, Create, Resume, Reschedule
    <2>2. history'.turns = history.turns
        BY <1>0, <2>1 DEF Since
    <2> QED BY SMTT(30), <1>5, <1>7, <2>1, <2>2
<1>16. ASSUME NEW r \in Routines, RunNow(r) PROVE Apart /\ Turned
    <2>1. /\ UNCHANGED <<bot, router, history>>
          /\ \A i \in RunIds : \/ task'[i] = task[i]
                               \/ i = Len(run') /\ task'[i].step = "start"
        BY SMTT(30), <1>16 DEF RunNow
    <2>2. \A i \in RunIds : i = Len(run') => i \in DOMAIN run'
        <3> DEFINE n == Len(run)
                   m == Len(run')
        <3>1. n \in Nat /\ m \in {n, n + 1} /\ m =< MaxRuns
            BY <1>0, <1>1
        <3> HIDE DEF n, m
        <3>2. \A p \in 1..MaxRuns : p = m => p \in 1..m
            BY <1>0, <3>1, Longer
        <3> QED BY ZenonT(40), <1>1, <3>2 DEF m, RunIds
    <2> QED BY <1>4, <1>7, <2>1, <2>2
<1>17. CASE Restart
    <2>1. \A i \in RunIds : task'[i].step = "none" /\ history'.turns[i] = 0
        BY <1>0, <1>17 DEF Restart
    <2>2. bot'.turn = None /\ router' = None
        BY <1>17 DEF Restart
    <2> QED BY <2>1, <2>2
<1> HIDE DEF Apart, Turned
<1> QED BY <1>11, <1>12, <1>13, <1>14, <1>15, <1>16, <1>17 DEF Next, PassStep, OwnerStep

-----------------------------------------------------------------------------

\* What holds of a run while its task goes on starting it.
KeepsStarting(j) ==
    /\ bot'.lock = bot.lock
    /\ task[j].step = "starting" =>
           /\ run'[j].state = "waiting" \/ ~routine'[run[j].routine].alive
           /\ run[j].trigger = "schedule" => ~routine'[run[j].routine].paused

\* A run that is being started stays as it was, and so does its routine, but
\* for being deleted: nobody else has the lock, and the runs that end
\* meanwhile are of other routines.
LEMMA StartingStep ==
    ASSUME TypeOK, OfRuns, OneActive, TasksHold, [Next]_vars, NEW j \in DOMAIN run,
           task[j].step \in {"starting", "begun"}, task'[j] = task[j]
    PROVE  KeepsStarting(j)
<1>0. /\ DOMAIN run = 1..Len(run) /\ Len(run) \in Nat /\ Never \in Nat /\ now \in Nat
      /\ \A i \in 1..Len(run) : run[i] \in RunRows
      /\ routine \in [Routines -> RoutineRows] /\ run[j].routine \in Routines
      /\ run[j].routine \in DOMAIN routine
      /\ task \in [RunIds -> TaskRows] /\ bot \in BotRows
      /\ DOMAIN run \subseteq RunIds /\ j \in RunIds
    <2>1. run[j] \in RunRows /\ DOMAIN run \subseteq RunIds
        BY RowTypes, OfRunsStep
    <2>2. run[j].routine \in Routines
        BY <2>1 DEF RunRows
    <2> HIDE DEF RunRows, RoutineRows
    <2> QED BY <2>1, <2>2, RowTypes DEF TypeOK
<1>1. /\ bot.lock = <<"run", j>>
      /\ task[j].step = "starting" =>
             /\ run[j].state = "waiting" \/ ~routine[run[j].routine].alive
             /\ run[j].trigger = "schedule" => ~routine[run[j].routine].paused
    BY DEF TasksHold, Holds
<1>2. /\ bot.lock # Free /\ bot.lock # <<"user", None>>
      /\ \A r : bot.lock # <<"pause", r>>
      /\ \A i \in DOMAIN run : i # j => task[i].step \notin {"starting", "begun"}
    <2>1. \A i \in DOMAIN run : task[i].step \in {"starting", "begun"} => bot.lock = <<"run", i>>
        BY DEF TasksHold, Holds
    <2>2. \A i : <<"run", i>> = <<"run", j>> => i = j
        OBVIOUS
    <2>3. <<"run", j>> # <<"free", None>> /\ <<"run", j>> # <<"user", None>>
        OBVIOUS
    <2>4. \A r : <<"run", j>> # <<"pause", r>>
        OBVIOUS
    <2> QED BY <1>1, <2>1, <2>2, <2>3, <2>4 DEF Free
<1>3. ASSUME bot'.lock = bot.lock, run'[j].state = run[j].state,
             routine'[run[j].routine].alive = routine[run[j].routine].alive,
             routine'[run[j].routine].paused = routine[run[j].routine].paused
                \/ ~routine'[run[j].routine].paused
      PROVE  KeepsStarting(j)
    BY <1>1, <1>3 DEF KeepsStarting
\* The runs of other routines end, or of none that is there.
<1>4. ASSUME bot'.lock = bot.lock, NEW which \in SUBSET DOMAIN run,
             NEW only \in SUBSET {"waiting", "running"},
             NEW state \in {"succeeded", "failed", "missed", "skipped", "interrupted"},
             EndRuns(which, only, state),
             task[j].step = "starting" => j \notin which \/ only = {"running"}
      PROVE  KeepsStarting(j)
    <2>1. EndsRuns(which, only, state)
        BY <1>4, EndRunsShape DEF Ended
    <2>2. CASE task[j].step = "starting"
        <3> DEFINE r == run[j].routine
        <3>1. routine'[r].alive = routine[r].alive
            BY <1>0, <2>1 DEF EndsRuns
        <3>2. CASE run[j].state = "waiting"
            <4>1. ~(j \in which /\ run[j].state \in only)
                BY <1>4, <2>2, <3>2
            <4>2. run'[j] = run[j]
                BY <1>0, <2>1, <4>1 DEF EndsRuns
            <4>3. routine'[r] = routine[r]
                <5> SUFFICES ASSUME routine'[r] # routine[r] PROVE FALSE
                    OBVIOUS
                <5>1. PICK i \in which : run[i].state \in only /\ run[i].routine = r
                    BY <1>0, <2>1 DEF EndsRuns
                <5>2. i \in Active /\ j \in Active
                    BY <1>4, <3>2, <5>1 DEF Active
                <5> QED BY <4>1, <5>1, <5>2 DEF OneActive
            <4> QED BY <1>1, <1>4, <2>2, <4>2, <4>3, <3>2 DEF KeepsStarting
        <3>3. CASE ~routine[r].alive
            <4>1. routine'[r] = routine[r]
                BY <1>0, <2>1, <3>3 DEF EndsRuns
            <4> QED BY <1>1, <1>4, <2>2, <3>3, <4>1 DEF KeepsStarting
        <3> QED BY <1>1, <2>2, <3>2, <3>3
    <2>3. CASE task[j].step # "starting"
        BY <1>4, <2>3 DEF KeepsStarting
    <2> QED BY <2>2, <2>3
<1>5. ASSUME NEW i \in RunIds, TaskStep(i) PROVE KeepsStarting(j)
    <2>1. CASE AskEnds(i)
        BY <1>3, <2>1 DEF AskEnds, rows
    <2>2. CASE ~AskEnds(i)
        <3>1. task[i].step # "none" /\ i \in DOMAIN run /\ {i} \in SUBSET DOMAIN run
            BY <1>5, <2>2 DEF TaskStep, Attempt, StartFails, TurnBegins, MarkRunning,
                               StartFailed, EnforceDeadline, LetRunGo, At, OfRuns
        <3>2. task[i].step # task'[i].step
            BY <1>0, <1>5, <2>2 DEF TaskStep, Attempt, StartFails, TurnBegins, MarkRunning,
                   StartFailed, EnforceDeadline, LetRunGo, Goes, LetsGo, NotStarted, At, TaskRows, Steps
        <3>3. i # j /\ task[i].step \notin {"starting", "begun"}
            BY <1>2, <3>1, <3>2
        <3>4. bot' = bot
            BY <1>0, <1>2, <1>5, <2>2, <3>3 DEF TaskStep, Attempt, AttemptOutcome, NotStarted,
                   LetsGo, StartFails, TurnBegins, MarkRunning, StartFailed, EnforceDeadline,
                   LetRunGo, At
        <3>5. \/ UNCHANGED <<run, routine>>
              \/ EndRuns({i}, {"waiting"}, "missed") \/ EndRuns({i}, {"waiting"}, "skipped")
              \/ EndRuns({i}, {"waiting"}, "failed")
              \/ EndRuns({i}, {"waiting", "running"}, "interrupted")
              \/ WaitsFor(i, "bot") \/ WaitsFor(i, "signIn")
              \/ run' = [run EXCEPT ![i].asked = task[i].time] /\ routine' = routine
            BY <1>5, <2>2, <3>3 DEF TaskStep, Attempt, NotStarted, StartFails, TurnBegins,
                   MarkRunning, StartFailed, EnforceDeadline, LetRunGo, At, rows
        <3>6. ASSUME \/ UNCHANGED <<run, routine>> \/ WaitsFor(i, "bot") \/ WaitsFor(i, "signIn")
                     \/ run' = [run EXCEPT ![i].asked = task[i].time] /\ routine' = routine
              PROVE  KeepsStarting(j)
            <4>1. run'[j] = run[j] /\ routine' = routine
                BY <3>3, <3>6 DEF WaitsFor
            <4> QED BY <1>3, <3>4, <4>1
        <3> QED BY <1>4, <3>1, <3>3, <3>4, <3>5, <3>6
    <2> QED BY <2>1, <2>2
<1>6. ASSUME NEW r \in Routines, FallDue(r) PROVE KeepsStarting(j)
    <2> DEFINE row == routine[r]
               latest == LatestUpTo(row.schedule, pass.time)
               due == IF latest >= row.next THEN latest ELSE row.next
               new == [row EXCEPT !.next = NextAfter(row.schedule, pass.time)]
    <2>1. CASE ~(row.alive /\ ~row.paused /\ row.next =< pass.time)
        BY <1>3, <1>6, <2>1 DEF FallDue
    <2>2. CASE row.alive /\ ~row.paused /\ row.next =< pass.time
        <3>1. Queue(r, new, "schedule", due, pass.time)
            BY <1>6, <2>2 DEF FallDue
        <3>2. row \in RoutineRows /\ pass.time \in Nat
            BY <1>0 DEF TypeOK
        <3>3. latest \in Nat /\ NextAfter(row.schedule, pass.time) \in Nat /\ row.next \in Nat
            BY <3>2, DueTimes DEF RoutineRows
        <3>4. due \in Nat
            BY <3>3
        <3>5. new \in RoutineRows /\ new.alive = row.alive /\ new.paused = row.paused
            BY <3>2, <3>3 DEF RoutineRows
        <3>6. QueuesRun(r, new, "schedule", due)
            <4> HIDE DEF due, new, row, RoutineRows
            <4> QED BY <3>1, <3>2, <3>4, <3>5, QueueShape
        <3>7. run'[j].state = run[j].state
            <4>1. run'[j] = run[j] \/ run'[j] = [run[j] EXCEPT !.due = due]
                BY <1>0, <3>6 DEF QueuesRun
            <4>2. run[j] \in RunRows
                BY <1>0
            <4> HIDE DEF due
            <4> QED BY <4>1, <4>2 DEF RunRows
        <3>8. /\ routine'[run[j].routine].alive = routine[run[j].routine].alive
              /\ routine'[run[j].routine].paused = routine[run[j].routine].paused
            <4>1. routine' = [routine EXCEPT ![r] = new]
                BY <3>6 DEF QueuesRun
            <4> HIDE DEF new
            <4> QED BY <1>0, <3>5, <4>1
        <3> QED BY <1>3, <1>6, <3>7, <3>8 DEF FallDue
    <2> QED BY <2>1, <2>2
<1>7. ASSUME NEW r \in Routines, RunNow(r) PROVE KeepsStarting(j)
    <2>1. Queue(r, routine[r], "manual", now, now) /\ bot' = bot
        BY <1>7 DEF RunNow
    <2>2. QueuesRun(r, routine[r], "manual", now)
        <3> HIDE DEF RoutineRows
        <3> QED BY <1>0, <2>1, QueueShape
    <2>3. run'[j].state = run[j].state
        <3>1. run'[j] = run[j] \/ run'[j] = [run[j] EXCEPT !.due = now]
            BY <1>0, <2>2 DEF QueuesRun
        <3>2. run[j] \in RunRows
            BY <1>0
        <3> QED BY <3>1, <3>2 DEF RunRows
    <2>4. routine' = routine
        BY <1>0, <2>2 DEF QueuesRun
    <2> QED BY <1>3, <2>1, <2>3, <2>4
<1>8. ASSUME NEW r \in Routines, Create(r) PROVE KeepsStarting(j)
    <2>1. run[j].routine # r /\ run' = run /\ bot' = bot
        BY <1>8 DEF Create
    <2>2. routine'[run[j].routine] = routine[run[j].routine]
        BY <1>8, <2>1 DEF Create
    <2> QED BY <1>3, <2>1, <2>2
<1>9. ASSUME run' = run, bot' = bot,
             \A r \in Routines : /\ routine'[r].alive = routine[r].alive
                                 /\ routine'[r].paused = routine[r].paused \/ ~routine'[r].paused
      PROVE  KeepsStarting(j)
    BY <1>0, <1>3, <1>9
<1>10. \A row \in RoutineRows : \A schedule :
           /\ FromNow(row, schedule).alive = row.alive
           /\ FromNow(row, schedule).paused = row.paused
    BY DEF FromNow, RoutineRows
<1>11. ASSUME NEW r \in Routines, Resume(r) PROVE KeepsStarting(j)
    <2> DEFINE row == [routine[r] EXCEPT !.paused = FALSE, !.failures = 0]
    <2>1. row \in RoutineRows /\ row.alive = routine[r].alive /\ row.paused = FALSE
        BY ZenonT(40), <1>0 DEF RoutineRows
    <2>2. /\ routine' = [routine EXCEPT ![r] = FromNow(row, routine[r].schedule)]
          /\ run' = run /\ bot' = bot
        BY <1>11 DEF Resume
    <2> HIDE DEF row, RoutineRows
    <2> QED BY <1>0, <1>9, <1>10, <2>1, <2>2
<1>12. ASSUME NEW r \in Routines, Reschedule(r) PROVE KeepsStarting(j)
    <2>1. /\ \E schedule : routine' = [routine EXCEPT ![r] = FromNow(routine[r], schedule)]
          /\ run' = run /\ bot' = bot
        BY <1>12 DEF Reschedule
    <2> HIDE DEF RoutineRows
    <2> QED BY <1>0, <1>9, <1>10, <2>1
<1>13. CASE SetTimeZone
    <2>1. \A r \in Routines : \/ routine'[r] = routine[r]
                              \/ \E schedule : routine'[r] = FromNow(routine[r], schedule)
        BY <1>13 DEF SetTimeZone
    <2>2. run' = run /\ bot' = bot
        BY <1>13 DEF SetTimeZone
    <2> HIDE DEF RoutineRows
    <2> QED BY <1>0, <1>9, <1>10, <2>1, <2>2
<1>14. ASSUME NEW r \in Routines, Delete(r) PROVE KeepsStarting(j)
    <2>1. /\ \A q \in Routines : routine'[q].paused = routine[q].paused
          /\ ~routine'[r].alive /\ bot' = bot
          /\ \A q \in Routines : q # r => routine'[q] = routine[q]
        BY <1>0, <1>14 DEF Delete, RoutineRows
    <2>2. run[j].routine # r => run'[j] = run[j]
        BY <1>14 DEF Delete, RunsOf
    <2> HIDE DEF RoutineRows
    <2>3. CASE run[j].routine = r
        BY <1>0, <1>1, <2>1, <2>3 DEF KeepsStarting
    <2>4. CASE run[j].routine # r
        BY <1>0, <1>1, <2>1, <2>2, <2>4 DEF KeepsStarting
    <2> QED BY <2>3, <2>4
<1>15. CASE TurnEnds
    <2>1. /\ routine' = routine /\ bot'.lock = bot.lock
          /\ run' = run \/ \E ending \in TurnEndings : run' = [run EXCEPT ![bot.turn].turn = ending]
        BY <1>0, <1>15 DEF TurnEnds, BotRows
    <2>2. run[j] \in RunRows
        BY <1>0
    <2>3. run'[j] = run[j] \/ \E ending : run'[j] = [run[j] EXCEPT !.turn = ending]
        BY ZenonT(40), <2>1
    <2>4. run'[j].state = run[j].state
        BY <2>2, <2>3 DEF RunRows
    <2> QED BY <1>3, <2>1, <2>4
<1>16. \A n : [bot EXCEPT !.idled = n].lock = bot.lock
    BY <1>0 DEF BotRows
<1>17. CASE TurnEndRecorded
    <2>1. bot'.lock = bot.lock
        BY <1>0, <1>16, <1>17 DEF TurnEndRecorded, TurnedIdle
    <2>2. CASE router = UserTurn
        BY <1>3, <1>17, <2>1, <2>2 DEF TurnEndRecorded
    <2>3. CASE router # UserTurn
        <3>1. {router} \in SUBSET DOMAIN run
            BY <1>17, <2>3 DEF TurnEndRecorded, OfRuns
        <3>2. StateOf(run[router].turn) \in
                  {"succeeded", "failed", "missed", "skipped", "interrupted"}
            BY DEF StateOf
        <3> QED BY <1>4, <1>17, <2>1, <2>3, <3>1, <3>2 DEF TurnEndRecorded
    <2> QED BY <2>2, <2>3
<1>18. CASE AppServerStops
    <2>1. bot'.lock = bot.lock
        BY <1>0, <1>18 DEF AppServerStops, TurnedIdle, BotRows
    <2> QED BY <1>4, <1>18, <2>1 DEF AppServerStops
<1>19. CASE Restart
    <2>1. task'[j].step = "none"
        BY <1>0, <1>19 DEF Restart
    <2> QED BY <2>1
<1>20. ASSUME \/ \E cause \in {"tick", "wake", "idle"} : BeginPass(cause)
              \/ SpawnTasks \/ \E idled \in looks : LookAgain(idled)
              \/ AccountChanges \/ Clock \/ UNCHANGED vars
       PROVE  KeepsStarting(j)
    BY <1>3, <1>20 DEF BeginPass, SpawnTasks, LookAgain, AccountChanges, Clock, vars, rows
<1>21. ~MessageArrives /\ ~MessageDone /\ \A r \in Routines : ~AskPause(r) /\ ~Pause(r)
    BY <1>2 DEF MessageArrives, MessageDone, AskPause, Pause
<1> QED BY <1>5, <1>6, <1>7, <1>8, <1>11, <1>12, <1>13, <1>14, <1>15, <1>17, <1>18, <1>19, <1>20,
           <1>21
        DEF Next, PassStep, OwnerStep

\* What the tasks know of their runs stays true: a step of a task concerns
\* its run alone, and what the others do to a run leaves it so.
LEMMA HoldsStep ==
    ASSUME TypeOK, OfRuns, OneActive, TasksHold, [Next]_vars
    PROVE  TasksHold'
<1>0. /\ DOMAIN run = 1..Len(run) /\ Len(run) \in Nat
      /\ task \in [RunIds -> TaskRows] /\ bot \in BotRows
      /\ history \in [turns : [RunIds -> Nat], tried : [RunIds -> Nat], since : [Routines -> Nat]]
      /\ history' \in [turns : [RunIds -> Nat], tried : [RunIds -> Nat], since : [Routines -> Nat]]
      /\ DOMAIN run \subseteq RunIds /\ DOMAIN run' \subseteq RunIds
      /\ \A j \in RunIds \ DOMAIN run :
            task'[j].step \in {"none", "start"} /\ history'.turns[j] = 0
    BY RowTypes, OfRunsStep, TypeStep DEF TypeOK
<1>1. \A j \in DOMAIN run : /\ run'[j].routine = run[j].routine
                            /\ run'[j].trigger = run[j].trigger
                            /\ run'[j].state = "waiting" => run[j].state = "waiting"
    <2>1. RowsGo
        BY RowsStep
    <2> HIDE DEF RunRows, RoutineRows
    <2> QED BY <1>0, <2>1 DEF RowsGo, RowGoes
<1>2. \A j \in DOMAIN run : Holds(j)
    BY DEF TasksHold
<1> DEFINE NewHolds(j) ==
               /\ task'[j].step \in {"starting", "begun"} => bot'.lock = <<"run", j>>
               /\ task'[j].step = "starting" =>
                      /\ history'.turns[j] = 0
                      /\ run'[j].state = "waiting" \/ ~routine'[run'[j].routine].alive
                      /\ run'[j].trigger = "schedule" => ~routine'[run'[j].routine].paused
               /\ task'[j].step = "deadline" => run'[j].state # "waiting"
               /\ task'[j].step = "waits" => history'.tried[j] = task'[j].idled
               /\ run'[j].state = "waiting" /\ task'[j].step # "begun" => history'.turns[j] = 0
               /\ history'.turns[j] =< 1
           All == \A j \in DOMAIN run : NewHolds(j)
<1>3. SUFFICES All
    <2>1. ASSUME NEW j \in RunIds \ DOMAIN run PROVE NewHolds(j)
        <3>1. task'[j].step \in {"none", "start"} /\ history'.turns[j] = 0
            BY <1>0
        <3> QED BY <3>1
    <2>2. \A j \in DOMAIN run' : Holds(j)' <=> NewHolds(j)
        BY DEF Holds
    <2> HIDE DEF NewHolds
    <2> QED BY <1>0, <2>1, <2>2 DEF TasksHold
\* A run whose task stays as it is.
<1>4. ASSUME NEW j \in DOMAIN run, task'[j] = task[j], history'.turns[j] = history.turns[j],
             history'.tried[j] = history.tried[j]
      PROVE  NewHolds(j)
    <2>1. task[j].step \in {"starting", "begun"} => KeepsStarting(j)
        BY <1>4, StartingStep
    <2> QED BY <1>1, <1>2, <1>4, <2>1 DEF Holds, KeepsStarting
\* A run whose task goes on and whose turns stay.
<1>5. ASSUME NEW j \in DOMAIN run, history'.turns[j] = history.turns[j], task[j].step # "begun",
             task'[j].step \notin {"starting", "begun", "deadline"},
             task'[j].step = "waits" => history'.tried[j] = task'[j].idled
      PROVE  NewHolds(j)
    BY <1>1, <1>2, <1>5 DEF Holds
<1>6. ASSUME task' = task, history'.turns = history.turns, history'.tried = history.tried
      PROVE  All
    <2> HIDE DEF NewHolds
    <2> QED BY <1>4, <1>6
<1>7. ASSUME NEW i \in DOMAIN run, \A j \in RunIds \ {i} : task'[j] = task[j],
             \A j \in RunIds \ {i} : /\ history'.turns[j] = history.turns[j]
                                     /\ history'.tried[j] = history.tried[j],
             NewHolds(i)
      PROVE  All
    <2>1. \A j \in DOMAIN run : j # i => NewHolds(j)
        <3> HIDE DEF NewHolds
        <3> QED BY <1>0, <1>4, <1>7
    <2> HIDE DEF NewHolds
    <2> QED BY <1>7, <2>1
<1>8. \A i \in RunIds : task[i].step # "none" => i \in DOMAIN run
    BY DEF OfRuns
<1>9. ASSUME NEW i \in RunIds, Attempt(i) PROVE All
    <2>1. i \in DOMAIN run /\ task[i].step = "start"
        BY <1>8, <1>9 DEF Attempt, At
    <2>2. /\ \A j \in RunIds \ {i} : task'[j] = task[j]
          /\ history' = [history EXCEPT !.tried[i] =
                             IF task'[i].step = "waits" THEN bot.idled ELSE 0]
        <3>1. \/ \E step : Goes(i, step)
              \/ LetsGo(i)
              \/ task' = [task EXCEPT ![i] = [step |-> "waits", idled |-> bot.idled]]
            BY <1>9 DEF Attempt, NotStarted
        <3>2. \A j \in RunIds \ {i} : task'[j] = task[j]
            BY <1>0, <3>1 DEF Goes, LetsGo
        <3> QED BY <1>9, <3>2 DEF Attempt
    <2>3. /\ \A j \in RunIds : history'.turns[j] = history.turns[j]
          /\ \A j \in RunIds \ {i} : history'.tried[j] = history.tried[j]
          /\ task'[i].step = "waits" => history'.tried[i] = bot.idled
        BY <1>0, <2>2
    <2>4. NewHolds(i)
        <3>1. CASE AttemptOutcome(i) = "starts" /\ Goes(i, "starting") /\ UNCHANGED <<run, routine>>
            <4>1. /\ ~(routine[run[i].routine].paused /\ run[i].trigger = "schedule")
                  /\ run[i].state = "waiting"
                BY <3>1 DEF AttemptOutcome
            <4>2. task'[i].step = "starting"
                BY <1>0, <2>1, <3>1 DEF Goes, TaskRows
            <4>3. bot'.lock = <<"run", i>>
                <5>1. bot' = [bot EXCEPT !.lock = <<"run", i>>]
                    BY <1>9, <4>2 DEF Attempt
                <5> QED BY <1>0, <5>1 DEF BotRows
            <4>4. history'.turns[i] = 0
                BY <1>2, <2>1, <2>3, <4>1 DEF Holds
            <4> QED BY <3>1, <4>1, <4>2, <4>3, <4>4
        <3>2. CASE task'[i].step = "none"
            BY <1>5, <2>1, <2>3, <3>2
        <3>3. CASE task' = [task EXCEPT ![i] = [step |-> "waits", idled |-> bot.idled]]
            <4>1. task'[i] = [step |-> "waits", idled |-> bot.idled]
                BY <1>0, <3>3
            <4>2. task'[i].step = "waits" /\ task'[i].idled = bot.idled
                BY <4>1
            <4> QED BY <1>5, <2>1, <2>3, <4>2
        <3>4. LetsGo(i) => task'[i].step = "none"
            BY <1>0 DEF LetsGo
        <3> HIDE DEF NewHolds
        <3> QED BY <1>9, <3>1, <3>2, <3>3, <3>4 DEF Attempt, NotStarted
    <2> HIDE DEF NewHolds, All
    <2> QED BY <1>7, <2>1, <2>2, <2>3, <2>4
<1>10. ASSUME NEW i \in RunIds, TurnBegins(i) PROVE All
    <2>1. i \in DOMAIN run /\ task[i].step = "starting"
        BY <1>8, <1>10 DEF TurnBegins, At
    <2>2. /\ \A j \in RunIds \ {i} : task'[j] = task[j]
          /\ task'[i].step = "begun" /\ bot'.lock = bot.lock
          /\ \A j \in RunIds \ {i} : /\ history'.turns[j] = history.turns[j]
                                     /\ history'.tried[j] = history.tried[j]
          /\ history'.turns[i] = history.turns[i] + 1
        BY <1>0, <1>10, <2>1 DEF TurnBegins, Goes, TaskRows, Steps, BotRows
    <2>3. NewHolds(i)
        BY <1>2, <2>1, <2>2 DEF Holds
    <2> HIDE DEF NewHolds, All
    <2> QED BY <1>7, <2>1, <2>2, <2>3
<1>11. ASSUME NEW i \in RunIds, MarkRunning(i) PROVE All
    <2>1. i \in DOMAIN run /\ task[i].step = "begun" /\ {i} \in SUBSET DOMAIN run
        BY <1>8, <1>11 DEF MarkRunning, At
    <2>2. /\ \A j \in RunIds \ {i} : task'[j] = task[j]
          /\ task'[i].step = "none" /\ history' = history
        BY <1>0, <1>11, <2>1 DEF MarkRunning, LetsGo
    <2>3. run'[i].state # "waiting"
        <3>1. CASE run[i].state # "waiting"
            BY <1>1, <2>1, <3>1
        <3>2. CASE run[i].state = "waiting" /\ run[i].turn \in TurnEndings
            <4> DEFINE state == StateOf(run[i].turn)
            <4>1. state \in Ended \ {"deleted"} /\ EndRuns({i}, {"waiting"}, state)
                BY <1>11, <3>2 DEF MarkRunning, StateOf, Ended
            <4> HIDE DEF state
            <4>2. EndsRuns({i}, {"waiting"}, state)
                BY <2>1, <4>1, EndRunsShape
            <4>3. run'[i] = [run[i] EXCEPT !.state = state, !.waitingFor = "nothing"]
                BY <1>0, <2>1, <3>2, <4>2 DEF EndsRuns
            <4>4. run'[i].state = state
                <5>1. run[i] \in RunRows
                    BY <1>0, <2>1, RowTypes
                <5> QED BY <4>3, <5>1 DEF RunRows
            <4> QED BY <4>1, <4>4 DEF Ended
        <3>3. CASE run[i].state = "waiting" /\ run[i].turn \notin TurnEndings
            <4>1. run' = [run EXCEPT ![i].state = "running", ![i].started = now,
                                     ![i].waitingFor = "nothing"]
                BY <1>11, <3>3 DEF MarkRunning
            <4>2. run[i] \in RunRows
                BY <1>0, <2>1, RowTypes
            <4> QED BY <2>1, <4>1, <4>2 DEF RunRows
        <3> QED BY <3>1, <3>2, <3>3
    <2>4. NewHolds(i)
        BY <1>2, <2>1, <2>2, <2>3 DEF Holds
    <2> HIDE DEF NewHolds, All
    <2> QED BY <1>7, <2>1, <2>2, <2>4
<1>12. ASSUME NEW i \in RunIds, StartFails(i) \/ StartFailed(i) \/ EnforceDeadline(i) \/ LetRunGo(i)
       PROVE  All
    <2>1. i \in DOMAIN run /\ task[i].step \in {"starting", "failed", "signedOut", "deadline", "waits"}
        BY <1>8, <1>12 DEF StartFails, StartFailed, EnforceDeadline, LetRunGo, At
    <2>2. /\ \A j \in RunIds \ {i} : task'[j] = task[j]
          /\ task'[i].step \in {"none", "failed", "signedOut"} /\ history' = history
        <3>1. \/ LetsGo(i)
              \/ task[i].step \in Steps /\ \E step \in {"failed", "signedOut"} : Goes(i, step)
            BY <1>12 DEF StartFails, StartFailed, EnforceDeadline, LetRunGo, NotStarted, At, Steps
        <3>2. /\ \A j \in RunIds \ {i} : task'[j] = task[j]
              /\ task'[i].step \in {"none", "failed", "signedOut"}
            BY <1>0, <3>1 DEF LetsGo, Goes, TaskRows, Steps
        <3>3. history' = history
            BY <1>12 DEF StartFails, StartFailed, EnforceDeadline, LetRunGo
        <3> QED BY <3>2, <3>3
    <2>3. NewHolds(i)
        BY <1>5, <2>1, <2>2
    <2> HIDE DEF NewHolds, All
    <2> QED BY <1>7, <2>1, <2>2, <2>3
<1>13. CASE SpawnTasks
    <2> DEFINE ends == {i \in RunsIn("running") :
                           DeadlineAsks(run[i], run[i].asked, pass.time) # "nothing"}
               inner == Spawned(task, RunsIn("waiting"), "start", pass.time)
    <2>1. task' = Spawned(inner, ends, "deadline", pass.time) /\ history' = history /\ run' = run
        BY <1>13 DEF SpawnTasks, rows
    <2>2. ASSUME NEW j \in DOMAIN run PROVE NewHolds(j)
        <3>1. \/ inner[j] = task[j]
              \/ task[j].step = "none" /\ inner[j].step = "start"
            BY <1>0, <2>2 DEF Spawned
        <3>2. \/ task'[j] = inner[j]
              \/ j \in ends /\ inner[j].step = "none" /\ task'[j].step = "deadline"
            <4> HIDE DEF inner, ends
            <4> QED BY <1>0, <2>1, <2>2 DEF Spawned
        <3> HIDE DEF inner
        <3>3. CASE task'[j] = task[j]
            BY <1>4, <2>1, <2>2, <3>3
        <3>4. CASE task[j].step = "none" /\ task'[j].step = "start"
            BY <1>5, <2>1, <2>2, <3>4
        <3>5. CASE j \in ends /\ task[j].step = "none" /\ task'[j].step = "deadline"
            BY <1>2, <2>1, <2>2, <3>5 DEF Holds, RunsIn
        <3> HIDE DEF NewHolds, ends
        <3> QED BY <3>1, <3>2, <3>3, <3>4, <3>5
    <2> QED BY <2>2
<1>14. ASSUME NEW r \in Routines, RunNow(r) PROVE All
    <2>1. \A j \in DOMAIN run : task'[j] = task[j]
        BY <1>0, <1>14 DEF RunNow
    <2>2. history' = history
        BY <1>14 DEF RunNow
    <2> HIDE DEF NewHolds
    <2> QED BY <1>4, <2>1, <2>2
<1>15. CASE Restart
    <2>1. \A j \in RunIds : task'[j].step = "none" /\ history'.turns[j] = 0
        BY <1>0, <1>15 DEF Restart
    <2> QED BY <1>0, <2>1
<1>16. CASE SetTimeZone \/ \E r \in Routines : Create(r) \/ Resume(r) \/ Reschedule(r)
    <2>1. task' = task /\ \E rs : history' = Since(rs)
        BY <1>16 DEF SetTimeZone, Create, Resume, Reschedule
    <2>2. history'.turns = history.turns /\ history'.tried = history.tried
        BY <1>0, <2>1 DEF Since
    <2> HIDE DEF All
    <2> QED BY SMTT(30), <1>6, <2>1, <2>2
<1>17. ASSUME \/ \E cause \in {"tick", "wake", "idle"} : BeginPass(cause)
              \/ \E r \in Routines : FallDue(r) \/ Delete(r) \/ AskPause(r) \/ Pause(r)
              \/ \E i \in RunIds : AskEnds(i)
              \/ \E idled \in looks : LookAgain(idled)
              \/ MessageArrives \/ MessageDone \/ TurnEnds \/ TurnEndRecorded \/ AppServerStops
              \/ AccountChanges \/ Clock \/ UNCHANGED vars
       PROVE  All
    <2>1. UNCHANGED <<task, history>>
        BY <1>17 DEF BeginPass, FallDue, AskEnds, LookAgain, Delete, AskPause, Pause, MessageArrives,
             MessageDone, TurnEnds, TurnEndRecorded, AppServerStops, AccountChanges, Clock, vars
    <2> HIDE DEF All
    <2> QED BY SMTT(30), <1>6, <2>1
<1> HIDE DEF All
<1> QED BY <1>9, <1>10, <1>11, <1>12, <1>13, <1>14, <1>15, <1>16, <1>17
        DEF Next, PassStep, TaskStep, OwnerStep

-----------------------------------------------------------------------------

\* No due time is lost by a step: a routine that falls due has a run for the
\* latest time it missed, one scheduled anew has missed none since, and a run
\* keeps standing for what it stood for.
LEMMA StoodStep ==
    ASSUME TypeOK, OfRuns, TimesStood, [Next]_vars
    PROVE  TimesStood'
<1>0. /\ DOMAIN run = 1..Len(run) /\ now \in Nat /\ bot \in BotRows
      /\ routine \in [Routines -> RoutineRows]
      /\ history \in [turns : [RunIds -> Nat], tried : [RunIds -> Nat], since : [Routines -> Nat]]
      /\ DOMAIN run \subseteq DOMAIN run'
    BY RowTypes, OfRunsStep DEF TypeOK
<1>1. /\ \A r \in Routines : /\ routine[r] \in RoutineRows /\ routine'[r] \in RoutineRows
                             /\ \A d \in routine[r].schedule : d \in Nat
                             /\ \A d \in routine'[r].schedule : d \in Nat
      /\ \A i \in DOMAIN run : /\ run'[i].routine = run[i].routine /\ run'[i].due >= run[i].due
                               /\ run[i].due \in Nat /\ run'[i].due \in Nat
    <2>1. RowsGo
        BY RowsStep
    <2>2. \A i \in DOMAIN run : run[i] \in RunRows /\ run'[i] \in RunRows
        <3> HIDE DEF RunRows, RoutineRows
        <3>1. run \in Seq(RunRows) /\ run' \in Seq(RunRows)
            BY <2>1 DEF RowsGo, TypeOK
        <3> QED BY <1>0, <3>1
    <2>3. \A i \in DOMAIN run : run[i].due \in Nat /\ run'[i].due \in Nat
        BY <2>2 DEF RunRows
    <2>4. \A i \in DOMAIN run : run'[i].routine = run[i].routine /\ run'[i].due >= run[i].due
        <3> HIDE DEF RunRows, RoutineRows
        <3> QED BY <1>0, <2>1 DEF RowsGo, RowGoes
    <2>5. \A r \in Routines : routine[r] \in RoutineRows /\ routine'[r] \in RoutineRows
        <3> HIDE DEF RunRows, RoutineRows
        <3> QED BY <1>0, <2>1 DEF RowsGo
    <2>6. \A r \in Routines : /\ \A d \in routine[r].schedule : d \in Nat
                              /\ \A d \in routine'[r].schedule : d \in Nat
        <3>1. \A schedule \in Schedules : \A d \in schedule : d \in Nat
            BY SchedulerAssumption
        <3>2. \A r \in Routines : routine[r].schedule \in Schedules /\ routine'[r].schedule \in Schedules
            BY <2>5 DEF RoutineRows
        <3> QED BY <3>1, <3>2
    <2> QED BY <2>3, <2>4, <2>5, <2>6
<1> DEFINE Stood(r) ==
               routine'[r].alive /\ ~routine'[r].paused =>
                   \A d \in routine'[r].schedule :
                       history'.since[r] < d /\ d < routine'[r].next =>
                           \E i \in DOMAIN run' : run'[i].routine = r /\ run'[i].due >= d
<1>2. SUFFICES ASSUME NEW r \in Routines PROVE Stood(r)
    BY DEF TimesStood, RunsOf
\* A routine whose times stay, or that is paused or deleted.
<1>3. ASSUME history'.since[r] = history.since[r],
             routine'[r].alive /\ ~routine'[r].paused =>
                 /\ routine[r].alive /\ ~routine[r].paused
                 /\ routine'[r].schedule = routine[r].schedule
                 /\ routine'[r].next = routine[r].next
      PROVE  Stood(r)
    <2> SUFFICES ASSUME routine'[r].alive /\ ~routine'[r].paused,
                        NEW d \in routine'[r].schedule,
                        history'.since[r] < d /\ d < routine'[r].next
                 PROVE  \E i \in DOMAIN run' : run'[i].routine = r /\ run'[i].due >= d
        OBVIOUS
    <2>1. PICK i \in RunsOf(r) : run[i].due >= d
        BY <1>3 DEF TimesStood
    <2>2. i \in DOMAIN run /\ run[i].routine = r /\ d \in Nat
        BY <1>1, <2>1 DEF RunsOf
    <2>3. run'[i].due >= d
        BY <1>1, <2>1, <2>2
    <2> QED BY <1>0, <1>1, <2>2, <2>3
\* One that is scheduled from now.
<1>4. ASSUME history'.since[r] = now,
             routine'[r].alive /\ ~routine'[r].paused =>
                 routine'[r].next = NextAfter(routine'[r].schedule, now)
      PROVE  Stood(r)
    <2>1. routine'[r].schedule \in Schedules
        BY <1>1 DEF RoutineRows
    <2>2. \A d \in routine'[r].schedule :
              d \in Nat /\ (d < NextAfter(routine'[r].schedule, now) => d =< now)
        BY <1>0, <2>1, DueTimes
    <2>3. \A d \in Nat : ~(now < d /\ d =< now)
        BY <1>0
    <2> QED BY <1>4, <2>2, <2>3
<1>5. ASSUME history' = history, routine'[r] = routine[r] PROVE Stood(r)
    BY <1>3, <1>5
<1>6. ASSUME history'.since = history.since, NEW which \in SUBSET DOMAIN run,
             NEW only \in SUBSET {"waiting", "running"},
             NEW state \in {"succeeded", "failed", "missed", "skipped", "interrupted"},
             EndRuns(which, only, state)
      PROVE  Stood(r)
    <2>1. EndsRuns(which, only, state)
        BY <1>6, EndRunsShape DEF Ended
    <2>2. /\ routine'[r].alive = routine[r].alive /\ routine'[r].schedule = routine[r].schedule
          /\ \/ routine'[r].paused
             \/ routine'[r].paused = routine[r].paused /\ routine'[r].next = routine[r].next
        BY <2>1 DEF EndsRuns
    <2> HIDE DEF Stood
    <2> QED BY <1>3, <1>6, <2>2
<1> HIDE DEF Stood
<1>7. ASSUME NEW q \in Routines, FallDue(q) PROVE Stood(r)
    <2> DEFINE row == routine[q]
               latest == LatestUpTo(row.schedule, pass.time)
               due == IF latest >= row.next THEN latest ELSE row.next
               new == [row EXCEPT !.next = NextAfter(row.schedule, pass.time)]
    <2>0. history' = history
        BY <1>7 DEF FallDue
    <2>1. CASE ~(row.alive /\ ~row.paused /\ row.next =< pass.time)
        <3>1. routine' = routine
            BY <1>7, <2>1 DEF FallDue
        <3> QED BY <1>5, <2>0, <3>1
    <2>2. CASE row.alive /\ ~row.paused /\ row.next =< pass.time
        <3>1. Queue(q, new, "schedule", due, pass.time)
            BY <1>7, <2>2 DEF FallDue
        <3>2. row \in RoutineRows /\ pass.time \in Nat /\ row.schedule \in Schedules
            BY <1>1 DEF TypeOK, RoutineRows
        <3>3. latest \in Nat /\ NextAfter(row.schedule, pass.time) \in Nat /\ row.next \in Nat
            BY <3>2, DueTimes DEF RoutineRows
        <3>4. due \in Nat /\ latest =< due
            BY <3>3
        <3>5. /\ new \in RoutineRows /\ new.schedule = row.schedule
              /\ new.next = NextAfter(row.schedule, pass.time)
            BY <3>2, <3>3 DEF RoutineRows
        <3>6. QueuesRun(q, new, "schedule", due)
            <4> HIDE DEF due, new, row, RoutineRows
            <4> QED BY <3>1, <3>2, <3>4, <3>5, QueueShape
        <3>7. CASE r # q
            <4>1. routine'[r] = routine[r]
                BY <3>6, <3>7 DEF QueuesRun
            <4> QED BY <1>5, <2>0, <4>1
        <3>8. CASE r = q
            <4>1. routine'[r] = new
                <5> HIDE DEF new, RoutineRows
                <5> QED BY <1>0, <3>6, <3>8 DEF QueuesRun
            <4>2. \A d \in row.schedule : /\ d \in Nat
                                          /\ d < new.next => d =< latest
                <5> HIDE DEF latest
                <5>1. \A d \in row.schedule :
                          /\ d < NextAfter(row.schedule, pass.time) => d =< pass.time
                          /\ d =< pass.time => d =< latest
                    BY <3>2, DueTimes DEF latest
                <5> QED BY <1>1, <3>5, <5>1
            <4>3. PICK i \in 1..Len(run') : run'[i].routine = r /\ run'[i].due >= due
                BY <3>6, <3>8 DEF QueuesRun
            <4>4. DOMAIN run' = 1..Len(run') /\ run'[i].due \in Nat
                <5>1. run' \in Seq(RunRows)
                    BY <3>6 DEF QueuesRun
                <5>2. DOMAIN run' = 1..Len(run') /\ run'[i] \in RunRows
                    <6> HIDE DEF RunRows
                    <6> QED BY <4>3, <5>1
                <5> QED BY <5>2 DEF RunRows
            <4>5. \A d \in row.schedule : d < new.next => run'[i].due >= d
                <5> HIDE DEF latest, due, new
                <5> QED BY <3>3, <3>4, <4>2, <4>3, <4>4
            <4> HIDE DEF new, due, latest
            <4> QED BY <3>5, <3>8, <4>1, <4>3, <4>4, <4>5 DEF Stood
        <3> QED BY <3>7, <3>8
    <2> QED BY <2>1, <2>2
<1>8. ASSUME NEW q \in Routines, RunNow(q) PROVE Stood(r)
    <2>1. Queue(q, routine[q], "manual", now, now) /\ history' = history
        BY <1>8 DEF RunNow
    <2>2. routine' = [routine EXCEPT ![q] = routine[q]]
        BY <2>1 DEF Queue
    <2> QED BY <1>0, <1>5, <2>1, <2>2
<1>9. ASSUME NEW rs, history' = Since(rs)
      PROVE  history'.since[r] = IF r \in rs THEN now ELSE history.since[r]
    BY <1>0, <1>9 DEF Since
<1>10. ASSUME NEW q \in Routines, history' = Since({q}),
              \E row : /\ routine' = [routine EXCEPT ![q] = row]
                       /\ row.alive /\ ~row.paused => row.next = NextAfter(row.schedule, now)
       PROVE  Stood(r)
    <2>1. CASE r = q
        BY <1>0, <1>4, <1>9, <1>10, <2>1
    <2>2. CASE r # q
        <3>1. routine'[r] = routine[r] /\ history'.since[r] = history.since[r]
            BY <1>9, <1>10, <2>2
        <3> QED BY <1>3, <3>1
    <2> QED BY <2>1, <2>2
<1>11. \A row \in RoutineRows, schedule \in Schedules :
           LET new == FromNow(row, schedule)
           IN  new.alive /\ ~new.paused => new.next = NextAfter(new.schedule, now)
    BY DEF FromNow, RoutineRows
<1>12. ASSUME NEW q \in Routines, Create(q) PROVE Stood(r)
    <2>1. PICK schedule \in Schedules, paused \in BOOLEAN :
              routine' = [routine EXCEPT ![q] = NewRoutine(schedule, paused, now)]
        BY <1>12 DEF Create
    <2> DEFINE row == NewRoutine(schedule, paused, now)
    <2>2. row.alive /\ ~row.paused => row.next = NextAfter(row.schedule, now)
        BY DEF NewRoutine
    <2>3. history' = Since({q})
        BY <1>12 DEF Create
    <2> HIDE DEF row
    <2> QED BY <1>10, <2>1, <2>2, <2>3 DEF row
<1>13. ASSUME NEW q \in Routines, Resume(q) PROVE Stood(r)
    <2> DEFINE old == [routine[q] EXCEPT !.paused = FALSE, !.failures = 0]
               row == FromNow(old, routine[q].schedule)
    <2>1. old \in RoutineRows /\ routine[q].schedule \in Schedules
        BY <1>1 DEF RoutineRows
    <2>2. routine' = [routine EXCEPT ![q] = row] /\ history' = Since({q})
        BY <1>13 DEF Resume
    <2>3. row.alive /\ ~row.paused => row.next = NextAfter(row.schedule, now)
        <3> HIDE DEF old, RoutineRows
        <3> QED BY <1>11, <2>1
    <2> HIDE DEF row
    <2> QED BY <1>10, <2>2, <2>3
<1>14. ASSUME NEW q \in Routines, Reschedule(q) PROVE Stood(r)
    <2>1. PICK schedule \in Schedules : routine' = [routine EXCEPT ![q] = FromNow(routine[q], schedule)]
        BY <1>14 DEF Reschedule
    <2> DEFINE row == FromNow(routine[q], schedule)
    <2>2. history' = Since({q})
        BY <1>14 DEF Reschedule
    <2>3. row.alive /\ ~row.paused => row.next = NextAfter(row.schedule, now)
        <3> HIDE DEF RoutineRows
        <3> QED BY <1>1, <1>11
    <2> HIDE DEF row
    <2> QED BY <1>10, <2>1, <2>2, <2>3 DEF row
<1>15. CASE SetTimeZone
    <2>1. history'.since[r] = now
        BY <1>9, <1>15 DEF SetTimeZone
    <2>2. CASE routine[r].alive /\ ~routine[r].paused
        <3>1. routine'[r] = FromNow(routine[r], OtherZone[routine[r].schedule])
            BY <1>15, <2>2 DEF SetTimeZone
        <3>2. OtherZone[routine[r].schedule] \in Schedules
            BY <1>1, SchedulerAssumption DEF RoutineRows
        <3> HIDE DEF RoutineRows
        <3> QED BY <1>1, <1>4, <1>11, <2>1, <3>1, <3>2
    <2>3. CASE ~(routine[r].alive /\ ~routine[r].paused)
        <3>1. routine'[r] = routine[r]
            BY <1>15, <2>3 DEF SetTimeZone
        <3> QED BY <1>4, <2>1, <2>3, <3>1
    <2> QED BY <2>2, <2>3
<1>16. ASSUME NEW q \in Routines, Delete(q) \/ Pause(q) PROVE Stood(r)
    <2>1. /\ history' = history
          /\ \/ routine' = routine /\ ~routine[q].alive
             \/ routine' = [routine EXCEPT ![q].alive = FALSE]
             \/ routine' = [routine EXCEPT ![q].paused = TRUE, ![q].next = Never]
        BY <1>16 DEF Delete, Pause
    <2>2. CASE r # q \/ routine' = routine
        <3>1. routine'[r] = routine[r]
            <4> HIDE DEF RoutineRows
            <4> QED BY <1>0, <2>1, <2>2
        <3> QED BY <1>5, <2>1, <3>1
    <2>3. CASE r = q /\ routine' # routine
        <3>1. ~routine'[r].alive \/ routine'[r].paused
            BY <1>0, <1>1, <2>1, <2>3 DEF RoutineRows
        <3> QED BY <1>3, <2>1, <3>1
    <2> QED BY <2>2, <2>3
<1>17. CASE TurnEndRecorded
    <2>1. CASE router = UserTurn
        BY <1>5, <1>17, <2>1 DEF TurnEndRecorded
    <2>2. CASE router # UserTurn
        <3>1. {router} \in SUBSET DOMAIN run
            BY <1>17, <2>2 DEF TurnEndRecorded, OfRuns
        <3>2. StateOf(run[router].turn) \in
                  {"succeeded", "failed", "missed", "skipped", "interrupted"}
            BY DEF StateOf
        <3> QED BY <1>6, <1>17, <2>2, <3>1, <3>2 DEF TurnEndRecorded
    <2> QED BY <2>1, <2>2
<1>18. CASE AppServerStops \/ Restart
    <2>1. EndRuns(DOMAIN run, {"running"}, "failed")
        BY <1>18 DEF AppServerStops, Restart
    <2>2. history'.since = history.since
        BY <1>0, <1>18 DEF AppServerStops, Restart
    <2> QED BY <1>6, <2>1, <2>2
<1>19. ASSUME NEW i \in RunIds, TaskStep(i) PROVE Stood(r)
    <2>1. history'.since = history.since
        BY <1>0, <1>19 DEF TaskStep, Attempt, StartFails, TurnBegins, MarkRunning, StartFailed,
                           EnforceDeadline, LetRunGo, AskEnds
    <2>2. routine' = routine \/ \E only \in SUBSET {"waiting", "running"},
              state \in {"succeeded", "failed", "missed", "skipped", "interrupted"} :
                  EndRuns({i}, only, state)
        BY <1>19 DEF TaskStep, Attempt, StartFails, TurnBegins, MarkRunning, StartFailed, NotStarted,
                     EnforceDeadline, LetRunGo, AskEnds, WaitsFor, StateOf, rows
    <2>3. CASE routine' = routine
        BY <1>3, <2>1, <2>3
    <2>4. CASE routine' # routine
        <3>1. i \in DOMAIN run
            BY <1>19, <2>4 DEF OfRuns, TaskStep, Attempt, StartFails, TurnBegins, MarkRunning,
                     StartFailed, EnforceDeadline, LetRunGo, AskEnds, At, rows
        <3> QED BY <1>6, <2>1, <2>2, <2>4, <3>1
    <2> QED BY <2>3, <2>4
<1>20. ASSUME \/ \E cause \in {"tick", "wake", "idle"} : BeginPass(cause)
              \/ SpawnTasks \/ \E idled \in looks : LookAgain(idled)
              \/ \E q \in Routines : AskPause(q)
              \/ MessageArrives \/ MessageDone \/ TurnEnds
              \/ AccountChanges \/ Clock \/ UNCHANGED vars
       PROVE  Stood(r)
    <2>1. UNCHANGED <<routine, history>>
        BY <1>20 DEF BeginPass, SpawnTasks, LookAgain, AskPause, MessageArrives, MessageDone,
                     TurnEnds, AccountChanges, Clock, vars, rows
    <2> QED BY <1>5, <2>1
<1> QED BY <1>7, <1>8, <1>12, <1>13, <1>14, <1>15, <1>16, <1>17, <1>18, <1>19, <1>20
        DEF Next, PassStep, OwnerStep

-----------------------------------------------------------------------------

\* A run comes to wait for the Bot only by an attempt to start it.
LEMMA WaitsStep ==
    ASSUME TypeOK, OfRuns, [Next]_vars, NEW i \in DOMAIN run, run'[i].waitingFor = "bot"
    PROVE  run[i].waitingFor = "bot" \/ (i \in RunIds /\ Attempt(i) /\ task'[i].step = "waits")
<1>0. /\ DOMAIN run = 1..Len(run) /\ now \in Nat /\ bot \in BotRows
      /\ routine \in [Routines -> RoutineRows] /\ run[i] \in RunRows
      /\ DOMAIN run \subseteq RunIds /\ task \in [RunIds -> TaskRows]
    BY RowTypes, OfRunsStep DEF TypeOK
<1>1. ASSUME run'[i] = run[i] PROVE run[i].waitingFor = "bot"
    BY <1>1
<1>2. ASSUME NEW which \in SUBSET DOMAIN run, NEW only \in SUBSET {"waiting", "running"},
             NEW state \in {"succeeded", "failed", "missed", "skipped", "interrupted"},
             EndRuns(which, only, state)
      PROVE  run[i].waitingFor = "bot"
    <2>1. EndsRuns(which, only, state)
        BY <1>2, EndRunsShape DEF Ended
    <2>2. \/ run'[i] = run[i]
          \/ run'[i] = [run[i] EXCEPT !.state = state, !.waitingFor = "nothing"]
        BY <1>0, <2>1 DEF EndsRuns
    <2>3. run'[i] # [run[i] EXCEPT !.state = state, !.waitingFor = "nothing"]
        <3>1. [run[i] EXCEPT !.state = state, !.waitingFor = "nothing"].waitingFor = "nothing"
            BY <1>0 DEF RunRows
        <3> QED BY <3>1
    <2> QED BY <1>1, <2>2, <2>3
<1>3. ASSUME NEW r \in Routines, NEW row \in RoutineRows, NEW trigger \in {"schedule", "manual"},
             NEW due \in Nat, NEW time \in Nat, Queue(r, row, trigger, due, time)
      PROVE  run[i].waitingFor = "bot"
    <2>1. QueuesRun(r, row, trigger, due)
        <3> HIDE DEF RoutineRows
        <3> QED BY <1>3, QueueShape
    <2>2. run'[i] = run[i] \/ run'[i] = [run[i] EXCEPT !.due = due]
        BY <1>0, <2>1 DEF QueuesRun
    <2> QED BY <1>0, <2>2 DEF RunRows
<1>4. ASSUME NEW j \in RunIds, TaskStep(j)
      PROVE  run[i].waitingFor = "bot" \/ (Attempt(i) /\ task'[i].step = "waits")
    <2>1. CASE AskEnds(j)
        BY <1>1, <2>1 DEF AskEnds, rows
    <2>2. CASE ~AskEnds(j)
        <3>1. j \in DOMAIN run
            BY <1>4, <2>2 DEF OfRuns, TaskStep, Attempt, StartFails, TurnBegins, MarkRunning,
                     StartFailed, EnforceDeadline, LetRunGo, At
        <3>2. \/ run' = run
              \/ \E only \in SUBSET {"waiting", "running"},
                    state \in {"succeeded", "failed", "missed", "skipped", "interrupted"} :
                        EndRuns({j}, only, state)
              \/ Attempt(j) /\ WaitsFor(j, "bot") /\ task'[j].step = "waits"
              \/ WaitsFor(j, "signIn")
              \/ run' = [run EXCEPT ![j].turn = "going"]
              \/ run' = [run EXCEPT ![j].state = "running", ![j].started = now,
                                    ![j].waitingFor = "nothing"]
              \/ run' = [run EXCEPT ![j].asked = task[j].time]
            BY SMTT(30), <1>0, <1>4, <2>2 DEF TaskStep, Attempt, StartFails, TurnBegins, MarkRunning,
                     StartFailed, NotStarted, EnforceDeadline, LetRunGo, StateOf, rows
        <3>3. CASE run' = run
            BY <1>1, <3>3
        <3>4. CASE i # j /\ (WaitsFor(j, "bot") \/ WaitsFor(j, "signIn"))
            <4>1. run'[i] = run[i]
                BY <3>4 DEF WaitsFor
            <4> QED BY <1>1, <4>1
        <3>5. CASE i = j /\ WaitsFor(j, "signIn")
            <4>1. CASE run[i].state = "waiting"
                <5>1. run' = [run EXCEPT ![i].waitingFor = "signIn"]
                    BY <3>5, <4>1 DEF WaitsFor
                <5>2. run'[i].waitingFor = "signIn"
                    BY <1>0, <5>1 DEF RunRows
                <5> QED BY <5>2
            <4>2. CASE run[i].state # "waiting"
                BY <1>1, <3>5, <4>2 DEF WaitsFor
            <4> QED BY <4>1, <4>2
        <3>6. CASE run' = [run EXCEPT ![j].turn = "going"]
            BY <1>0, <3>6 DEF RunRows
        <3>7. CASE run' = [run EXCEPT ![j].state = "running", ![j].started = now,
                                      ![j].waitingFor = "nothing"]
            <4>1. i # j
                BY <1>0, <3>7 DEF RunRows
            <4> QED BY <1>1, <3>7, <4>1
        <3>8. CASE run' = [run EXCEPT ![j].asked = task[j].time]
            BY <1>0, <3>8 DEF RunRows
        <3>9. ASSUME NEW only \in SUBSET {"waiting", "running"},
                     NEW state \in {"succeeded", "failed", "missed", "skipped", "interrupted"},
                     EndRuns({j}, only, state)
              PROVE  run[i].waitingFor = "bot"
            <4>1. {j} \in SUBSET DOMAIN run
                BY <3>1
            <4> QED BY <1>2, <3>9, <4>1
        <3>10. CASE Attempt(j) /\ WaitsFor(j, "bot") /\ task'[j].step = "waits"
            BY <3>4, <3>10
        <3>11. CASE WaitsFor(j, "signIn")
            BY <3>4, <3>5, <3>11
        <3> QED BY <3>2, <3>3, <3>6, <3>7, <3>8, <3>9, <3>10, <3>11
    <2> QED BY <2>1, <2>2
<1>5. ASSUME NEW r \in Routines, FallDue(r) PROVE run[i].waitingFor = "bot"
    <2> DEFINE row == routine[r]
               latest == LatestUpTo(row.schedule, pass.time)
               due == IF latest >= row.next THEN latest ELSE row.next
               new == [row EXCEPT !.next = NextAfter(row.schedule, pass.time)]
    <2>1. run' = run \/ Queue(r, new, "schedule", due, pass.time)
        BY <1>5 DEF FallDue
    <2>2. row \in RoutineRows /\ pass.time \in Nat
        <3> HIDE DEF RoutineRows
        <3> QED BY <1>0 DEF TypeOK
    <2>3. latest \in Nat /\ NextAfter(row.schedule, pass.time) \in Nat /\ row.next \in Nat
        BY <2>2, DueTimes DEF RoutineRows
    <2>4. due \in Nat /\ new \in RoutineRows
        BY <2>2, <2>3 DEF RoutineRows
    <2> HIDE DEF due, new, RoutineRows
    <2> QED BY <1>1, <1>3, <2>1, <2>2, <2>4
<1>6. ASSUME NEW r \in Routines, RunNow(r) PROVE run[i].waitingFor = "bot"
    <2>1. Queue(r, routine[r], "manual", now, now) /\ routine[r] \in RoutineRows
        <3> HIDE DEF RoutineRows
        <3> QED BY <1>0, <1>6 DEF RunNow
    <2> QED BY <1>0, <1>3, <2>1
<1>7. ASSUME NEW r \in Routines, Delete(r) \/ Pause(r) PROVE run[i].waitingFor = "bot"
    <2>1. run' = run \/ \E state : \/ run'[i] = run[i]
                                   \/ run'[i] = [run[i] EXCEPT !.state = state, !.waitingFor = "nothing"]
        BY <1>7 DEF Delete, Pause
    <2>2. \A state : [run[i] EXCEPT !.state = state, !.waitingFor = "nothing"].waitingFor = "nothing"
        BY <1>0 DEF RunRows
    <2>3. run'[i] = run[i]
        BY <2>1, <2>2
    <2> QED BY <1>1, <2>3
<1>8. CASE TurnEnds
    <2>1. run' = run \/ \E ending : run' = [run EXCEPT ![bot.turn].turn = ending]
        BY <1>8 DEF TurnEnds
    <2>2. run'[i] = run[i] \/ \E ending : run'[i] = [run[i] EXCEPT !.turn = ending]
        BY <2>1
    <2> QED BY <1>0, <2>2 DEF RunRows
<1>9. CASE TurnEndRecorded
    <2>1. CASE router = UserTurn
        BY <1>1, <1>9, <2>1 DEF TurnEndRecorded
    <2>2. CASE router # UserTurn
        <3>1. {router} \in SUBSET DOMAIN run
            BY <1>9, <2>2 DEF TurnEndRecorded, OfRuns
        <3>2. StateOf(run[router].turn) \in
                  {"succeeded", "failed", "missed", "skipped", "interrupted"}
            BY DEF StateOf
        <3> QED BY <1>2, <1>9, <2>2, <3>1, <3>2 DEF TurnEndRecorded
    <2> QED BY <2>1, <2>2
<1>10. CASE AppServerStops \/ Restart
    <2>1. EndRuns(DOMAIN run, {"running"}, "failed")
        BY <1>10 DEF AppServerStops, Restart
    <2> QED BY <1>2, <2>1
<1>11. ASSUME \/ \E cause \in {"tick", "wake", "idle"} : BeginPass(cause)
              \/ SpawnTasks \/ \E idled \in looks : LookAgain(idled)
              \/ \E r \in Routines : AskPause(r) \/ Create(r) \/ Resume(r) \/ Reschedule(r)
              \/ MessageArrives \/ MessageDone \/ SetTimeZone
              \/ AccountChanges \/ Clock \/ UNCHANGED vars
       PROVE  run[i].waitingFor = "bot"
    <2>1. run' = run
        BY <1>11 DEF BeginPass, SpawnTasks, LookAgain, AskPause, Create, Resume, Reschedule,
              MessageArrives, MessageDone, SetTimeZone, AccountChanges, Clock, vars, rows
    <2> QED BY <1>1, <2>1
<1> QED BY <1>0, <1>4, <1>5, <1>6, <1>7, <1>8, <1>9, <1>10, <1>11 DEF Next, PassStep, OwnerStep

\* No step leaves a run waiting for the Bot with nothing under way that will
\* try it: the Bot turns idle with a permit left for the scheduler, and a task
\* lets its run go only to compare.
LEMMA WokenStep ==
    ASSUME TypeOK, OfRuns, OneActive, TasksHold, AllWoken, [Next]_vars
    PROVE  AllWoken'
<1>0. /\ DOMAIN run = 1..Len(run) /\ bot \in BotRows /\ task \in [RunIds -> TaskRows]
      /\ history \in [turns : [RunIds -> Nat], tried : [RunIds -> Nat], since : [Routines -> Nat]]
      /\ wakes \in [wake : BOOLEAN, idle : BOOLEAN]
      /\ pass \in [at : {"rest", "queue"}, time : Nat, due : SUBSET Routines]
      /\ DOMAIN run \subseteq RunIds
    BY RowTypes, OfRunsStep DEF TypeOK
<1> DEFINE NowWoken(i) ==
               \/ history'.tried[i] = bot'.idled
               \/ wakes'.wake \/ wakes'.idle
               \/ pass'.at = "queue"
               \/ task'[i].step \in Steps
               \/ task'[i].step = "waits" /\ task'[i].idled # bot'.idled
               \/ \E idled \in looks' : idled # bot'.idled
<1>1. SUFFICES ASSUME NEW i \in DOMAIN run, run'[i].state = "waiting",
                      run'[i].waitingFor = "bot"
               PROVE  NowWoken(i)
    <2>1. /\ RowsGo /\ OneActive'
        BY RowsStep, OneActiveStep
    <2>2. /\ Len(run') \in {Len(run), Len(run) + 1} /\ DOMAIN run' = 1..Len(run')
          /\ Len(run') = Len(run) + 1 => run'[Len(run')].waitingFor = "nothing"
          /\ Len(run) \in Nat
        <3> HIDE DEF RunRows, RoutineRows
        <3> QED BY <2>1, RowTypes DEF RowsGo
    <2>3. \A i \in DOMAIN run' : \/ i \in DOMAIN run
                                 \/ i = Len(run') /\ Len(run') = Len(run) + 1
        BY <1>0, <2>2, OneMore
    <2>4. \A i \in Active' : i \in DOMAIN run'
        BY DEF Active
    <2>5. \A i \in DOMAIN run' : run'[i].state # "waiting" => run'[i].waitingFor = "nothing"
        BY SMTT(30), <2>1 DEF OneActive
    <2>6. \A i \in Active' : run'[i].waitingFor = "bot" =>
              i \in DOMAIN run /\ run'[i].state = "waiting"
        BY <2>2, <2>3, <2>4, <2>5
    <2>7. \A i \in Active' : run'[i].waitingFor = "bot" => NowWoken(i)
        <3> HIDE DEF NowWoken
        <3> QED BY <1>1, <2>6
    <2> QED BY <2>7 DEF AllWoken, Woken
<1>2. run[i].state = "waiting" /\ i \in Active /\ i \in RunIds
    <2>1. RowsGo
        BY RowsStep
    <2>2. run[i].state = "waiting"
        <3> HIDE DEF RunRows, RoutineRows
        <3> QED BY <1>0, <1>1, <2>1 DEF RowsGo, RowGoes
    <2> QED BY <1>0, <2>2 DEF Active
<1>3. routine[run[i].routine].alive /\ Holds(i)
    BY <1>2 DEF OneActive, TasksHold
<1>4. CASE Attempt(i) /\ task'[i].step = "waits"
    <2>1. history' = [history EXCEPT !.tried[i] = bot.idled] /\ bot' = bot
        BY <1>4 DEF Attempt
    <2>2. history'.tried[i] = bot'.idled
        BY <1>0, <1>2, <2>1
    <2> QED BY <2>2
<1>5. CASE ~(Attempt(i) /\ task'[i].step = "waits")
    <2>1. Woken(i)
        BY <1>1, <1>2, <1>5, WaitsStep DEF AllWoken
    <2>2. ASSUME bot'.idled = bot.idled, wakes' = wakes, pass' = pass, task'[i] = task[i],
                 history'.tried[i] = history.tried[i], looks \subseteq looks'
          PROVE  NowWoken(i)
        BY <2>1, <2>2 DEF Woken
    <2>3. ASSUME wakes'.wake \/ wakes'.idle PROVE NowWoken(i)
        BY <2>3
    <2> HIDE DEF NowWoken
    <2>4. \A lock : [bot EXCEPT !.lock = lock].idled = bot.idled
        BY <1>0 DEF BotRows
    <2>5. ASSUME NEW b, TurnedIdle(b) PROVE NowWoken(i)
        <3>1. wakes'.idle
            BY <1>0, <2>5 DEF TurnedIdle
        <3> QED BY <2>3, <3>1
    <2>6. ASSUME LetLockGo, pass' = pass, task'[i] = task[i], history' = history, looks' = looks
          PROVE  NowWoken(i)
        BY <2>2, <2>4, <2>5, <2>6 DEF LetLockGo
    <2>7. ASSUME NEW j \in RunIds, TaskStep(j) PROVE NowWoken(i)
        <3>1. CASE AskEnds(j)
            <4>1. wakes'.wake
                BY <1>0, <3>1 DEF AskEnds
            <4> QED BY <2>3, <4>1
        <3>2. CASE ~AskEnds(j) /\ j # i
            <4>1. task'[i] = task[i] /\ history'.tried[i] = history.tried[i]
                <5>1. \/ \E step : Goes(j, step)
                      \/ LetsGo(j)
                      \/ task' = [task EXCEPT ![j] = [step |-> "waits", idled |-> bot.idled]]
                    BY <2>7, <3>2 DEF TaskStep, Attempt, StartFails, TurnBegins, MarkRunning,
                         StartFailed, EnforceDeadline, LetRunGo, NotStarted
                <5>2. task'[i] = task[i]
                    BY <1>0, <1>2, <3>2, <5>1 DEF Goes, LetsGo
                <5>3. \/ history' = history
                      \/ history' = [history EXCEPT !.turns[j] = @ + 1]
                      \/ \E n : history' = [history EXCEPT !.tried[j] = n]
                    BY <2>7, <3>2 DEF TaskStep, Attempt, StartFails, TurnBegins, MarkRunning,
                         StartFailed, EnforceDeadline, LetRunGo
                <5>4. history'.tried[i] = history.tried[i]
                    <6>1. history'.tried = history.tried
                          \/ \E n : history'.tried = [history.tried EXCEPT ![j] = n]
                        BY <1>0, <5>3
                    <6>2. history.tried \in [RunIds -> Nat]
                        BY <1>0
                    <6> QED BY <1>2, <3>2, <6>1, <6>2
                <5> QED BY <5>2, <5>4
            <4>2. bot'.idled = bot.idled
                BY <1>0, <2>4, <2>7, <3>2 DEF TaskStep, Attempt, StartFails, TurnBegins, MarkRunning,
                     StartFailed, EnforceDeadline, LetRunGo, BotRows
            <4>3. wakes' = wakes /\ pass' = pass /\ looks \subseteq looks'
                BY <2>7, <3>2 DEF TaskStep, Attempt, StartFails, TurnBegins, MarkRunning,
                     StartFailed, EnforceDeadline, LetRunGo
            <4> QED BY <2>2, <4>1, <4>2, <4>3
        <3>3. CASE ~AskEnds(j) /\ j = i
            <4>1. ASSUME NEW only \in SUBSET {"waiting", "running"}, "waiting" \in only,
                         NEW state \in {"succeeded", "failed", "missed", "skipped", "interrupted"}
                  PROVE  ~EndRuns({i}, only, state)
                <5> SUFFICES ASSUME EndRuns({i}, only, state) PROVE FALSE
                    OBVIOUS
                <5>1. EndsRuns({i}, only, state)
                    BY <4>1, EndRunsShape DEF Ended
                <5>2. run'[i] = [run[i] EXCEPT !.state = state, !.waitingFor = "nothing"]
                    <6>1. run[i].state \in only /\ i \in 1..Len(run)
                        BY <1>0, <1>2, <4>1
                    <6> HIDE DEF RunRows, RoutineRows
                    <6> QED BY <5>1, <6>1 DEF EndsRuns
                <5>3. run[i] \in RunRows
                    BY <1>0, RowTypes
                <5> QED BY <1>1, <5>2, <5>3 DEF RunRows
            <4>2. ~WaitsFor(i, "signIn")
                <5> SUFFICES ASSUME WaitsFor(i, "signIn") PROVE FALSE
                    OBVIOUS
                <5>1. run' = [run EXCEPT ![i].waitingFor = "signIn"]
                    BY <1>2 DEF WaitsFor
                <5>2. run[i] \in RunRows
                    BY <1>0, RowTypes
                <5> QED BY <1>1, <5>1, <5>2 DEF RunRows
            <4>3. ASSUME task'[i].step \in Steps PROVE NowWoken(i)
                BY <4>3 DEF NowWoken
            <4>4. CASE Attempt(i)
                <5>1. AttemptOutcome(i) # "gone"
                    BY <1>2, <1>3 DEF AttemptOutcome
                <5>2. ~NotStarted(i, "missed") /\ ~NotStarted(i, "skipped")
                    BY <4>1 DEF NotStarted
                <5>3. Goes(i, "starting")
                    <6>1. task' = [task EXCEPT ![i] = [step |-> "waits", idled |-> bot.idled]]
                              => task'[i].step = "waits"
                        BY <1>0, <1>2
                    <6> QED BY <1>5, <4>4, <5>1, <5>2, <6>1 DEF Attempt
                <5>4. task[i].step = "start"
                    BY <4>4 DEF Attempt, At
                <5>5. task'[i].step = "starting"
                    BY <1>0, <1>2, <5>3, <5>4 DEF Goes, TaskRows
                <5> QED BY <4>3, <5>5 DEF Steps
            <4>5. CASE StartFails(i) \/ TurnBegins(i)
                <5>1. task[i].step = "starting"
                    BY <4>5 DEF StartFails, TurnBegins, At
                <5>2. task'[i].step \in Steps
                    BY <1>0, <1>2, <4>5, <5>1 DEF StartFails, TurnBegins, Goes, TaskRows, Steps
                <5> QED BY <4>3, <5>2
            <4>6. ~MarkRunning(i)
                <5> SUFFICES ASSUME MarkRunning(i) PROVE FALSE
                    OBVIOUS
                <5>1. \/ EndRuns({i}, {"waiting"}, StateOf(run[i].turn))
                      \/ run' = [run EXCEPT ![i].state = "running", ![i].started = now,
                                            ![i].waitingFor = "nothing"]
                    BY <1>2 DEF MarkRunning
                <5>2. run' # [run EXCEPT ![i].state = "running", ![i].started = now,
                                         ![i].waitingFor = "nothing"]
                    <6>1. run[i] \in RunRows
                        BY <1>0, RowTypes
                    <6> QED BY <1>1, <6>1 DEF RunRows
                <5> QED BY <4>1, <5>1, <5>2 DEF StateOf
            <4>7. ~StartFailed(i)
                BY <4>1, <4>2 DEF StartFailed, NotStarted
            <4>8. ~EnforceDeadline(i)
                BY <1>2, <1>3 DEF EnforceDeadline, At, Holds
            <4>9. CASE LetRunGo(i)
                <5>1. history.tried[i] = task[i].idled
                    BY <1>3, <4>9 DEF LetRunGo, At, Holds
                <5>2. CASE task[i].idled = bot.idled
                    BY <4>9, <5>1, <5>2 DEF LetRunGo, NowWoken
                <5>3. CASE task[i].idled # bot.idled
                    BY <4>9, <5>3 DEF LetRunGo, NowWoken
                <5> QED BY <5>2, <5>3
            <4> QED BY <2>7, <3>3, <4>4, <4>5, <4>6, <4>7, <4>8, <4>9 DEF TaskStep
        <3> QED BY <3>1, <3>2, <3>3
    <2>8. ASSUME NEW idled \in looks, LookAgain(idled) PROVE NowWoken(i)
        <3>1. CASE bot.idled # idled
            <4>1. wakes'.wake
                BY <1>0, <2>8, <3>1 DEF LookAgain
            <4> QED BY <2>3, <4>1
        <3>2. CASE bot.idled = idled
            <4>1. UNCHANGED <<bot, wakes, pass, task, history>> /\ looks' = looks \ {idled}
                BY <2>8, <3>2 DEF LookAgain
            <4> QED BY <2>1, <3>2, <4>1 DEF Woken, NowWoken
        <3> QED BY <3>1, <3>2
    <2>9. CASE SpawnTasks
        <3> DEFINE ends == {j \in RunsIn("running") :
                               DeadlineAsks(run[j], run[j].asked, pass.time) # "nothing"}
                   inner == Spawned(task, RunsIn("waiting"), "start", pass.time)
        <3>1. i \in RunsIn("waiting") /\ i \notin ends
            BY <1>2 DEF RunsIn
        <3>2. inner[i] = task[i] \/ inner[i].step = "start"
            BY <1>2 DEF Spawned
        <3>3. task[i].step = "none" => inner[i].step = "start"
            BY <1>2, <3>1 DEF Spawned
        <3>4. task'[i] = inner[i]
            <4>1. task' = Spawned(inner, ends, "deadline", pass.time)
                BY <2>9 DEF SpawnTasks
            <4> HIDE DEF inner, ends
            <4> QED BY <1>2, <3>1, <4>1 DEF Spawned
        <3> HIDE DEF inner
        <3>5. history' = history /\ bot' = bot
            BY <2>9 DEF SpawnTasks
        <3>6. task[i].step \in {"none", "waits"} \cup Steps
            BY <1>0, <1>2 DEF TaskRows
        <3>7. CASE task'[i].step \in Steps
            BY <3>7 DEF NowWoken
        <3>8. CASE task'[i].step = "waits"
            <4>1. task'[i] = task[i]
                BY <3>2, <3>4, <3>8
            <4>2. history.tried[i] = task[i].idled
                BY <1>3, <3>8, <4>1 DEF Holds
            <4> QED BY <3>5, <3>8, <4>1, <4>2 DEF NowWoken
        <3> QED BY <3>2, <3>3, <3>4, <3>6, <3>7, <3>8 DEF Steps
    <2>10. ASSUME \/ \E cause \in {"tick", "wake", "idle"} : BeginPass(cause)
                  \/ \E r \in Routines : FallDue(r)
           PROVE  NowWoken(i)
        <3>1. pass'.at = "queue"
            <4>1. \/ \E t, due : pass' = [at |-> "queue", time |-> t, due |-> due]
                  \/ pass.at = "queue" /\ \E due : pass' = [pass EXCEPT !.due = due]
                BY <2>10 DEF BeginPass, FallDue
            <4> QED BY <1>0, <4>1
        <3> QED BY <3>1 DEF NowWoken
    <2>11. ASSUME NEW r \in Routines, RunNow(r) PROVE NowWoken(i)
        <3>1. task'[i] = task[i]
            BY <1>2, <2>11 DEF RunNow
        <3> QED BY <2>2, <2>11, <3>1 DEF RunNow
    <2>12. CASE MessageArrives \/ \E r \in Routines : AskPause(r)
        <3>1. bot'.idled = bot.idled
            BY <2>4, <2>12 DEF MessageArrives, AskPause
        <3> QED BY <2>2, <2>12, <3>1 DEF MessageArrives, AskPause
    <2>13. CASE MessageDone
        <3>1. CASE bot' = [bot EXCEPT !.lock = Free, !.turn = UserTurn] /\ UNCHANGED wakes
            <4>1. bot'.idled = bot.idled
                BY <1>0, <3>1 DEF BotRows
            <4> QED BY <2>2, <2>13, <3>1, <4>1 DEF MessageDone
        <3>2. CASE LetLockGo
            BY <2>6, <2>13, <3>2 DEF MessageDone
        <3> QED BY <2>13, <3>1, <3>2 DEF MessageDone
    <2>14. CASE \E r \in Routines : Pause(r)
        BY <2>6, <2>14 DEF Pause
    <2>15. CASE TurnEnds
        <3>1. bot'.idled = bot.idled
            BY <1>0, <2>15 DEF TurnEnds, BotRows
        <3> QED BY <2>2, <2>15, <3>1 DEF TurnEnds
    <2>16. CASE TurnEndRecorded \/ AppServerStops
        BY <2>5, <2>16 DEF TurnEndRecorded, AppServerStops
    <2>17. CASE SetTimeZone \/ \E r \in Routines : Create(r) \/ Resume(r) \/ Reschedule(r)
        <3>1. UNCHANGED <<bot, wakes, pass, task, looks>> /\ \E rs : history' = Since(rs)
            BY <2>17 DEF SetTimeZone, Create, Resume, Reschedule
        <3>2. history'.tried = history.tried
            BY <1>0, <3>1 DEF Since
        <3> QED BY SMTT(30), <2>2, <3>1, <3>2
    <2>18. CASE \/ \E r \in Routines : Delete(r)
                \/ AccountChanges \/ Clock \/ UNCHANGED vars
        BY <2>2, <2>18 DEF Delete, AccountChanges, Clock, vars
    <2>19. CASE Restart
        <3>1. history'.tried[i] = 0 /\ bot'.idled = 0
            BY <1>0, <1>2, <2>19 DEF Restart
        <3> QED BY <3>1 DEF NowWoken
    <2> QED BY <2>7, <2>8, <2>9, <2>10, <2>11, <2>12, <2>13, <2>14, <2>15, <2>16, <2>17, <2>18, <2>19
            DEF Next, PassStep, OwnerStep
<1> HIDE DEF NowWoken
<1> QED BY <1>4, <1>5

-----------------------------------------------------------------------------

\* Whoever ends a run counts it, and so a routine that stays unpaused has
\* failed too few times in a row.
LEMMA FailuresStep ==
    ASSUME TypeOK, OfRuns, PausedAfterFailures, [Next]_vars
    PROVE  PausedAfterFailures'
<1>0. /\ now \in Nat /\ routine \in [Routines -> RoutineRows]
      /\ \A r \in Routines : routine[r] \in RoutineRows
      /\ FailuresToPause \in Nat \ {0} /\ 0 < FailuresToPause
    BY RowTypes, SchedulerAssumption DEF TypeOK
<1>1. SUFFICES ASSUME NEW r \in Routines, routine'[r].alive, ~routine'[r].paused
               PROVE  routine'[r].failures < FailuresToPause
    BY DEF PausedAfterFailures
<1>2. ASSUME routine[r].alive, ~routine[r].paused, routine'[r].failures = routine[r].failures
      PROVE  routine'[r].failures < FailuresToPause
    BY <1>2 DEF PausedAfterFailures
<1>3. ASSUME routine'[r] = routine[r] PROVE routine'[r].failures < FailuresToPause
    BY <1>1, <1>2, <1>3
<1>4. ASSUME NEW which \in SUBSET DOMAIN run, NEW only \in SUBSET {"waiting", "running"},
             NEW state \in {"succeeded", "failed", "missed", "skipped", "interrupted"},
             EndRuns(which, only, state)
      PROVE  routine'[r].failures < FailuresToPause
    <2>1. EndsRuns(which, only, state)
        BY <1>4, EndRunsShape DEF Ended
    <2> QED BY <1>1, <1>3, <2>1 DEF EndsRuns
<1>5. ASSUME NEW q \in Routines, NEW row, routine' = [routine EXCEPT ![q] = row],
             row.alive /\ ~row.paused => row.failures < FailuresToPause
      PROVE  routine'[r].failures < FailuresToPause
    <2>1. CASE q = r
        <3>1. routine'[r] = row
            BY <1>0, <1>5, <2>1
        <3> QED BY <1>1, <1>5, <3>1
    <2>2. CASE q # r
        BY <1>3, <1>5, <2>2
    <2> QED BY <2>1, <2>2
<1>6. ASSUME NEW q \in Routines, FallDue(q) PROVE routine'[r].failures < FailuresToPause
    <2> DEFINE t == NextAfter(routine[q].schedule, pass.time)
               row == [routine[q] EXCEPT !.next = t]
    <2>1. \/ routine' = routine
          \/ /\ routine[q].alive /\ ~routine[q].paused
             /\ routine' = [routine EXCEPT ![q] = row]
        BY <1>6 DEF FallDue, Queue
    <2>2. row.failures = routine[q].failures
        <3> HIDE DEF t
        <3> QED BY <1>0 DEF RoutineRows
    <2>3. routine[q].alive /\ ~routine[q].paused => row.failures < FailuresToPause
        <3> HIDE DEF row
        <3> QED BY <2>2 DEF PausedAfterFailures
    <2> HIDE DEF row
    <2> QED BY <1>3, <1>5, <2>1, <2>3
<1>7. ASSUME NEW q \in Routines, RunNow(q) PROVE routine'[r].failures < FailuresToPause
    <2>1. routine' = [routine EXCEPT ![q] = routine[q]]
        BY <1>7 DEF RunNow, Queue
    <2> QED BY <1>0, <1>3, <2>1
<1>8. ASSUME NEW q \in Routines, Create(q) PROVE routine'[r].failures < FailuresToPause
    <2>1. PICK schedule \in Schedules, paused \in BOOLEAN :
              routine' = [routine EXCEPT ![q] = NewRoutine(schedule, paused, now)]
        BY <1>8 DEF Create
    <2>2. NewRoutine(schedule, paused, now).failures = 0
        BY DEF NewRoutine
    <2> QED BY <1>0, <1>5, <2>1, <2>2
<1>9. \A row \in RoutineRows : \A schedule :
          LET new == FromNow(row, schedule)
          IN  new.alive = row.alive /\ new.paused = row.paused /\ new.failures = row.failures
    BY DEF FromNow, RoutineRows
<1>10. ASSUME NEW q \in Routines, Resume(q) PROVE routine'[r].failures < FailuresToPause
    <2> DEFINE old == [routine[q] EXCEPT !.paused = FALSE, !.failures = 0]
               row == FromNow(old, routine[q].schedule)
    <2>1. old \in RoutineRows /\ old.failures = 0
        BY <1>0 DEF RoutineRows
    <2>2. row.failures = 0
        <3> HIDE DEF old, RoutineRows
        <3> QED BY <1>9, <2>1
    <2>3. routine' = [routine EXCEPT ![q] = row]
        BY <1>10 DEF Resume
    <2> HIDE DEF row
    <2> QED BY <1>0, <1>5, <2>2, <2>3
<1>11. ASSUME NEW q \in Routines, Reschedule(q) PROVE routine'[r].failures < FailuresToPause
    <2>1. PICK schedule \in Schedules : routine' = [routine EXCEPT ![q] = FromNow(routine[q], schedule)]
        BY <1>11 DEF Reschedule
    <2> DEFINE row == FromNow(routine[q], schedule)
    <2>2. /\ row.alive = routine[q].alive /\ row.paused = routine[q].paused
          /\ row.failures = routine[q].failures
        <3> HIDE DEF RoutineRows
        <3> QED BY <1>0, <1>9
    <2> HIDE DEF row
    <2>3. row.alive /\ ~row.paused => row.failures < FailuresToPause
        BY <2>2 DEF PausedAfterFailures
    <2> QED BY <1>5, <2>1, <2>3 DEF row
<1>12. CASE SetTimeZone
    <2> DEFINE row == FromNow(routine[r], OtherZone[routine[r].schedule])
    <2>1. routine'[r] = routine[r] \/ routine'[r] = row
        BY <1>12 DEF SetTimeZone
    <2>2. /\ row.alive = routine[r].alive /\ row.paused = routine[r].paused
          /\ row.failures = routine[r].failures
        <3> HIDE DEF RoutineRows
        <3> QED BY <1>0, <1>9
    <2> HIDE DEF row
    <2> QED BY <1>1, <1>2, <1>3, <2>1, <2>2
<1>13. ASSUME NEW q \in Routines, Delete(q) \/ Pause(q)
       PROVE  routine'[r].failures < FailuresToPause
    <2>0. \/ routine' = routine
          \/ routine' = [routine EXCEPT ![q].alive = FALSE]
          \/ routine' = [routine EXCEPT ![q].paused = TRUE, ![q].next = Never]
        BY <1>13 DEF Delete, Pause
    <2>1. r # q => routine'[r] = routine[r]
        <3> HIDE DEF RoutineRows
        <3> QED BY <1>0, <2>0
    <2>2. r = q => routine' = routine \/ ~routine'[r].alive \/ routine'[r].paused
        BY <1>0, <2>0 DEF RoutineRows
    <2> QED BY <1>1, <1>3, <2>1, <2>2
<1>14. CASE TurnEndRecorded
    <2>1. CASE router = UserTurn
        BY <1>3, <1>14, <2>1 DEF TurnEndRecorded
    <2>2. CASE router # UserTurn
        <3>1. {router} \in SUBSET DOMAIN run
            BY <1>14, <2>2 DEF TurnEndRecorded, OfRuns
        <3>2. StateOf(run[router].turn) \in
                  {"succeeded", "failed", "missed", "skipped", "interrupted"}
            BY DEF StateOf
        <3> QED BY <1>4, <1>14, <2>2, <3>1, <3>2 DEF TurnEndRecorded
    <2> QED BY <2>1, <2>2
<1>15. CASE AppServerStops \/ Restart
    <2>1. EndRuns(DOMAIN run, {"running"}, "failed")
        BY <1>15 DEF AppServerStops, Restart
    <2> QED BY <1>4, <2>1
<1>16. ASSUME NEW i \in RunIds, TaskStep(i) PROVE routine'[r].failures < FailuresToPause
    <2>1. routine' = routine \/ \E only \in SUBSET {"waiting", "running"},
              state \in {"succeeded", "failed", "missed", "skipped", "interrupted"} :
                  EndRuns({i}, only, state)
        BY <1>16 DEF TaskStep, Attempt, StartFails, TurnBegins, MarkRunning, StartFailed, NotStarted,
                     EnforceDeadline, LetRunGo, AskEnds, WaitsFor, StateOf, rows
    <2>2. CASE routine' = routine
        BY <1>3, <2>2
    <2>3. CASE routine' # routine
        <3>1. i \in DOMAIN run
            BY <1>16, <2>3 DEF OfRuns, TaskStep, Attempt, StartFails, TurnBegins, MarkRunning,
                     StartFailed, EnforceDeadline, LetRunGo, AskEnds, At, rows
        <3> QED BY <1>4, <2>1, <2>3, <3>1
    <2> QED BY <2>2, <2>3
<1>17. ASSUME \/ \E cause \in {"tick", "wake", "idle"} : BeginPass(cause)
              \/ SpawnTasks \/ \E idled \in looks : LookAgain(idled)
              \/ \E q \in Routines : AskPause(q)
              \/ MessageArrives \/ MessageDone \/ TurnEnds
              \/ AccountChanges \/ Clock \/ UNCHANGED vars
       PROVE  routine'[r].failures < FailuresToPause
    <2>1. routine' = routine
        BY <1>17 DEF BeginPass, SpawnTasks, LookAgain, AskPause, MessageArrives, MessageDone,
                     TurnEnds, AccountChanges, Clock, vars, rows
    <2> QED BY <1>3, <2>1
<1> QED BY <1>6, <1>7, <1>8, <1>10, <1>11, <1>12, <1>13, <1>14, <1>15, <1>16, <1>17
        DEF Next, PassStep, OwnerStep

-----------------------------------------------------------------------------

\* The invariant holds at first: nothing is queued, and no time has passed
\* that a routine was to run at.
LEMMA IInvInit ==
    ASSUME Init
    PROVE  IInv
<1>0. /\ FirstSchedule \in [Routines -> Schedules] /\ MaxTime \in Nat /\ MaxRuns \in Nat
      /\ FailuresToPause \in Nat \ {0} /\ 0 < FailuresToPause
      /\ \A schedule \in Schedules : schedule \subseteq 1..MaxTime
    BY SchedulerAssumption
<1>1. PICK created \in Created :
          routine = [r \in Routines |->
              [NewRoutine(FirstSchedule[r], FALSE, 0) EXCEPT !.alive = r \in created]]
    BY DEF Init
<1>2. ASSUME NEW r \in Routines
      PROVE  /\ routine[r] \in RoutineRows
             /\ routine[r].schedule = FirstSchedule[r] /\ routine[r].failures = 0
             /\ routine[r].next = NextAfter(FirstSchedule[r], 0)
    <2>1. FirstSchedule[r] \in Schedules /\ NextAfter(FirstSchedule[r], 0) \in Nat
        BY <1>0, DueTimes
    <2>2. (r \in created) \in BOOLEAN
        OBVIOUS
    <2>3. routine[r] = [alive |-> r \in created, paused |-> FALSE, failures |-> 0,
                        schedule |-> FirstSchedule[r], next |-> NextAfter(FirstSchedule[r], 0)]
        BY <1>1 DEF NewRoutine
    <2> QED BY <2>1, <2>2, <2>3 DEF RoutineRows
<1>3. run = <<>> /\ Len(run) = 0 /\ DOMAIN run = {} /\ run \in Seq(RunRows)
    <2>1. run = <<>>
        BY DEF Init
    <2> HIDE DEF RunRows
    <2> QED BY <2>1
<1>4. TypeOK
    <2>1. routine \in [Routines -> RoutineRows]
        <3> HIDE DEF RoutineRows
        <3> QED BY <1>1, <1>2
    <2>2. bot \in BotRows
        <3>1. Free \in Locks /\ None \in 0..UserTurn
            BY <1>0 DEF Free, Locks, None, UserTurn
        <3> QED BY <3>1 DEF Init, BotRows
    <2>3. task \in [RunIds -> TaskRows]
        BY DEF Init, TaskRows
    <2>4. /\ now \in Nat /\ account \in [disabled : BOOLEAN, signedIn : BOOLEAN]
          /\ wakes \in [wake : BOOLEAN, idle : BOOLEAN]
          /\ pass \in [at : {"rest", "queue"}, time : Nat, due : SUBSET Routines]
          /\ history \in [turns : [RunIds -> Nat], tried : [RunIds -> Nat],
                          since : [Routines -> Nat]]
        BY DEF Init
    <2> QED BY <1>3, <2>1, <2>2, <2>3, <2>4 DEF TypeOK
<1>5. OfRuns
    BY <1>0, <1>3 DEF Init, OfRuns
<1>6. Active = {}
    BY <1>3 DEF Active
<1>7. OneActive /\ TasksHold /\ AllWoken
    BY <1>3, <1>6 DEF OneActive, TasksHold, AllWoken
<1>8. TimesStood
    <2> SUFFICES ASSUME NEW r \in Routines, NEW d \in routine[r].schedule,
                        history.since[r] < d, d < routine[r].next
                 PROVE  FALSE
        BY DEF TimesStood
    <2>1. history.since[r] = 0
        BY DEF Init
    <2>2. routine[r].schedule \in Schedules /\ d \in 1..MaxTime
        BY <1>0, <1>2
    <2>3. d < NextAfter(routine[r].schedule, 0) => d =< 0
        BY <2>2, DueTimes
    <2>4. ~(d =< 0)
        BY <1>0, <2>2
    <2> QED BY <1>2, <2>3, <2>4
<1>9. PausedAfterFailures
    BY <1>0, <1>2 DEF PausedAfterFailures
<1> QED BY <1>4, <1>5, <1>7, <1>8, <1>9 DEF IInv

\* Every step keeps it.
LEMMA IInvStep ==
    ASSUME IInv, [Next]_vars
    PROVE  IInv'
<1>1. TypeOK /\ OfRuns /\ OneActive /\ TasksHold /\ TimesStood /\ AllWoken /\ PausedAfterFailures
    BY DEF IInv
<1>2. TypeOK'
    BY <1>1, TypeStep
<1>3. OfRuns'
    BY <1>1, OfRunsStep
<1>4. OneActive'
    BY <1>1, RowsStep, OneActiveStep
<1>5. TasksHold'
    BY <1>1, HoldsStep
<1>6. TimesStood'
    BY <1>1, StoodStep
<1>7. AllWoken'
    BY <1>1, WokenStep
<1>8. PausedAfterFailures'
    BY <1>1, FailuresStep
<1> QED BY <1>2, <1>3, <1>4, <1>5, <1>6, <1>7, <1>8 DEF IInv

\* The inductive invariant holds of the scheduler, for any number of routines
\* and runs, any schedules and any limits.
THEOREM Invariant == Spec => []IInv
BY IInvInit, IInvStep, PTL DEF Spec

-----------------------------------------------------------------------------

\* The runs of a routine do not overlap, and each begins one turn at most.
THEOREM NeverOverlap == Spec => []RunsDoNotOverlap
<1>1. ASSUME IInv PROVE RunsDoNotOverlap
    <2>1. OneActive /\ OfRuns /\ TasksHold
        BY <1>1 DEF IInv
    <2>2. \A i \in RunIds : history.turns[i] =< 1
        <3>1. \A i \in DOMAIN run : history.turns[i] =< 1
            BY <2>1 DEF TasksHold, Holds
        <3>2. \A i \in RunIds : i \notin DOMAIN run => history.turns[i] = 0
            BY <2>1 DEF OfRuns
        <3> QED BY <3>1, <3>2
    <2> QED BY <2>1, <2>2 DEF OneActive, RunsDoNotOverlap
<1> QED BY <1>1, Invariant, PTL

\* A routine that is not paused has failed too few times in a row to be.
THEOREM FailuresPause == Spec => []PausedAfterFailures
<1>1. IInv => PausedAfterFailures
    BY DEF IInv
<1> QED BY <1>1, Invariant, PTL

\* No due time is lost, however late, coalesced or skipped its run.
THEOREM TimesAreKept == Spec => []NoTimeLost
<1>1. ASSUME IInv PROVE NoTimeLost
    <2> SUFFICES ASSUME NEW r \in Routines, routine[r].alive, ~routine[r].paused,
                        {d \in routine[r].schedule :
                            history.since[r] < d /\ d < routine[r].next} # {}
                 PROVE  \E i \in RunsOf(r) : run[i].due >=
                            Max({d \in routine[r].schedule :
                                    history.since[r] < d /\ d < routine[r].next})
        BY DEF NoTimeLost
    <2> DEFINE passed == {d \in routine[r].schedule :
                              history.since[r] < d /\ d < routine[r].next}
    <2>1. TypeOK /\ TimesStood
        BY <1>1 DEF IInv
    <2>2. MaxTime \in Nat /\ passed \in SUBSET (0..MaxTime) /\ passed # {}
        <3>1. routine[r].schedule \in Schedules
            BY <2>1, RowTypes DEF RoutineRows
        <3>2. MaxTime \in Nat /\ routine[r].schedule \subseteq 1..MaxTime
            BY <3>1, SchedulerAssumption
        <3>3. routine[r].schedule \subseteq 0..MaxTime
            BY <3>2
        <3>4. passed # {}
            OBVIOUS
        <3> QED BY <3>2, <3>3, <3>4
    <2>3. Max(passed) \in passed
        <3> HIDE DEF passed
        <3> QED BY <2>2, MaxIsLargest
    <2> HIDE DEF passed
    <2>4. /\ Max(passed) \in routine[r].schedule
          /\ history.since[r] < Max(passed) /\ Max(passed) < routine[r].next
        <3> DEFINE m == Max(passed)
        <3>1. m \in passed
            BY <2>3
        <3> HIDE DEF m
        <3>2. m \in routine[r].schedule /\ history.since[r] < m /\ m < routine[r].next
            BY <3>1 DEF passed
        <3> QED BY <3>2 DEF m
    <2>5. \E i \in RunsOf(r) : run[i].due >= Max(passed)
        BY <2>1, <2>4 DEF TimesStood
    <2> QED BY <2>5 DEF passed
<1> QED BY <1>1, Invariant, PTL

\* A wake-up is never lost: at rest, what waits for the Bot was tried since it
\* last turned idle.
THEOREM WakesAreKept == Spec => []NoLostWake
<1>1. ASSUME IInv PROVE NoLostWake
    <2> SUFFICES ASSUME pass.at = "rest", ~wakes.wake, ~wakes.idle, looks = {},
                        \A i \in RunIds : task[i].step = "none",
                        NEW i \in Active, run[i].waitingFor = "bot"
                 PROVE  history.tried[i] = bot.idled
        BY DEF NoLostWake
    <2>1. TypeOK /\ OfRuns /\ Woken(i)
        BY <1>1 DEF IInv, AllWoken
    <2>2. i \in RunIds
        <3> DEFINE n == Len(run)
        <3>1. n \in Nat /\ MaxRuns \in Nat /\ n =< MaxRuns /\ DOMAIN run = 1..n
            BY <2>1, RowTypes DEF OfRuns
        <3> HIDE DEF n
        <3>2. 1..n \subseteq 1..MaxRuns
            BY <3>1, Longer
        <3> QED BY <3>1, <3>2 DEF Active, RunIds
    <2>3. task[i].step = "none"
        BY <2>2
    <2> QED BY <2>1, <2>3 DEF Woken, Steps
<1> QED BY <1>1, Invariant, PTL

\* However it is ended, a run that ended stays as it ended.
THEOREM EndsAreFinal == Spec => EndsOnce
<1>1. ASSUME IInv, [Next]_vars
      PROVE  \A i \in DOMAIN run :
                 run[i].state \in Ended => run'[i].state \in {run[i].state, "deleted"}
    <2>1. RowsGo /\ TypeOK
        BY <1>1, RowsStep DEF IInv
    <2>2. DOMAIN run = 1..Len(run)
        BY <2>1, RowTypes
    <2> HIDE DEF RunRows, RoutineRows
    <2> QED BY <2>1, <2>2 DEF RowsGo, RowGoes
<1>2. IInv /\ [Next]_vars => [\A i \in DOMAIN run :
          run[i].state \in Ended => run'[i].state \in {run[i].state, "deleted"}]_vars
    BY <1>1
<1> QED BY <1>2, Invariant, PTL DEF Spec, EndsOnce

\* No scheduled run's turn begins while its routine is paused.
THEOREM PauseIsKept == Spec => PausedStartsNothing
<1>1. ASSUME IInv, [Next]_vars, NEW i \in RunIds, history'.turns[i] > history.turns[i],
             run[i].trigger = "schedule"
      PROVE  ~routine[run[i].routine].paused
    <2>1. TypeOK /\ OfRuns /\ TasksHold
        BY <1>1 DEF IInv
    <2>2. /\ history \in [turns : [RunIds -> Nat], tried : [RunIds -> Nat],
                          since : [Routines -> Nat]]
          /\ \A n \in Nat : ~(n > n)
        BY <2>1 DEF TypeOK
    <2>3. history'.turns[i] # history.turns[i]
        BY <1>1, <2>2
    <2>4. ~Restart
        <3>1. Restart => history'.turns[i] = 0
            BY <2>2 DEF Restart
        <3>2. history.turns[i] \in Nat
            BY <2>2
        <3> QED BY <1>1, <3>1, <3>2
    <2>5. ASSUME NEW rs, history' = Since(rs) PROVE FALSE
        BY <2>2, <2>3, <2>5 DEF Since
    <2>6. ASSUME NEW j \in RunIds, Attempt(j) PROVE FALSE
        BY SMTT(30), <2>2, <2>3, <2>6 DEF Attempt
    <2>7. PICK j \in RunIds : TurnBegins(j)
        <3>1. history' # history
            BY <2>3
        <3> QED BY <1>1, <2>4, <2>5, <2>6, <3>1
                DEF Next, PassStep, TaskStep, OwnerStep, BeginPass, FallDue, SpawnTasks,
                    StartFails, MarkRunning, StartFailed, EnforceDeadline, LetRunGo, AskEnds,
                    LookAgain, Create, RunNow, AskPause, Pause, Resume, Reschedule, Delete,
                    SetTimeZone, MessageArrives, MessageDone, TurnEnds, TurnEndRecorded,
                    AppServerStops, AccountChanges, Clock, vars
    <2>8. i = j
        BY <2>2, <2>3, <2>7 DEF TurnBegins
    <2>9. task[i].step = "starting" /\ i \in DOMAIN run
        BY <2>1, <2>7, <2>8 DEF TurnBegins, At, OfRuns
    <2> QED BY <1>1, <2>1, <2>9 DEF TasksHold, Holds
<1>2. IInv /\ [Next]_vars => [\A i \in RunIds :
          history'.turns[i] > history.turns[i] /\ run[i].trigger = "schedule" =>
              ~routine[run[i].routine].paused]_vars
    BY <1>1
<1> QED BY <1>2, Invariant, PTL DEF Spec, PausedStartsNothing

=============================================================================
