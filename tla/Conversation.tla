---------------------------- MODULE Conversation ----------------------------
(***************************************************************************)
(* One Bot's conversation (crates/bokkie-gateway/src/bots/service.rs): the *)
(* user's messages that start or steer its turns, the routine runs that    *)
(* start turns, the follow-up turns for steered messages left unanswered,  *)
(* and the router that handles what the user's Codex app server reports.   *)
(*                                                                         *)
(* Sends, runs and follow-ups are tasks that hold the Bot's send lock over *)
(* all their awaits.  The router is one task that handles the events in    *)
(* order, changing `Live` first and announcing the change after.  Of the   *)
(* user's other Bots only their counted turns are seen.  Left out: tokens, *)
(* the text of messages, and database failures while the router announces. *)
(* Codex is outside the repository and modelled from how it is used.       *)
(***************************************************************************)
EXTENDS Integers, FiniteSets, SequencesExt

CONSTANTS
    Messages,     \* the user's messages, each sent once
    Runs,         \* runs of the Bot's routines
    GrantSets,    \* what the Bot may be granted
    NoOne,
    TurnLimit,    \* turns the user's allowance has
    MaxTurns,     \* bound: turns Codex starts
    MaxChanges,   \* bound: changes to the Bot's grants
    MaxOthers,    \* bound: counted turns of the user's other Bots
    MaxFaults     \* bound: requests that fail, app servers and gateways that stop

\* Messages, runs and turns have names of their own, and bounds are numbers.
ASSUME ConversationAssumption ==
    /\ Messages \cap Runs = {} /\ (Messages \cup Runs) \cap (0..MaxTurns) = {}
    /\ NoOne \notin Messages \cup Runs \cup (1..MaxTurns)
    /\ TurnLimit \in Nat /\ MaxTurns \in Nat /\ MaxChanges \in Nat
    /\ MaxOthers \in Nat /\ MaxFaults \in Nat

VARIABLES
    lock,      \* who holds the Bot's send lock
    work,      \* the holder's next step, and what it has read and done
    stage,     \* where the tasks that do not hold it are
    bot,       \* the Bot's row: its grants, its thread, the carry-over it owes
    live,      \* `Live`, for this Bot
    run,       \* each run's row
    reply,     \* the state of each turn's latest reply in the database
    counted,   \* turns counted against the allowance
    status,    \* the Bot's latest status event
    router,    \* what the router has still to announce
    stream,    \* events on their way to the router
    codex,     \* the user's app server
    turns,     \* the turns Codex started
    history,   \* what no code keeps, for the properties
    faults     \* failures so far

taskVars == <<lock, work, stage>>
rowVars == <<bot, run, reply, counted>>
codexVars == <<codex, stream, turns>>
vars == <<taskVars, rowVars, live, status, router, codexVars, history, faults>>

Turns == 1..MaxTurns

\* A follow-up is named by the turn that left messages owed.
Tasks == Messages \cup Runs \cup Turns

Endings == {"completed", "interrupted", "failed"}
RunEndings == {"succeeded", "failed", "interrupted"}
Steps == {"none", "runtime", "again", "thread", "steer", "start", "record", "announce", "mark"}
Stages == {"unborn", "new", "quiet", "failed", "done"}

NoWork == [step |-> "none", active |-> 0, server |-> 0, reserved |-> FALSE,
           turn |-> 0, carries |-> FALSE]

\* What Codex reports: a turn started, took a steered message, began and
\* finished a reply, ended; a safety rule was broken; the app server stopped.
Reports == {"started", "took", "replying", "replied", "ended", "refused", "exited"}
Report(type, turn) == [type |-> type, turn |-> turn, message |-> NoOne, ending |-> "completed"]

AtRest == [announces |-> "nothing", turn |-> 0, ending |-> "completed",
           idle |-> FALSE, owing |-> FALSE]

NoLive == [turn |-> 0, ended |-> [t \in Turns |-> "none"],
           steered |-> [t \in Turns |-> {}], owed |-> {}]

NoServer == [up |-> FALSE, serial |-> 0, running |-> {}, talk |-> [t \in Turns |-> "silent"],
             asked |-> {}, tainted |-> FALSE]

\* Mid-turn, or about to start a turn for messages its last turn left owed.
IsWorking == live.turn # 0 \/ live.owed # {}

\* The status `emit_status` reads.
Current == IF bot.refused THEN "refused" ELSE IF IsWorking THEN "working" ELSE "idle"

TypeOK ==
    /\ lock \in Tasks \cup {NoOne}
    /\ work \in [step : Steps, active : Turns \cup {0}, server : Nat, reserved : BOOLEAN,
                 turn : Turns \cup {0}, carries : BOOLEAN]
    /\ stage \in [Tasks -> Stages]
    /\ bot \in [grants : GrantSets, thread : Nat, made : GrantSets, carryover : BOOLEAN,
                refused : BOOLEAN]
    /\ live \in [turn : Turns \cup {0}, ended : [Turns -> Endings \cup {"none"}],
                 steered : [Turns -> SUBSET Messages], owed : SUBSET Messages]
    /\ run \in [Runs -> [state : {"waiting", "running"} \cup RunEndings, turn : Turns \cup {0}]]
    /\ reply \in [Turns -> {"none", "streaming", "complete", "interrupted", "failed"}]
    /\ counted \in 0..TurnLimit
    /\ status \in {"idle", "working", "refused"}
    /\ router \in [announces : {"nothing", "status", "ended", "refused", "exited"},
                   turn : Turns \cup {0}, ending : Endings, idle : BOOLEAN, owing : BOOLEAN]
    /\ stream \in Seq([type : Reports \ {"took"}, turn : Turns \cup {0}, message : {NoOne},
                       ending : Endings]
                      \cup [type : {"took"}, turn : Turns, message : Messages, ending : Endings])
    /\ codex \in [up : BOOLEAN, serial : Nat, running : SUBSET Turns, asked : SUBSET Turns,
                  talk : [Turns -> {"silent", "speaking", "spoken"}], tainted : BOOLEAN]
    /\ turns \in Seq([thread : Nat, made : GrantSets, carries : BOOLEAN])
    /\ history \in [changes : Nat, others : Nat, lost : Nat, waiting : SUBSET (Messages \X Turns)]
    /\ faults \in Nat

Init ==
    /\ lock = NoOne
    /\ work = NoWork
    /\ stage = [t \in Tasks |-> IF t \in Turns THEN "unborn" ELSE "new"]
    /\ \E g \in GrantSets :
          bot = [grants |-> g, thread |-> 0, made |-> g, carryover |-> FALSE, refused |-> FALSE]
    /\ live = NoLive
    /\ run = [r \in Runs |-> [state |-> "waiting", turn |-> 0]]
    /\ reply = [t \in Turns |-> "none"]
    /\ counted = 0
    /\ status = "idle"
    /\ router = AtRest
    /\ stream = <<>>
    /\ codex = NoServer
    /\ turns = <<>>
    /\ history = [changes |-> 0, others |-> 0, lost |-> 0, waiting |-> {}]
    /\ faults = 0

-----------------------------------------------------------------------------
(* A task's steps, in order.  Each is what it does from one await to the    *)
(* next, up to the change it makes.                                         *)

Fails ==
    /\ faults < MaxFaults
    /\ faults' = faults + 1

HasTurnLeft == counted < TurnLimit
Holds(t, step) == lock = t /\ work.step = step
Goes(step) == work' = [work EXCEPT !.step = step]

\* Whether the app server the task works with still runs.
Alive == codex.up /\ codex.serial = work.server

Takes(t) ==
    /\ lock' = t
    /\ work' = [NoWork EXCEPT !.step = "runtime", !.active = IF t \in Messages THEN live.turn ELSE 0]

Leaves(t, next) ==
    /\ lock' = NoOne
    /\ work' = NoWork
    /\ stage' = [stage EXCEPT ![t] = next]

\* The task gives up and lets the lock go.  A run that could not start fails;
\* of a follow-up the user is told.
GivesUp(t) ==
    /\ Leaves(t, IF t \in Turns THEN "failed" ELSE "done")
    /\ run' = [r \in Runs |-> IF r = t THEN [run[r] EXCEPT !.state = "failed"] ELSE run[r]]

\* `release_turn`.
Released == counted' = IF work.reserved THEN counted - 1 ELSE counted

\* A send finds the Bot refused, or with no turn running and none left.
SendRefused(m) ==
    /\ stage[m] = "new"
    /\ lock = NoOne
    /\ bot.refused \/ (live.turn = 0 /\ ~HasTurnLeft)
    /\ stage' = [stage EXCEPT ![m] = "done"]
    /\ UNCHANGED <<lock, work, rowVars, live, status, router, codexVars, history, faults>>

\* `send` up to its reading of the running turn.
Send(m) ==
    /\ stage[m] = "new"
    /\ lock = NoOne
    /\ ~bot.refused
    /\ live.turn # 0 \/ HasTurnLeft
    /\ Takes(m)
    /\ UNCHANGED <<stage, rowVars, live, status, router, codexVars, history, faults>>

\* `start_routine` on a Bot that can run nothing now or later.
RunRefused(r) ==
    /\ stage[r] = "new"
    /\ lock = NoOne
    /\ bot.refused \/ (~IsWorking /\ ~HasTurnLeft)
    /\ stage' = [stage EXCEPT ![r] = "done"]
    /\ run' = [run EXCEPT ![r].state = "failed"]
    /\ UNCHANGED <<lock, work, bot, reply, counted, live, status, router, codexVars, history, faults>>

\* `start_routine`: a run never steers; it starts on an idle Bot or not at all.
StartRoutine(r) ==
    /\ stage[r] = "new"
    /\ lock = NoOne
    /\ ~bot.refused /\ ~IsWorking /\ HasTurnLeft
    /\ Takes(r)
    /\ UNCHANGED <<stage, rowVars, live, status, router, codexVars, history, faults>>

\* `start_owed` takes what is owed, whatever comes of it.
StartOwed(f) ==
    /\ stage[f] = "new"
    /\ lock = NoOne
    /\ live' = [live EXCEPT !.owed = {}]
    /\ CASE live.turn # 0 ->
              stage' = [stage EXCEPT ![f] = "done"] /\ UNCHANGED <<lock, work, history>>
         [] live.turn = 0 /\ (live.owed = {} \/ bot.refused) ->
              stage' = [stage EXCEPT ![f] = "quiet"] /\ UNCHANGED <<lock, work, history>>
         [] live.turn = 0 /\ live.owed # {} /\ ~bot.refused /\ ~HasTurnLeft ->
              /\ stage' = [stage EXCEPT ![f] = "failed"]
              /\ history' = [history EXCEPT !.waiting = {}]
              /\ UNCHANGED <<lock, work>>
         [] OTHER -> Takes(f) /\ UNCHANGED <<stage, history>>
    /\ UNCHANGED <<rowVars, status, router, codexVars, faults>>

\* The user's app server, started if none runs.
Runtime ==
    codex' = IF codex.up THEN codex ELSE [NoServer EXCEPT !.up = TRUE, !.serial = codex.serial + 1]

\* `supervisor.runtime`, and the turn counted unless one is to be steered.
Reserve(t) ==
    /\ Holds(t, "runtime")
    /\ ~codex.tainted
    /\ work.active # 0 \/ HasTurnLeft
    /\ Runtime
    /\ counted' = IF work.active = 0 THEN counted + 1 ELSE counted
    /\ work' = [work EXCEPT !.step = "thread", !.server = codex'.serial, !.reserved = work.active = 0]
    /\ UNCHANGED <<lock, stage, bot, run, reply, live, status, router, stream, turns, history, faults>>

\* A steer that missed its turn needs one of its own.
ReserveAgain(t) ==
    /\ Holds(t, "again")
    /\ HasTurnLeft
    /\ counted' = counted + 1
    /\ work' = [work EXCEPT !.step = "thread", !.active = 0, !.reserved = TRUE]
    /\ UNCHANGED <<lock, stage, bot, run, reply, live, status, router, codexVars, history, faults>>

\* No turn is left, or the app server cannot be had.
NoTurn(t) ==
    /\ \/ /\ Holds(t, "runtime")
          /\ \/ codex.tainted /\ UNCHANGED faults
             \/ work.active = 0 /\ ~HasTurnLeft /\ UNCHANGED faults
             \/ Fails
       \/ Holds(t, "again") /\ ~HasTurnLeft /\ UNCHANGED faults
    /\ GivesUp(t)
    /\ history' = [history EXCEPT !.waiting = IF t \in Turns THEN {} ELSE @]
    /\ UNCHANGED <<bot, reply, counted, live, status, router, codexVars>>

\* With the user signed out, a run waits on.
RunWaits(r) ==
    /\ Holds(r, "runtime")
    /\ Fails
    /\ Leaves(r, "new")
    /\ UNCHANGED <<rowVars, live, status, router, codexVars, history>>

\* Whether the Bot's own thread is the one to run on.
OwnThread == bot.thread # 0 /\ bot.made = bot.grants

\* Slip: the thread the Bot has is good enough.
PrepareAnyThread(t) ==
    /\ Holds(t, "thread")
    /\ Alive
    /\ bot' = IF bot.thread # 0 THEN bot ELSE [bot EXCEPT !.thread = @ + 1, !.made = bot.grants]
    /\ Goes(IF work.active # 0 THEN "steer" ELSE "start")
    /\ UNCHANGED <<lock, stage, run, reply, counted, live, status, router, codexVars, history, faults>>

\* Slip: a fresh thread starts with an empty conversation.
PrepareBlankThread(t) ==
    /\ Holds(t, "thread")
    /\ Alive \/ work.active # 0 \/ OwnThread
    /\ bot' = IF work.active # 0 \/ OwnThread THEN bot
              ELSE [bot EXCEPT !.thread = @ + 1, !.made = bot.grants]
    /\ Goes(IF work.active # 0 THEN "steer" ELSE "start")
    /\ UNCHANGED <<lock, stage, run, reply, counted, live, status, router, codexVars, history, faults>>

\* `serve_thread` for the turn to steer, or `prepare_thread`: a fresh thread if
\* the Bot's has not the Bot's grants, which carries the conversation over.
PrepareThread(t) ==
    /\ Holds(t, "thread")
    /\ Alive \/ work.active # 0 \/ OwnThread
    /\ bot' = IF work.active # 0 \/ OwnThread THEN bot
              ELSE [bot EXCEPT !.thread = @ + 1, !.made = bot.grants, !.carryover = bot.thread # 0]
    /\ Goes(IF work.active # 0 THEN "steer" ELSE "start")
    /\ UNCHANGED <<lock, stage, run, reply, counted, live, status, router, codexVars, history, faults>>

\* The thread cannot be served, or its message not stored: the counted turn is
\* taken back.
PrepareFails(t) ==
    /\ Holds(t, "thread")
    /\ IF Alive THEN Fails ELSE UNCHANGED faults
    /\ Released
    /\ GivesUp(t)
    /\ history' = [history EXCEPT !.waiting = IF t \in Turns THEN {} ELSE @]
    /\ UNCHANGED <<bot, reply, live, status, router, codexVars>>

\* The Bot's thread fails its checks, which the Bot remembers (`refusing`).
ThreadRefused(t) ==
    /\ Holds(t, "thread")
    /\ Alive
    /\ Fails
    /\ Released
    /\ GivesUp(t)
    /\ bot' = [bot EXCEPT !.refused = TRUE]
    /\ status' = "refused"
    /\ history' = [history EXCEPT !.waiting = IF t \in Turns THEN {} ELSE @]
    /\ UNCHANGED <<reply, live, router, codexVars>>

\* Codex takes the message into the turn that runs.
TakesIn(m) ==
    /\ Alive /\ work.active \in codex.running
    /\ codex' = [codex EXCEPT !.asked = @ \cup {work.active}]
    /\ stream' = Append(stream, [Report("took", work.active) EXCEPT !.message = m])
    /\ history' = [history EXCEPT !.waiting = @ \cup {<<m, work.active>>}]
    /\ UNCHANGED turns

Steer(m) ==
    /\ Holds(m, "steer")
    /\ TakesIn(m)
    /\ Leaves(m, "done")
    /\ UNCHANGED <<rowVars, live, status, router, faults>>

\* The turn ended meanwhile, or its app server did.
SteerMisses(m) ==
    /\ Holds(m, "steer")
    /\ ~(Alive /\ work.active \in codex.running)
    /\ Goes("again")
    /\ UNCHANGED <<lock, stage, rowVars, live, status, router, codexVars, history, faults>>

\* The steer fails with nothing taken, which the send takes for a turn that
\* ended; or the sign-in is gone, which ends the send.
SteerFails(m) ==
    /\ Holds(m, "steer")
    /\ Alive
    /\ Fails
    /\ \/ Goes("again") /\ UNCHANGED <<lock, stage, run>>
       \/ GivesUp(m)
    /\ UNCHANGED <<bot, reply, counted, live, status, router, codexVars, history>>

\* Codex takes the message and its answer is lost: the send goes on to a turn
\* of the message's own as though the turn had ended.
SteerLost(m) ==
    /\ Holds(m, "steer")
    /\ TakesIn(m)
    /\ Fails
    /\ Goes("again")
    /\ UNCHANGED <<lock, stage, rowVars, live, status, router>>

\* Codex runs one turn of a thread at a time.
ThreadIdle == \A t \in codex.running : turns[t].thread # bot.thread

\* Codex starts a turn: the thread holds everything said before, or the turn
\* carries it.
StartsTurn ==
    /\ Alive /\ ThreadIdle
    /\ Len(turns) < MaxTurns
    /\ turns' = Append(turns, [thread |-> bot.thread, made |-> bot.made, carries |-> bot.carryover])
    /\ codex' = [codex EXCEPT !.running = @ \cup {Len(turns')}]
    /\ stream' = Append(stream, Report("started", Len(turns')))
    /\ history' = [history EXCEPT !.waiting = {}]

\* `begin_turn` up to the answer of `turn/start`.
BeginTurn(t) ==
    /\ Holds(t, "start")
    /\ StartsTurn
    /\ work' = [work EXCEPT !.step = "record", !.turn = Len(turns'), !.carries = bot.carryover]
    /\ UNCHANGED <<lock, stage, rowVars, live, status, router, faults>>

\* Codex refuses, certainly starting nothing: the turn is not counted.
BeginRejected(t) ==
    /\ Holds(t, "start")
    /\ Alive
    /\ IF ThreadIdle THEN Fails ELSE UNCHANGED faults
    /\ Released
    /\ GivesUp(t)
    /\ history' = [history EXCEPT !.waiting = IF t \in Turns THEN {} ELSE @]
    /\ UNCHANGED <<bot, reply, live, status, router, codexVars>>

\* Slip: any failure takes the turn back.
BeginLostReleases(t) ==
    /\ Holds(t, "start")
    /\ Alive /\ Fails
    /\ StartsTurn
    /\ Released
    /\ GivesUp(t)
    /\ UNCHANGED <<bot, reply, live, status, router>>

\* No answer comes: the app server stopped, or Codex may have started the turn.
\* The turn stays counted.
BeginLost(t) ==
    /\ Holds(t, "start")
    /\ \/ /\ IF Alive THEN Fails ELSE UNCHANGED faults
          /\ history' = [history EXCEPT !.lost = @ + 1, !.waiting = IF t \in Turns THEN {} ELSE @]
          /\ UNCHANGED codexVars
       \/ Alive /\ Fails /\ StartsTurn
    /\ GivesUp(t)
    /\ UNCHANGED <<bot, reply, counted, live, status, router>>

\* A task whose turn started: a run is still to be marked running.
Recorded(t) == IF t \in Runs THEN Goes("mark") /\ UNCHANGED <<lock, stage>> ELSE Leaves(t, "done")

\* Slip: a turn that has ended already is recorded as running.
RecordEnded(t) ==
    /\ Holds(t, "record")
    /\ bot' = [bot EXCEPT !.carryover = @ /\ ~work.carries]
    /\ live' = [live EXCEPT !.owed = {}, !.turn = work.turn]
    /\ IF live.turn = 0 THEN Goes("announce") /\ UNCHANGED <<lock, stage>> ELSE Recorded(t)
    /\ UNCHANGED <<run, reply, counted, status, router, codexVars, history, faults>>

\* The carry-over is done with, owed messages are answered, and the turn is
\* recorded unless it has ended.
Record(t) ==
    /\ Holds(t, "record")
    /\ bot' = [bot EXCEPT !.carryover = @ /\ ~work.carries]
    /\ LET runs == live.ended[work.turn] = "none"
       IN /\ live' = [live EXCEPT !.owed = {}, !.turn = IF runs THEN work.turn ELSE @]
          /\ IF runs /\ live.turn = 0
             THEN Goes("announce") /\ UNCHANGED <<lock, stage>>
             ELSE Recorded(t)
    /\ UNCHANGED <<run, reply, counted, status, router, codexVars, history, faults>>

\* The database fails between the answer and the recording.
RecordFails(t) ==
    /\ Holds(t, "record")
    /\ Fails
    /\ GivesUp(t)
    /\ UNCHANGED <<bot, reply, counted, live, status, router, codexVars, history>>

\* `announce_working`.
AnnounceWorking(t) ==
    /\ Holds(t, "announce")
    /\ status' = IF IsWorking THEN Current ELSE status
    /\ Recorded(t)
    /\ UNCHANGED <<rowVars, live, router, codexVars, history, faults>>

RunEnding(ending) ==
    CASE ending = "completed" -> "succeeded" [] ending = "failed" -> "failed" [] OTHER -> "interrupted"

\* Slip: the run's turn is taken to be running still.
MarkRunning(r) ==
    /\ Holds(r, "mark")
    /\ run' = [run EXCEPT ![r] = [state |-> "running", turn |-> work.turn]]
    /\ Leaves(r, "done")
    /\ UNCHANGED <<bot, reply, counted, live, status, router, codexVars, history, faults>>

\* `set_running`; a run whose turn has ended already ends with it.
Mark(r) ==
    /\ Holds(r, "mark")
    /\ LET ending == live.ended[work.turn]
       IN run' = [run EXCEPT ![r] =
             [state |-> IF ending = "none" THEN "running" ELSE RunEnding(ending), turn |-> work.turn]]
    /\ Leaves(r, "done")
    /\ UNCHANGED <<bot, reply, counted, live, status, router, codexVars, history, faults>>

\* The run cannot be marked: it failed, and its turn goes on.
MarkFails(r) ==
    /\ Holds(r, "mark")
    /\ Fails
    /\ GivesUp(r)
    /\ UNCHANGED <<bot, reply, counted, live, status, router, codexVars, history>>

\* `answer_owed` after no turn started.
AnnounceIdle(f) ==
    /\ \/ stage[f] = "quiet"
       \/ stage[f] = "failed" /\ ~IsWorking
    /\ stage' = [stage EXCEPT ![f] = "done"]
    /\ status' = Current
    /\ UNCHANGED <<lock, work, rowVars, live, router, codexVars, history, faults>>

\* A turn of the Bot began meanwhile, and its end will announce it.
LeaveToTurn(f) ==
    /\ stage[f] = "failed" /\ IsWorking
    /\ stage' = [stage EXCEPT ![f] = "done"]
    /\ UNCHANGED <<lock, work, rowVars, live, status, router, codexVars, history, faults>>

-----------------------------------------------------------------------------
(* The router: `Live` is changed as an event is taken, and what it changes  *)
(* in the database and announces follows.                                   *)

Handles(type) ==
    /\ router = AtRest
    /\ stream # <<>>
    /\ Head(stream).type = type
    /\ stream' = Tail(stream)

Event == Head(stream)

\* Slip: announcing is left to the task that started the turn.
TurnStartedQuietly ==
    /\ Handles("started")
    /\ live' = IF turns[Event.turn].thread = bot.thread THEN [live EXCEPT !.turn = Event.turn] ELSE live
    /\ UNCHANGED <<taskVars, rowVars, status, router, codex, turns, history, faults>>

\* Only the Bot's current thread runs its turns.
TurnStarted ==
    /\ Handles("started")
    /\ IF turns[Event.turn].thread = bot.thread
       THEN /\ live' = [live EXCEPT !.turn = Event.turn]
            /\ router' = IF live.turn = 0 THEN [AtRest EXCEPT !.announces = "status"] ELSE router
       ELSE UNCHANGED <<live, router>>
    /\ UNCHANGED <<taskVars, rowVars, status, codex, turns, history, faults>>

\* A steered message became part of the turn.
ItemTaken ==
    /\ Handles("took")
    /\ live' = [live EXCEPT !.steered[Event.turn] = @ \cup {Event.message}]
    /\ UNCHANGED <<taskVars, rowVars, status, router, codex, turns, history, faults>>

\* `reply`: what was steered into the turn so far is being answered.
ReplyStarted ==
    /\ Handles("replying")
    /\ reply' = [reply EXCEPT ![Event.turn] = "streaming"]
    /\ live' = [live EXCEPT
          !.steered[Event.turn] = {},
          !.turn = IF /\ @ = 0
                      /\ turns[Event.turn].thread = bot.thread
                      /\ live.ended[Event.turn] = "none"
                   THEN Event.turn ELSE @]
    /\ UNCHANGED <<taskVars, bot, run, counted, status, router, codex, turns, history, faults>>


ReplyCompleted ==
    /\ Handles("replied")
    /\ reply' = [reply EXCEPT ![Event.turn] = IF @ = "streaming" THEN "complete" ELSE @]
    /\ UNCHANGED <<taskVars, bot, run, counted, live, status, router, codex, turns, history, faults>>

\* A completed turn owes what was steered into it after its last reply began.
\* The Bot is idle only if this was the turn it was on.
TurnCompleted ==
    /\ Handles("ended")
    /\ LET t == Event.turn
           owing == Event.ending = "completed" /\ live.steered[t] # {}
       IN /\ live' = [live EXCEPT !.ended[t] = Event.ending, !.steered[t] = {},
                !.owed = IF owing THEN @ \cup live.steered[t] ELSE @,
                !.turn = IF @ = t THEN 0 ELSE @]
          /\ router' = [announces |-> "ended", turn |-> t, ending |-> Event.ending,
                        idle |-> live.turn = t, owing |-> owing]
    /\ UNCHANGED <<taskVars, rowVars, status, codex, turns, history, faults>>

\* A thread broke a safety rule: nothing of the Bot runs or is owed any more.
Refused ==
    /\ Handles("refused")
    /\ live' = [live EXCEPT !.owed = {}, !.turn = 0,
                            !.steered = [t \in Turns |-> IF t = live.turn THEN {} ELSE @[t]]]
    /\ router' = [AtRest EXCEPT !.announces = "refused"]
    /\ UNCHANGED <<taskVars, rowVars, status, codex, turns, history, faults>>

\* The app server stopped, and with it whatever turn the Bot was on.
Exited ==
    /\ Handles("exited")
    /\ live' = [live EXCEPT !.turn = 0, !.steered = [t \in Turns |-> {}]]
    /\ router' = [AtRest EXCEPT !.announces = "exited", !.idle = live.turn # 0]
    /\ UNCHANGED <<taskVars, rowVars, status, codex, turns, history, faults>>

\* The replies still streaming end in `state`: one turn's, or all.
Finished(of, state) ==
    reply' = [t \in Turns |-> IF t \in of /\ reply[t] = "streaming" THEN state ELSE reply[t]]

MessageState(ending) == IF ending = "completed" THEN "complete" ELSE ending

\* Slip: whatever became of the run before.
EndsRunsAgain(of, state) ==
    run' = [r \in Runs |-> IF run[r].turn \in of THEN [run[r] EXCEPT !.state = state] ELSE run[r]]

EndsRuns(of, state) ==
    run' = [r \in Runs |-> IF run[r].state = "running" /\ run[r].turn \in of
                           THEN [run[r] EXCEPT !.state = state] ELSE run[r]]

Announces(what) == router.announces = what /\ router' = AtRest

AnnounceStarted ==
    /\ Announces("status")
    /\ status' = Current
    /\ UNCHANGED <<taskVars, rowVars, live, codexVars, history, faults>>

\* Slip: the end of a turn that owes messages starts nothing for them.
AnnounceEndedOnly ==
    /\ Announces("ended")
    /\ Finished({router.turn}, MessageState(router.ending))
    /\ status' = IF router.idle THEN Current ELSE status
    /\ EndsRuns({router.turn}, RunEnding(router.ending))
    /\ UNCHANGED <<taskVars, bot, counted, live, codexVars, history, faults>>

\* The turn's reply and run end with it, and a task of its own answers what it
\* owes.
AnnounceEnded ==
    /\ Announces("ended")
    /\ Finished({router.turn}, MessageState(router.ending))
    /\ status' = IF router.idle THEN Current ELSE status
    /\ EndsRuns({router.turn}, RunEnding(router.ending))
    /\ stage' = [stage EXCEPT ![router.turn] = IF router.owing THEN "new" ELSE @]
    /\ UNCHANGED <<lock, work, bot, counted, live, codexVars, history, faults>>

AnnounceRefused ==
    /\ Announces("refused")
    /\ Finished(Turns, "failed")
    /\ bot' = [bot EXCEPT !.refused = TRUE]
    /\ status' = "refused"
    /\ EndsRuns(Turns, "failed")
    /\ UNCHANGED <<taskVars, counted, live, codexVars, history, faults>>

AnnounceExited ==
    /\ Announces("exited")
    /\ Finished(Turns, "failed")
    /\ status' = IF router.idle THEN Current ELSE status
    /\ EndsRuns(Turns, "failed")
    /\ UNCHANGED <<taskVars, bot, counted, live, codexVars, history, faults>>

Route ==
    \/ TurnStarted \/ ItemTaken \/ ReplyStarted \/ ReplyCompleted \/ TurnCompleted
    \/ Refused \/ Exited
    \/ AnnounceStarted \/ AnnounceEnded \/ AnnounceRefused \/ AnnounceExited

-----------------------------------------------------------------------------
(* Codex.  It reports in order, and may end a turn without asking the model *)
(* about what was steered in last.                                          *)

Tells(report) == stream' = Append(stream, report)
codexOnly == <<taskVars, rowVars, live, status, router, turns>>

Answered(t) == {w \in history.waiting : w[2] = t}

Speak(t) ==
    /\ codex.talk[t] = "silent" \/ (codex.talk[t] = "spoken" /\ t \in codex.asked)
    /\ codex' = [codex EXCEPT !.talk[t] = "speaking", !.asked = @ \ {t}]
    /\ history' = [history EXCEPT !.waiting = @ \ Answered(t)]
    /\ Tells(Report("replying", t))
    /\ UNCHANGED <<codexOnly, faults>>

StopSpeaking(t) ==
    /\ codex.talk[t] = "speaking"
    /\ codex' = [codex EXCEPT !.talk[t] = "spoken"]
    /\ Tells(Report("replied", t))
    /\ UNCHANGED <<codexOnly, history, faults>>

\* The user is told of a turn that is stopped or fails.
EndTurn(t) ==
    /\ \E ending \in Endings :
          /\ ending = "completed" => codex.talk[t] # "speaking"
          /\ history' = [history EXCEPT !.waiting = IF ending = "completed" THEN @ ELSE @ \ Answered(t)]
          /\ Tells([Report("ended", t) EXCEPT !.ending = ending])
    /\ codex' = [codex EXCEPT !.running = @ \ {t}, !.asked = @ \ {t}, !.talk[t] = "silent"]
    /\ UNCHANGED <<codexOnly, faults>>

Stopped == [NoServer EXCEPT !.serial = codex.serial, !.tainted = codex.tainted]

\* What is forwarded of the reports still unread: all those of earlier app
\* servers, and some of this one's.
Kept == {n \in 0..Len(stream) : \A i \in 1..Len(stream) : stream[i].type = "exited" => i <= n}

\* The app server stops; the end of its messages is reported last.
Stop ==
    /\ codex.up
    /\ Fails
    /\ \E n \in Kept : stream' = Append(SubSeq(stream, 1, n), Report("exited", 0))
    /\ codex' = Stopped
    /\ history' = [history EXCEPT !.waiting = {}]
    /\ UNCHANGED codexOnly

\* A task has a turn's answer and has not recorded the turn yet.
Unrecorded == work.step \in {"record", "mark"} \/ (work.step = "announce" /\ lock \in Runs)

StopRecorded == ~Unrecorded /\ Stop

\* A safety rule is broken: the thread is refused and Codex stops for good.
Violate(t) ==
    /\ ~Unrecorded
    /\ Fails
    /\ stream' = stream \o <<Report("refused", t), Report("exited", 0)>>
    /\ codex' = [Stopped EXCEPT !.tainted = TRUE]
    /\ history' = [history EXCEPT !.waiting = {}]
    /\ UNCHANGED codexOnly

Codex == \E t \in codex.running : Speak(t) \/ StopSpeaking(t) \/ EndTurn(t)
Violation == \E t \in codex.running : Violate(t)

-----------------------------------------------------------------------------
(* Everyone else.                                                           *)

\* A change to the grants holds off sends (`lock_bot`).
ChangeGrants ==
    /\ lock = NoOne
    /\ history.changes < MaxChanges
    /\ \E g \in GrantSets \ {bot.grants} : bot' = [bot EXCEPT !.grants = g]
    /\ history' = [history EXCEPT !.changes = @ + 1]
    /\ UNCHANGED <<taskVars, run, reply, counted, live, status, router, codexVars, faults>>

\* A turn of another of the user's Bots is counted.
OtherTurn ==
    /\ HasTurnLeft
    /\ history.others < MaxOthers
    /\ counted' = counted + 1
    /\ history' = [history EXCEPT !.others = @ + 1]
    /\ UNCHANGED <<taskVars, bot, run, reply, live, status, router, codexVars, faults>>

\* The gateway stops and starts: its tasks and all of `Live` are gone, the app
\* server with them; `recover` ends what was left streaming or running.
Restart ==
    /\ Fails
    /\ lock' = NoOne
    /\ work' = NoWork
    /\ stage' = [t \in Tasks |->
          CASE t \in Turns /\ stage[t] # "unborn" -> "done"
            [] t = lock /\ t \in Messages -> "done"
            [] OTHER -> stage[t]]
    /\ live' = NoLive
    /\ router' = AtRest
    /\ stream' = <<>>
    /\ codex' = [Stopped EXCEPT !.tainted = FALSE]
    /\ Finished(Turns, "failed")
    /\ EndsRuns(Turns, "failed")
    /\ history' = [history EXCEPT !.waiting = {},
          !.lost = IF work.reserved /\ work.turn = 0 THEN @ + 1 ELSE @]
    /\ UNCHANGED <<bot, counted, status, turns>>

Finish(t) == Reserve(t) \/ ReserveAgain(t) \/ NoTurn(t) \/ PrepareThread(t)
    \/ PrepareFails(t) \/ ThreadRefused(t) \/ BeginTurn(t) \/ BeginRejected(t) \/ BeginLost(t)
    \/ Record(t) \/ RecordFails(t) \/ AnnounceWorking(t)

Message(m) == Send(m) \/ SendRefused(m) \/ Steer(m) \/ SteerMisses(m) \/ SteerFails(m)
    \/ SteerLost(m) \/ Finish(m)
Routine(r) == StartRoutine(r) \/ RunRefused(r) \/ RunWaits(r) \/ Mark(r) \/ MarkFails(r) \/ Finish(r)
FollowUp(f) == StartOwed(f) \/ AnnounceIdle(f) \/ LeaveToTurn(f) \/ Finish(f)

Gateway ==
    \/ \E m \in Messages : Message(m)
    \/ \E r \in Runs : Routine(r)
    \/ \E f \in Turns : FollowUp(f)
    \/ Route

Next == Gateway \/ Codex \/ StopRecorded \/ Violation \/ ChangeGrants \/ OtherTurn

\* With an app server that stops just as a turn is being recorded.
AbruptNext == Next \/ Stop

\* With a gateway that restarts.
RestartNext == Next \/ Restart

Spec == Init /\ [][Next]_vars
AbruptSpec == Init /\ [][AbruptNext]_vars
RestartSpec == Init /\ [][RestartNext]_vars

\* Tasks and the router run, a tokio mutex is given in turn, and Codex ends
\* every turn.  Nobody has to send, and nothing has to fail.
Fairness ==
    /\ WF_vars(Route)
    /\ WF_vars(\E t \in codex.running : EndTurn(t))
    /\ WF_vars(\E t \in Messages : Finish(t) \/ Steer(t) \/ SteerMisses(t))
    /\ WF_vars(\E t \in Runs : Finish(t) \/ Mark(t))
    /\ \A f \in Turns : WF_vars(FollowUp(f))

FairSpec == Spec /\ Fairness

-----------------------------------------------------------------------------
(* Properties.                                                              *)

\* Everything reported has been handled, and no task is half way.
Settled ==
    /\ lock = NoOne
    /\ \A f \in Turns : stage[f] \in {"unborn", "done"}
    /\ router = AtRest
    /\ stream = <<>>

\* "The latest status event of a Bot is always its current status"
\* (docs/gateway.md), once those who changed it have announced it.
StatusCurrent == Settled => status = Current

\* A Bot works while Codex runs a turn on its thread, and only then: neither a
\* turn that ended before it was recorded nor one whose app server stopped
\* leaves the Bot working, and a turn nobody recorded is still seen.
WorkingIsReal ==
    Settled =>
        /\ live.owed = {}
        /\ live.turn # 0 => live.turn \in codex.running
        /\ \A t \in codex.running : turns[t].thread = bot.thread => live.turn = t

\* A run is running while its turn is.
RunningIsReal ==
    Settled => \A r \in Runs : run[r].state = "running" => run[r].turn \in codex.running

\* A reply streams while Codex is giving it, and only then: the end of a turn,
\* of its app server or of its thread ends its replies and no others.
StreamingIsReal ==
    Settled => \A t \in Turns :
        reply[t] = "streaming" <=> t \in codex.running /\ codex.talk[t] = "speaking"

\* What is shown and recorded of a Bot, once everything is handled, is what
\* Codex does (`begin_turn`, `handle`, `recover`).
ShownIsReal == WorkingIsReal /\ RunningIsReal /\ StreamingIsReal


\* "A turn that runs is always counted", and nothing else stays counted but
\* requests whose answer was lost.
CountedExactly ==
    counted = Len(turns) + history.others + history.lost
              + (IF work.reserved /\ work.turn = 0 THEN 1 ELSE 0)

\* A fresh thread that replaces another carries the conversation into its first
\* turn, though the turn that was to do so may have failed to start.
CarriesOver ==
    \A t \in DOMAIN turns :
        (/\ turns[t].thread > 1
         /\ \A u \in 1..(t - 1) : turns[u].thread # turns[t].thread)
        => turns[t].carries

\* "A new turn runs only on a thread whose grants are the Bot's", whatever was
\* changed since its message was sent.
TurnsHaveGrants ==
    [][Len(turns') > Len(turns) => turns'[Len(turns')].made = bot.grants]_vars

\* A run starts no turn while messages steered into an earlier one are owed
\* theirs.
OwedComesFirst ==
    [][(lock \in Runs /\ Len(turns') > Len(turns)) => history.waiting = {}]_vars

\* A message left unanswered is followed up once: "a turn that starts
\* meanwhile for another message answers it instead".
FollowedUpOnce ==
    [][(lock \in Turns /\ Len(turns') > Len(turns)) => history.waiting # {}]_vars

\* A run that ended stays as it ended.
RunsEndOnce ==
    [][\A r \in Runs : run[r].state \in RunEndings => run'[r] = run[r]]_vars

\* Routines' runs take their turn: none ends twice, and none gets the Bot
\* before the message a turn owes (`end_running`, `start_routine_locked`).
RunsInOrder == RunsEndOnce /\ OwedComesFirst

\* A Bot does not stay working once Codex is done, so that its routines run.
WorkEnds == IsWorking ~> ~IsWorking

\* A message was steered in and nothing answers it yet.
Waits(m) == \E t \in Turns : <<m, t>> \in history.waiting
Told(m) == bot.refused \/ ~Waits(m)

\* A steered message is answered in the end, or the user told why not.
AnswerComes == \A m \in Messages : Waits(m) ~> Told(m)

=============================================================================
