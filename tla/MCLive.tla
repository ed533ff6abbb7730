------------------------------- MODULE MCLive -------------------------------
(***************************************************************************)
(* What must happen in the end, under the fairness that Conversation and   *)
(* RoutineScheduler state, for an instance of each.  The first state       *)
(* chooses which of the two runs, `part`: Conversation has its own         *)
(* variables, and x1 to x13 are those of RoutineScheduler, in the order of *)
(* the INSTANCE.                                                           *)
(***************************************************************************)
EXTENDS Conversation

VARIABLES part, x1, x2, x3, x4, x5, x6, x7, x8, x9, x10, x11, x12, x13

xs == <<x1, x2, x3, x4, x5, x6, x7, x8, x9, x10, x11, x12, x13>>
all == <<vars, part, xs>>

\* One routine, with a wait and a deadline that pass.
R == INSTANCE RoutineScheduler WITH
    Routines <- {1, 2}, Created <- {{1}}, Schedules <- {{1}}, OtherZone <- [s \in {{1}} |-> s],
    FirstSchedule <- [r \in {1, 2} |-> {1}], MisfireWindow <- 0, BusyWait <- 1,
    RunDeadline <- 1, InterruptGrace <- 1, FailuresToPause <- 2,
    MaxTime <- 3, MaxRuns <- 2, MaxManual <- 0, MaxEvents <- 2,
    now <- x1, account <- x2, routine <- x3, run <- x4, bot <- x5, router <- x6, wakes <- x7,
    pass <- x8, task <- x9, looks <- x10, asking <- x11, events <- x12, history <- x13

LiveInit ==
    /\ Init
    /\ \/ part = "conversation"
          /\ x1 = 0 /\ x2 = 0 /\ x3 = 0 /\ x4 = 0 /\ x5 = 0 /\ x6 = 0 /\ x7 = 0
          /\ x8 = 0 /\ x9 = 0 /\ x10 = 0 /\ x11 = 0 /\ x12 = 0 /\ x13 = 0
       \/ part = "routines" /\ R!Init

LiveNext ==
    \/ part = "conversation" /\ Next /\ UNCHANGED <<part, xs>>
    \/ part = "routines" /\ R!Next /\ UNCHANGED <<part, vars>>

\* The fairness of RoutineScheduler, for its part.  That of Conversation asks for
\* nothing while its part does not run.
Idle == UNCHANGED <<part, vars>>

RoutineFairness ==
    /\ \A cause \in {"tick", "wake", "idle"} :
          WF_all(part = "routines" /\ R!BeginPass(cause) /\ Idle)
    /\ WF_all(part = "routines" /\ R!PassStep /\ Idle)
    /\ \A i \in 1..2 : WF_all(part = "routines" /\ R!TaskStep(i) /\ Idle)
    /\ WF_all(part = "routines" /\ (\E idled \in x10 : R!LookAgain(idled)) /\ Idle)
    /\ WF_all(part = "routines" /\ R!TurnEndRecorded /\ Idle)
    /\ SF_all(part = "routines" /\ R!Clock /\ Idle)
    /\ WF_all(part = "routines" /\ R!MessageDone /\ Idle)
    /\ \A r \in {1, 2} : WF_all(part = "routines" /\ R!Pause(r) /\ Idle)

LiveSpec == LiveInit /\ [][LiveNext]_all /\ Fairness /\ RoutineFairness

-----------------------------------------------------------------------------
\* Every run ends, though its turn never may and its interrupt be lost
\* (`attempt`, `enforce_deadline`).
RunsEnd ==
    \A i \in 1..2 :
        (part = "routines" /\ i \in R!Active) ~> (part # "routines" \/ i \notin R!Active)

=============================================================================
