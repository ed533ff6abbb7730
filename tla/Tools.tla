------------------------------- MODULE Tools --------------------------------
(***************************************************************************)
(* The broker that runs a Bot's tool calls, each in a task of its own      *)
(* (crates/bokkie-gateway/src/tools/mod.rs): the limits on fetches         *)
(* (tools/web_fetch.rs), the Bot's notes (tools/notes.rs) and the log of   *)
(* calls with the routine runs they belong to (tools/audit.rs).            *)
(*                                                                         *)
(* One user has one Bot, which calls in several turns, each of them a      *)
(* run's.  A call is its place in `calls`.  Of what it comes to only       *)
(* whether it was refused is kept, and the notes are the calls whose text  *)
(* they hold, each as long as any other.  A Bot fetches or keeps notes     *)
(* here, not both, and may have lost the grant by any call.  Times are     *)
(* coarse, and the log's rows are never old enough to be deleted.  `seen_*`*)
(* calls and `notify`, which module Push models, are left out.             *)
(***************************************************************************)
EXTENDS Integers, Sequences, FiniteSets, SequencesExt

CONSTANTS
    Turns,                          \* the turns that call
    PerTurn, PerDay,                \* `PER_TURN`, `PER_DAY`
    MaxNotes,                       \* `notes::MAX_BYTES`, in texts
    DayMs,                          \* `DAY_MS`
    MaxTime, MaxCalls, MaxFaults    \* bounds

VARIABLES
    now,
    grants,     \* the kinds of call the Bot's grants bring its threads
    calls,      \* the calls so far, each with how far it got
    counting,   \* the call that holds `Fetcher::counting`, or 0
    inFlight,   \* `Fetcher::in_flight`
    writer,     \* the call whose write transaction is open, or 0
    notes,      \* the Bot's notes
    log,        \* the rows of `tool_calls`
    running,    \* the turns whose runs are recorded running in them
    fetched,    \* no code keeps it: the fetches made, with their times
    unseen,     \* no code keeps it: those that left the counts unseen
    faults

vars == <<now, grants, calls, counting, inFlight, writer, notes, log, running, fetched, unseen,
          faults>>

Init ==
    /\ grants \in {{"fetch"}, {"append", "replace"}}
    /\ now = 0 /\ calls = <<>>
    /\ counting = 0 /\ inFlight = {} /\ writer = 0
    /\ notes = <<>> /\ log = {} /\ running = {}
    /\ fetched = {} /\ unseen = {} /\ faults = 0

Is(i, kind, at) == calls[i].kind = kind /\ calls[i].at = at

\* A call that is over, with nothing left to read of it but what it was.
Over(kind) == [turn |-> "none", kind |-> kind, today |-> 0, inTurn |-> 0, draft |-> <<>>,
               at |-> "over", refused |-> FALSE]

Goes(i, at) == calls' = [calls EXCEPT ![i].at = at]

\* A call comes to its outcome, and is to be recorded.
Ends(i, refused) ==
    calls' = [calls EXCEPT ![i] = [Over(@.kind) EXCEPT !.turn = calls[i].turn, !.at = "ended",
                                                       !.refused = refused]]

\* A call of a turn reaches the broker, which finds the thread's Bot and that
\* it still has the grant, or that it lost it, or cannot look it up.
Call(t) ==
    /\ Len(calls) < MaxCalls
    /\ \E kind \in grants :
        LET call == [Over(kind) EXCEPT !.turn = t, !.at = "served"] IN
        \/ calls' = Append(calls, call) /\ UNCHANGED faults
        \/ calls' = Append(calls, [call EXCEPT !.at = "ended", !.refused = TRUE])
           /\ UNCHANGED faults
        \/ faults < MaxFaults /\ faults' = faults + 1 /\ calls' = Append(calls, Over(kind))
    /\ UNCHANGED <<now, grants, counting, inFlight, writer, notes, log, running, fetched, unseen>>

-----------------------------------------------------------------------------
(* Fetches *)

\* A link that does not parse ends a fetch before it is counted.
BadLink(i) ==
    /\ Is(i, "fetch", "served")
    /\ Ends(i, FALSE)
    /\ UNCHANGED <<counting, inFlight, fetched, unseen>>

\* The fetches the log has: those that were not refused.
Logged(rows) == Cardinality({row \in rows : row.kind = "fetch" /\ ~row.refused})

\* `reserve` has its turn to count, and reads the day's fetches...
CountDay(i) ==
    /\ Is(i, "fetch", "served") /\ counting = 0
    /\ counting' = i
    /\ calls' = [calls EXCEPT ![i].at = "counting",
                              ![i].today = Logged({row \in log : row.time > now - DayMs})]
    /\ UNCHANGED <<inFlight, fetched, unseen>>

\* ... then the turn's.
CountTurn(i) ==
    /\ Is(i, "fetch", "counting")
    /\ calls' = [calls EXCEPT ![i].at = "counted",
                              ![i].inTurn = Logged({row \in log : row.turn = calls[i].turn})]
    /\ UNCHANGED <<counting, inFlight, fetched, unseen>>

\* Either may fail, which refuses the fetch.
CountFails(i) ==
    /\ calls[i].at \in {"counting", "counted"} /\ faults < MaxFaults
    /\ Ends(i, TRUE)
    /\ counting' = 0 /\ faults' = faults + 1
    /\ UNCHANGED <<now, grants, inFlight, writer, notes, log, running, fetched, unseen>>

\* Mutant: only what the log has is counted.
HasPlaceLogged(i) == calls[i].inTurn < PerTurn /\ calls[i].today < PerDay

\* Whether a fetch is within both limits, with those still running.
HasPlace(i) ==
    /\ calls[i].inTurn + Cardinality({j \in inFlight : calls[j].turn = calls[i].turn}) < PerTurn
    /\ calls[i].today + Cardinality(inFlight) < PerDay

\* A fetch takes its place, or is refused.
Reserve(i) ==
    /\ Is(i, "fetch", "counted")
    /\ counting' = 0
    /\ IF HasPlace(i)
       THEN /\ calls' = [calls EXCEPT ![i].at = "fetching", ![i].today = 0, ![i].inTurn = 0]
            /\ inFlight' = inFlight \cup {i}
            /\ fetched' = fetched \cup {[call |-> i, turn |-> calls[i].turn, time |-> now]}
       ELSE Ends(i, TRUE) /\ UNCHANGED <<inFlight, fetched>>
    /\ UNCHANGED unseen

Fetch(i) ==
    /\ Is(i, "fetch", "fetching")
    /\ Ends(i, FALSE)
    /\ UNCHANGED <<counting, inFlight, fetched, unseen>>

FetchStep(i) ==
    \/ /\ BadLink(i) \/ CountDay(i) \/ CountTurn(i) \/ Reserve(i) \/ Fetch(i)
       /\ UNCHANGED <<now, grants, writer, notes, log, running, faults>>
    \/ CountFails(i)

-----------------------------------------------------------------------------
(* Notes *)

rest == <<now, grants, counting, inFlight, log, running, fetched, unseen, faults>>

\* `notes_replace` writes in one statement, unless the text is too long, the
\* write fails or it runs out of time.
Replace(i) ==
    /\ Is(i, "replace", "served") /\ writer = 0
    /\ notes' \in {notes, <<i>>}
    /\ Ends(i, FALSE)
    /\ UNCHANGED <<rest, writer>>

\* `db::write`: one write transaction at a time.
MayAppend == writer = 0

\* `notes_append` opens its transaction, and reads the notes in it.
BeginAppend(i) ==
    /\ Is(i, "append", "served") /\ MayAppend
    /\ writer' = i
    /\ calls' = [calls EXCEPT ![i].at = "writing", ![i].draft = notes]
    /\ UNCHANGED <<rest, notes>>

\* The longer text is written and committed; or it would be too long, or the
\* deadline passes, before the commit or after it.
EndAppend(i) ==
    /\ Is(i, "append", "writing")
    /\ writer' = IF writer = i THEN 0 ELSE writer
    /\ \/ notes' = notes
       \/ Len(calls[i].draft) < MaxNotes /\ notes' = Append(calls[i].draft, i)
    /\ Ends(i, FALSE)
    /\ UNCHANGED rest

\* The Bot's owner clears its notes.
ClearNotes ==
    /\ writer = 0 /\ notes # <<>>
    /\ notes' = <<>>
    /\ UNCHANGED <<rest, calls, writer>>

-----------------------------------------------------------------------------
(* The log *)

Row(i) ==
    [call |-> i, turn |-> calls[i].turn, kind |-> calls[i].kind, refused |-> calls[i].refused,
     time |-> now, run |-> calls[i].turn \in running]

\* A call is recorded, with the run already recorded running in its turn; or
\* the write fails, which is only logged.
Record(i) ==
    /\ calls[i].at = "ended"
    /\ Goes(i, "recorded")
    /\ \/ writer = 0 /\ log' = log \cup {Row(i)} /\ UNCHANGED <<unseen, faults>>
       \/ faults < MaxFaults /\ faults' = faults + 1 /\ log' = log
          /\ unseen' = unseen \cup ({i} \cap inFlight)
    /\ UNCHANGED <<now, grants, counting, inFlight, writer, notes, running, fetched>>

LetsGo(i) == calls[i].at = "recorded"

\* A fetch that was recorded lets its place in the counts go. One that does
\* so while another counts may be in neither of what that reads.
Release(i) ==
    /\ LetsGo(i) /\ i \in inFlight
    /\ inFlight' = inFlight \ {i}
    /\ unseen' = IF counting = 0 THEN unseen ELSE unseen \cup {i}
    /\ UNCHANGED <<now, grants, calls, counting, writer, notes, log, running, fetched, faults>>

\* The call is answered.
Answer(i) ==
    /\ calls[i].at = "recorded" /\ i \notin inFlight
    /\ calls' = [calls EXCEPT ![i] = Over(calls[i].kind)]
    /\ UNCHANGED <<rest, writer, notes>>

\* `attribute_to_run`
Attributed(t) == {[row EXCEPT !.run = row.run \/ row.turn = t] : row \in log}

\* The run of a turn is recorded running in it, and has the calls made before.
SetRunning(t) ==
    /\ t \notin running /\ writer = 0
    /\ running' = running \cup {t}
    /\ log' = Attributed(t)
    /\ UNCHANGED <<now, grants, calls, counting, inFlight, writer, notes, fetched, unseen, faults>>

Clock ==
    /\ now < MaxTime /\ now' = now + 1
    /\ UNCHANGED <<grants, calls, counting, inFlight, writer, notes, log, running, fetched,
                   unseen, faults>>

\* The gateway restarts: the calls in hand, and the open transaction, are lost.
Restart ==
    /\ faults < MaxFaults /\ faults' = faults + 1
    /\ calls' = [i \in DOMAIN calls |-> Over(calls[i].kind)]
    /\ counting' = 0 /\ inFlight' = {} /\ writer' = 0
    /\ unseen' = unseen \cup inFlight
    /\ UNCHANGED <<now, grants, notes, log, running, fetched>>

CallStep(i) ==
    \/ FetchStep(i) \/ Replace(i) \/ BeginAppend(i) \/ EndAppend(i)
    \/ Record(i) \/ Release(i) \/ Answer(i)

Next ==
    \/ \E t \in Turns : Call(t)
    \/ \E i \in DOMAIN calls : CallStep(i)
    \/ \E t \in Turns : SetRunning(t)
    \/ ClearNotes \/ Clock \/ Restart

Spec == Init /\ [][Next]_vars

-----------------------------------------------------------------------------
(* Properties *)

Within(made, limit) ==
    Cardinality(made) <= limit + Cardinality({f \in made : f.call \in unseen})

\* A turn fetches no more than it may, nor its user in a day, but for the
\* fetches that no count saw: one that could not be recorded, one that was
\* lost in a restart, and one recorded and let go while another was counted,
\* between what `reserve` reads in the log and in memory.
FetchLimitKept ==
    /\ \A t \in Turns : Within({f \in fetched : f.turn = t}, PerTurn)
    /\ Within({f \in fetched : f.time > now - DayMs}, PerDay)

\* With no failure a turn fetches no more than it may: the description the
\* model is given says "60 fetches a turn and 500 a day", and the lock is
\* there "so that two fetches cannot both take the last place".
FetchesPerTurn ==
    faults = 0 => \A t \in Turns : Cardinality({f \in fetched : f.turn = t}) <= PerTurn

\* A run has the calls its turn made before it was recorded running and
\* after, as `record` and `attribute_to_run` share them out.
RunHasItsCalls == \A row \in log : row.turn \in running => row.run

\* What a Bot noted is lost only to a replacement or to its owner: appends
\* made at once do not overwrite each other (`append_tool`).
KeepsNotes ==
    \/ IsPrefix(notes, notes')
    \/ notes' = <<>>
    \/ \E i \in DOMAIN calls : calls[i].kind = "replace" /\ notes' = <<i>>

NotesOnlyReplaced == [][KeepsNotes]_vars
=============================================================================
