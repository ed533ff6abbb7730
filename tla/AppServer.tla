----------------------------- MODULE AppServer ------------------------------
(***************************************************************************)
(* The connection to one user's app servers, one after another: the        *)
(* requests that wait for an answer (crates/bokkie-codex/src/client.rs),   *)
(* the threads an app server may serve and the refusals that outlive it,   *)
(* and the loop that reads what it asks and answers it                     *)
(* (crates/bokkie-gateway/src/codex/supervisor.rs: `Runtime`, `watch`).    *)
(*                                                                         *)
(* What a line holds is its kind and the thread it is about; whether a     *)
(* thread passes `guard::check_thread` is the app server's choice.  One    *)
(* tool is granted to every thread and one to none.  Lines are read as     *)
(* they are written, and what is not an answer waits for the loop.         *)
(* `config/read` is left out of a thread's checks.  An app server's        *)
(* successor starts here once its loop has ended; in the code what it      *)
(* still reads is handled by these rules with what it served itself.       *)
(***************************************************************************)
EXTENDS Integers, Sequences, FiniteSets, SequencesExt

CONSTANTS
    Threads,
    MaxServers, MaxRequests, MaxCalls   \* bounds

VARIABLES
    serial,     \* the app servers so far; the last is the one here
    alive,      \* `Runtime::alive`
    pending,    \* `Client::pending`: the ids that wait
    closed,     \* whether `pending` was taken
    ended,      \* whether its output ended
    incoming,   \* what was read and waits for the loop
    watching,   \* whether the loop runs
    served,     \* `Runtime::served`
    refused,    \* `Latch::threads`
    tainted,    \* `Latch::tainted`
    requests,   \* the requests made, by id
    calls,      \* the tool calls the app servers made
    checks      \* no code keeps it: each check of a thread, and how it went

vars == <<serial, alive, pending, closed, ended, incoming, watching, served, refused, tainted,
          requests, calls, checks>>

conn == <<serial, alive, ended, incoming, watching>>

Init ==
    /\ serial = 0 /\ alive = FALSE /\ watching = FALSE
    /\ pending = {} /\ closed = TRUE /\ ended = TRUE /\ incoming = <<>>
    /\ served = {} /\ refused = {} /\ tainted = FALSE
    /\ requests = <<>> /\ calls = <<>> /\ checks = {}

\* An app server starts in place of one that stopped, once its checks passed.
Start ==
    /\ ~alive /\ ~watching /\ ~tainted /\ serial < MaxServers
    /\ serial' = serial + 1
    /\ alive' = TRUE /\ watching' = TRUE /\ ended' = FALSE /\ closed' = FALSE
    /\ pending' = {} /\ incoming' = <<>> /\ served' = {}
    /\ UNCHANGED <<refused, tainted, requests, calls, checks>>

-----------------------------------------------------------------------------
(* Requests *)

\* A request waits in the table, and its line is queued (`request_value`).
Request(kind, t) ==
    /\ ~closed /\ Len(requests) < MaxRequests
    /\ pending' = pending \cup {Len(requests) + 1}
    /\ requests' = Append(requests, [kind |-> kind, thread |-> t, serial |-> serial,
                                     state |-> "waiting"])

\* `ensure_not_refused`
NotRefused(t) == ~tainted /\ t \notin refused

\* Mutant: a thread that passed once is served, whatever was refused since.
MayTurnServed(t) == ~tainted /\ t \in served

\* `ensure_served`
MayTurn(t) == NotRefused(t) /\ t \in served

Resume(t) ==
    /\ serial > 0 /\ NotRefused(t)
    /\ Request("resume", t)
    /\ UNCHANGED <<conn, closed, served, refused, tainted, calls, checks>>

StartTurn(t) ==
    /\ serial > 0 /\ MayTurn(t)
    /\ Request("turn", t)
    /\ UNCHANGED <<conn, closed, served, refused, tainted, calls, checks>>

\* The answer to a request comes, its result or an error; one that cannot be
\* decoded is an error too (`complete`).
Answer(i, ok) ==
    /\ ~ended /\ ~closed /\ i \in pending
    /\ pending' = pending \ {i}
    /\ requests' = [requests EXCEPT ![i].state = IF ok THEN "answered" ELSE "failed"]
    /\ UNCHANGED <<conn, closed, served, refused, tainted, calls, checks>>

\* `PendingGuard`
GivenUp(i) == pending \ {i}

\* The caller's time runs out, or it is dropped; an answer that comes later
\* finds no one (`timed`).
GiveUp(i) ==
    /\ requests[i].state = "waiting"
    /\ requests' = [requests EXCEPT ![i].state = "failed"]
    /\ pending' = IF closed THEN pending ELSE GivenUp(i)
    /\ UNCHANGED <<conn, closed, served, refused, tainted, calls, checks>>

\* Every request that waits fails, as its sender is dropped.
Failed(rs) ==
    [i \in DOMAIN rs |-> IF i \in pending THEN [rs[i] EXCEPT !.state = "failed"] ELSE rs[i]]

\* Nothing more can be written to the app server (`write_loop`), or its output
\* ends or breaks off (`read_loop`): requests fail from now on.
Close(output) ==
    /\ serial > 0 /\ ~ended /\ (closed => output)
    /\ closed' = TRUE /\ ended' = output
    /\ requests' = Failed(requests)
    /\ pending' = {}
    /\ UNCHANGED <<serial, alive, incoming, watching, served, refused, tainted, calls, checks>>

\* A thread was resumed, and is served if it passes its checks, and refused if
\* not (`Runtime::served`).
Serve(i, passes) ==
    /\ requests[i].kind = "resume" /\ requests[i].state = "answered"
    /\ requests' = [requests EXCEPT ![i].state = "done"]
    /\ LET t == requests[i].thread
           here == requests[i].serial = serial
       IN  /\ served' = IF passes /\ here THEN served \cup {t}
                        ELSE IF here THEN served \ {t} ELSE served
           /\ refused' = IF passes THEN refused ELSE refused \cup {t}
           /\ checks' = checks \cup {[serial |-> requests[i].serial, thread |-> t, ok |-> passes]}
    /\ UNCHANGED <<conn, pending, closed, tainted, calls>>

-----------------------------------------------------------------------------
(* What the app server asks *)

\* The model calls a tool, or the app server asks for an approval, which
\* breaks a safety rule.
Asks(t, what) ==
    /\ ~ended /\ serial > 0 /\ Len(calls) < MaxCalls
    /\ calls' = Append(calls, [thread |-> t, what |-> what, state |-> "asked", answers |-> 0])
    /\ incoming' = Append(incoming, Len(calls) + 1)
    /\ UNCHANGED <<serial, alive, pending, closed, ended, watching, served, refused, tainted,
                   requests, checks>>

Answered(n) == [calls EXCEPT ![n].state = "done", ![n].answers = @ + 1]

\* A rule was broken: the thread is refused, Codex tainted and the app server
\* stopped (`violation`).
Violation(t) ==
    /\ refused' = refused \cup {t} /\ served' = served \ {t}
    /\ tainted' = TRUE /\ alive' = FALSE

\* The loop handles what was read (`watch`): a granted tool's call goes to the
\* broker; any other is answered, and breaks a rule if its thread is served.
Watch ==
    /\ watching /\ incoming # <<>>
    /\ incoming' = Tail(incoming)
    /\ LET n == Head(incoming)
           call == calls[n]
       IN  \/ /\ call.what = "granted" /\ call.thread \in served
              /\ calls' = [calls EXCEPT ![n].state = "serving"]
              /\ UNCHANGED <<served, refused, tainted, alive>>
           \/ /\ call.what = "granted" \/ call.what = "other"
              /\ call.thread \notin served
              /\ calls' = Answered(n)
              /\ UNCHANGED <<served, refused, tainted, alive>>
           \/ /\ call.what = "approval" \/ (call.what = "other" /\ call.thread \in served)
              /\ calls' = Answered(n)
              /\ Violation(call.thread)
    /\ UNCHANGED <<serial, pending, closed, ended, watching, requests, checks>>

\* A reply is taken out of its slot as it is sent.
Taken(n) == IF calls[n].answers = 0 THEN [calls EXCEPT ![n].answers = @ + 1] ELSE calls

\* The broker answers a call (`ToolReply::answer`).
Reply(n) ==
    /\ calls[n].state = "serving"
    /\ calls' = Taken(n)
    /\ UNCHANGED <<conn, pending, closed, served, refused, tainted, requests, checks>>

\* It lets the reply go, which answers the call if nothing did (`ReplySlot::drop`).
Drop(n) ==
    /\ calls[n].state = "serving"
    /\ calls' = [Taken(n) EXCEPT ![n].state = "done"]
    /\ UNCHANGED <<conn, pending, closed, served, refused, tainted, requests, checks>>

\* The app server is stopped: its process is killed, and its output ends (`stop`).
Stop ==
    /\ alive /\ alive' = FALSE
    /\ UNCHANGED <<serial, pending, closed, ended, incoming, watching, served, refused, tainted,
                   requests, calls, checks>>

\* The loop ends with its messages, or once Codex is tainted; the app server
\* is killed if it still runs.
Unwatch ==
    /\ watching /\ (tainted \/ (ended /\ incoming = <<>>))
    /\ watching' = FALSE /\ alive' = FALSE
    /\ UNCHANGED <<serial, pending, closed, ended, incoming, served, refused, tainted, requests,
                   calls, checks>>

Next ==
    \/ Start \/ Watch \/ Unwatch \/ Stop
    \/ \E t \in Threads : \/ Resume(t) \/ StartTurn(t)
                          \/ \E what \in {"granted", "other", "approval"} : Asks(t, what)
    \/ \E i \in DOMAIN requests : \/ GiveUp(i)
                                  \/ \E ok \in BOOLEAN : Answer(i, ok) \/ Serve(i, ok)
    \/ \E output \in BOOLEAN : Close(output)
    \/ \E n \in DOMAIN calls : Reply(n) \/ Drop(n)

Spec == Init /\ [][Next]_vars

-----------------------------------------------------------------------------
(* Correctness *)

\* The table holds exactly the requests that wait, of this app server, and
\* none once the connection is closed: none waits for an answer that cannot
\* come, and none given up is left behind (`PendingGuard`, `read_loop`,
\* `write_loop`).
PendingIsWaiting ==
    pending = {i \in DOMAIN requests : requests[i].state = "waiting"} /\ (closed => pending = {})

\* A turn is asked for only on a thread that passed its checks on this very
\* app server, and that failed none on it or an earlier one, however its
\* checks and those of others run at once (`ensure_served`, `Latch`).
AsksCheckedTurns ==
    \A i \in DOMAIN requests' \ DOMAIN requests :
        requests'[i].kind = "turn" =>
            /\ [serial |-> serial, thread |-> requests'[i].thread, ok |-> TRUE] \in checks
            /\ \A c \in checks : c.thread = requests'[i].thread => c.ok
            /\ ~tainted

TurnsChecked == [][AsksCheckedTurns]_vars

\* Every call the app server makes is answered exactly once by the time its
\* handling ends, whether the broker answers it, lets it go or does both
\* (`ToolReply`).
AnsweredOnce ==
    \A n \in DOMAIN calls : calls[n].answers =< 1 /\ (calls[n].state = "done" => calls[n].answers = 1)

=============================================================================
