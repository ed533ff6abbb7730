----------------------------- MODULE EventStream -----------------------------
(***************************************************************************)
(* A user's pages following the event log: the WebSocket task that replays *)
(* and then forwards the log (bokkie-gateway/src/routes/events.rs), the    *)
(* connection policy of the page (bokkie-web/src/connection.rs, carried    *)
(* out by browser/socket.rs) and the network between them.                 *)
(*                                                                         *)
(* A page has one socket at a time and drops every callback of the one     *)
(* before it (`close_socket`), so what is left of an abandoned socket's    *)
(* task can reach nobody and is not modelled.  Timers fire at any moment   *)
(* after they are set; retry delays are therefore not counted.             *)
(***************************************************************************)
EXTENDS EventLog, SequencesExt

CONSTANTS
    ReplayPage,     \* rows one replay query reads
    RefusalLimit,   \* UNREADABLE_LIMIT: refusals in a row that stop the page
    LookupsFail,    \* whether a session lookup may fail, as a locked database makes it
    MaxFaults,      \* bound: network failures, gateway errors and restarts
    MaxPings        \* bound: pings a page sends

ASSUME StreamAssumption ==
    /\ Conns # {}
    /\ ReplayPage \in Nat \ {0}
    /\ RefusalLimit \in Nat \ {0}
    /\ LookupsFail \in BOOLEAN
    /\ MaxFaults \in Nat
    /\ MaxPings \in Nat

VARIABLES
    server,    \* each connection's task on the gateway
    up,        \* frames on their way to the gateway
    down,      \* frames on their way to the page
    link,      \* whether the socket carries frames
    client,    \* each page's Connection
    app,       \* the last command the page's application was given
    session,   \* whether each page's session holds
    faults     \* failures so far

logVars == <<body, issued, lock, cached, batch, queue>>
rowVars == <<body, issued, lock, batch>>
streamVars == <<server, up, down, link, client, app, session, faults>>
allVars == <<body, issued, lock, cached, batch, queue,
             server, up, down, link, client, app, session, faults>>

-----------------------------------------------------------------------------
(* Frames, tasks and pages.                                                 *)

EventFrame(s) == [type |-> "event", seq |-> s, by |-> body[s]]
LiveFrame(s) == [type |-> "live", seq |-> s]
ResetFrame(s) == [type |-> "reset", seq |-> s]
CloseFrame(code) == [type |-> "close", code |-> code]
Pong == [type |-> "pong"]
Resume(after) == [type |-> "resume", after |-> after]
Ping == [type |-> "ping"]

Positions == 0..MaxSeq
Codes == {"protocol", "lagged", "signed_out"}
DownFrames ==
    [type : {"event"}, seq : Seqs, by : Writers \cup {NoOne}]
    \cup [type : {"live", "reset"}, seq : Positions]
    \cup [type : {"close"}, code : Codes] \cup {Pong}
UpFrames == [type : {"resume"}, after : Positions \cup {NoSeq}] \cup {Ping}

NoServer == [phase |-> "none", after |-> NoSeq, latest |-> 0, sent |-> 0]
ServerPhases == {"none", "resume", "latest", "earliest", "replay", "settle", "live"}

\* `Connection::new`, with the page shown.
NewClient ==
    [state |-> "stopped", last |-> NoSeq, synced |-> FALSE, awaiting |-> FALSE,
     timer |-> FALSE, refusals |-> 0, checks |-> {}, hidden |-> FALSE, pings |-> 0]
ClientStates ==
    {"stopped", "connecting", "resuming", "replaying", "live", "backing_off",
     "signed_out", "outdated"}
\* A page's questions about its session, and the answers that it has ended;
\* questions asked at one time, and answers, are not told apart.
Checks == {"asked", "ended"}
OnSocket == {"resuming", "replaying", "live"}

StreamTypeOK ==
    /\ TypeOK
    /\ server \in [Conns -> [phase : ServerPhases, after : Positions \cup {NoSeq},
                             latest : Positions, sent : Positions]]
    /\ up \in [Conns -> Seq(UpFrames)]
    /\ down \in [Conns -> Seq(DownFrames)]
    /\ link \in [Conns -> {"none", "up", "broken", "silent"}]
    /\ client \in [Conns -> [state : ClientStates, last : Positions \cup {NoSeq},
                             synced : BOOLEAN, awaiting : BOOLEAN, timer : BOOLEAN,
                             refusals : 0..RefusalLimit, checks : SUBSET Checks,
                             hidden : BOOLEAN, pings : 0..MaxPings]]
    /\ app \in [Conns -> [op : {"none", "apply", "reload"}, seq : Positions \cup {NoSeq},
                          by : Writers \cup {NoOne}]]
    /\ session \in [Conns -> BOOLEAN]
    /\ faults \in 0..MaxFaults

NoCommand == [op |-> "none", seq |-> NoSeq, by |-> NoOne]

StreamInit ==
    /\ Init
    /\ server = [c \in Conns |-> NoServer]
    /\ up = [c \in Conns |-> <<>>]
    /\ down = [c \in Conns |-> <<>>]
    /\ link = [c \in Conns |-> "none"]
    /\ client = [c \in Conns |-> NewClient]
    /\ app = [c \in Conns |-> NoCommand]
    /\ session = [c \in Conns |-> TRUE]
    /\ faults = 0

-----------------------------------------------------------------------------
(* The gateway's task for a connection (`serve`).                           *)

\* A frame sent on a socket that no longer carries any is lost.
Sends(c, frames) ==
    down' = IF link[c] = "up" THEN [down EXCEPT ![c] = @ \o frames] ELSE down

\* The task ends: its receiver is dropped.
Ends(c) ==
    /\ server' = [server EXCEPT ![c] = NoServer]
    /\ queue' = [queue EXCEPT ![c] = Closed]
    /\ UNCHANGED <<rowVars, cached>>

\* `close`: a close frame with its code, then the task ends.
ClosesWith(c, code) ==
    /\ Ends(c)
    /\ Sends(c, <<CloseFrame(code)>>)
    /\ UNCHANGED <<up, link, client, app, session, faults>>

\* The first frame, and the subscription before anything is read.
ReadResume(c) ==
    /\ server[c].phase = "resume"
    /\ up[c] # <<>>
    /\ up' = [up EXCEPT ![c] = Tail(@)]
    /\ Subscribe(c)
    /\ server' = [server EXCEPT ![c].phase = "latest", ![c].after = Head(up[c]).after]
    /\ UNCHANGED <<down, link, client, app, session, faults>>

\* `latest` waits for the log's lock: for the end of a batch being broadcast.
ReadLatest(c) ==
    /\ server[c].phase = "latest"
    /\ Latest
    /\ server' = [server EXCEPT
          ![c].latest = LatestValue,
          ![c].sent = LatestValue,
          ![c].phase = IF server[c].after = NoSeq THEN "settle" ELSE "earliest"]
    /\ UNCHANGED <<up, down, link, client, app, session, faults>>

\* Whether the log no longer holds the event after the page's position.
Dropped(s) == s.after < s.latest /\ (Stored = {} \/ s.after + 1 < Earliest)

\* A position the log cannot replay from is answered with a reset; any other
\* is replayed.
ReadEarliest(c) ==
    /\ server[c].phase = "earliest"
    /\ IF server[c].after > server[c].latest \/ Dropped(server[c])
       THEN /\ server' = [server EXCEPT ![c].phase = "settle"]
            /\ Sends(c, <<ResetFrame(server[c].latest)>>)
       ELSE /\ server' = [server EXCEPT ![c].phase = "replay", ![c].sent = server[c].after]
            /\ UNCHANGED down
    /\ UNCHANGED <<logVars, up, link, client, app, session, faults>>

\* The rows of a page that are sent, in order, as frames.
PageFrames(page, latest) ==
    LET wanted == {s \in page : s <= latest}
    IN IF wanted = {} THEN <<>>
       ELSE [i \in 1..Cardinality(wanted) |->
                EventFrame(CHOOSE s \in wanted : Cardinality({t \in wanted : t <= s}) = i)]

\* One page of the replay.  A page that does not start at the next number had
\* its first rows pruned since the check; an empty one ends the replay.
ReplayOnePage(c) ==
    /\ server[c].phase = "replay"
    /\ LET s == server[c]
           page == Since(s.sent, ReplayPage)
           settled == [s EXCEPT !.phase = "settle", !.sent = s.latest]
       IN IF s.sent >= s.latest \/ page = {}
          THEN /\ server' = [server EXCEPT ![c] = settled]
               /\ UNCHANGED down
          ELSE IF Min(page) # s.sent + 1
          THEN /\ server' = [server EXCEPT ![c] = settled]
               /\ Sends(c, <<ResetFrame(s.latest)>>)
          ELSE /\ server' = [server EXCEPT
                      ![c].sent = IF Max(page) < s.latest THEN Max(page) ELSE s.latest]
               /\ Sends(c, PageFrames(page, s.latest))
    /\ UNCHANGED <<logVars, up, link, client, app, session, faults>>

\* Slip: the receiver is made when the replay is over.
GoLiveUnsubscribed(c) ==
    /\ server[c].phase = "settle"
    /\ Sends(c, <<LiveFrame(server[c].sent)>>)
    /\ server' = [server EXCEPT ![c].phase = "live"]
    /\ queue' = [queue EXCEPT ![c] = [Closed EXCEPT !.open = TRUE]]
    /\ UNCHANGED <<rowVars, cached, up, link, client, app, session, faults>>

\* The frame between the replay and the live events.
GoLive(c) ==
    /\ server[c].phase = "settle"
    /\ Sends(c, <<LiveFrame(server[c].sent)>>)
    /\ server' = [server EXCEPT ![c].phase = "live"]
    /\ UNCHANGED <<logVars, up, link, client, app, session, faults>>

\* A live event: one replayed already is skipped, the next one is sent.
Forward(c) ==
    /\ server[c].phase = "live"
    /\ queue[c].events # <<>>
    /\ LET event == Head(queue[c].events)
       IN /\ event.seq <= server[c].sent + 1
          /\ Receive(c)
          /\ IF event.seq <= server[c].sent
             THEN UNCHANGED <<server, down>>
             ELSE /\ server' = [server EXCEPT ![c].sent = event.seq]
                  /\ Sends(c, <<[type |-> "event", seq |-> event.seq, by |-> event.by]>>)
    /\ UNCHANGED <<up, link, client, app, session, faults>>

\* A hole in the live events, or a receiver that fell behind: the page is told
\* to resume.
FallBehind(c) ==
    /\ server[c].phase = "live"
    /\ \/ queue[c].lagged
       \/ queue[c].events # <<>> /\ Head(queue[c].events).seq > server[c].sent + 1
    /\ ClosesWith(c, "lagged")

AnswerPing(c) ==
    /\ server[c].phase = "live"
    /\ up[c] # <<>>
    /\ up' = [up EXCEPT ![c] = Tail(@)]
    /\ Sends(c, <<Pong>>)
    /\ UNCHANGED <<logVars, server, link, client, app, session, faults>>

\* The periodic check of a session that has ended.
CheckSession(c) ==
    /\ server[c].phase = "live"
    /\ ~session[c]
    /\ ClosesWith(c, "signed_out")

\* A lookup that fails is read as a session that has ended.
LookupFails(c) ==
    /\ LookupsFail
    /\ server[c].phase = "live"
    /\ session[c]
    /\ faults < MaxFaults
    /\ faults' = faults + 1
    /\ Ends(c)
    /\ Sends(c, <<CloseFrame("signed_out")>>)
    /\ UNCHANGED <<up, link, client, app, session>>

\* The page opened the socket and did not resume in time.
ResumeTimeout(c) ==
    /\ server[c].phase = "resume"
    /\ faults < MaxFaults
    /\ faults' = faults + 1
    /\ Ends(c)
    /\ Sends(c, <<CloseFrame("protocol")>>)
    /\ UNCHANGED <<up, link, client, app, session>>

\* A query fails, or the socket is found dead or stuck: the task just ends.
TaskFails(c) ==
    /\ server[c].phase # "none"
    /\ \/ link[c] # "up" /\ UNCHANGED faults
       \/ link[c] = "up" /\ faults < MaxFaults /\ faults' = faults + 1
    /\ Ends(c)
    /\ link' = [link EXCEPT ![c] = IF @ = "up" THEN "broken" ELSE @]
    /\ UNCHANGED <<up, down, client, app, session>>

Serve(c) ==
    \/ ReadResume(c) \/ ReadLatest(c) \/ ReadEarliest(c) \/ ReplayOnePage(c)
    \/ GoLive(c) \/ Forward(c) \/ FallBehind(c) \/ AnswerPing(c)

-----------------------------------------------------------------------------
(* The page's connection (`Connection::transition`).                        *)

\* What the page's connection becomes; the application is told nothing.
Becomes(c, new) ==
    /\ client' = [client EXCEPT ![c] = new]
    /\ UNCHANGED app

Tells(c, new, command) ==
    /\ client' = [client EXCEPT ![c] = new]
    /\ app' = [app EXCEPT ![c] = command]

\* The page detaches its socket, and whatever it carried is lost to it.
Detaches(c) ==
    /\ link' = [link EXCEPT ![c] = "none"]
    /\ up' = [up EXCEPT ![c] = <<>>]
    /\ down' = [down EXCEPT ![c] = <<>>]
    /\ Ends(c)

Keeps(c) == UNCHANGED <<logVars, server, up, link>>

\* A frame for a page whose socket is open; any frame answers a ping.
Arrives(c, type) ==
    /\ client[c].state \in OnSocket
    /\ down[c] # <<>>
    /\ Head(down[c]).type = type

Taken(c) == down' = [down EXCEPT ![c] = Tail(@)]
Heard(c) == [client[c] EXCEPT !.awaiting = FALSE]
Caught(c) == [Heard(c) EXCEPT !.state = IF @ = "resuming" THEN "replaying" ELSE @]

\* Slip: an answer to the earlier sign-in's question is still listened to.
StartKeepsQuestion(c) ==
    /\ client[c].state \in {"stopped", "signed_out", "outdated"}
    /\ Becomes(c, [NewClient EXCEPT !.state = "connecting", !.hidden = client[c].hidden,
                                    !.checks = client[c].checks])
    /\ session' = [session EXCEPT ![c] = TRUE]
    /\ Detaches(c)
    /\ UNCHANGED faults

\* `start`: the page signs in, with a new session and a new connection.
Start(c) ==
    /\ client[c].state \in {"stopped", "signed_out", "outdated"}
    /\ Becomes(c, [NewClient EXCEPT !.state = "connecting", !.hidden = client[c].hidden])
    /\ session' = [session EXCEPT ![c] = TRUE]
    /\ Detaches(c)
    /\ UNCHANGED faults

\* `stop`: the page signs out.
Stop(c) ==
    /\ client[c].state \notin {"stopped", "signed_out"}
    /\ Becomes(c, [client[c] EXCEPT !.state = "stopped", !.timer = FALSE, !.checks = {}])
    /\ Detaches(c)
    /\ UNCHANGED <<session, faults>>

\* The gateway accepts the upgrade and the page resumes from its position.
Opened(c) ==
    /\ client[c].state = "connecting"
    /\ session[c]
    /\ Becomes(c, [client[c] EXCEPT !.state = "resuming"])
    /\ link' = [link EXCEPT ![c] = "up"]
    /\ up' = [up EXCEPT ![c] = <<Resume(client[c].last)>>]
    /\ server' = [server EXCEPT ![c] = [NoServer EXCEPT !.phase = "resume"]]
    /\ UNCHANGED <<logVars, down, session, faults>>

\* Slip: the page only backs off, and never asks why.
NotOpenedUnasked(c) ==
    /\ client[c].state = "connecting"
    /\ \/ ~session[c] /\ UNCHANGED faults
       \/ session[c] /\ faults < MaxFaults /\ faults' = faults + 1
    /\ Becomes(c, [client[c] EXCEPT !.state = "backing_off"])
    /\ UNCHANGED <<logVars, server, up, down, link, session>>

\* A socket that does not open may have been refused for its session: the
\* page backs off and asks over HTTP.
NotOpened(c) ==
    /\ client[c].state = "connecting"
    /\ \/ ~session[c] /\ UNCHANGED faults
       \/ session[c] /\ faults < MaxFaults /\ faults' = faults + 1
    /\ Becomes(c, [client[c] EXCEPT !.state = "backing_off", !.checks = @ \cup {"asked"}])
    /\ UNCHANGED <<logVars, server, up, down, link, session>>

\* The gateway looks the session up; an answer that it holds changes nothing.
SessionLookup(c) ==
    /\ "asked" \in client[c].checks
    /\ Becomes(c, [client[c] EXCEPT
          !.checks = (@ \ {"asked"}) \cup (IF session[c] THEN {} ELSE {"ended"})])
    /\ UNCHANGED <<logVars, server, up, down, link, session, faults>>

\* A 401 ends the connection wherever it has got to meanwhile.
SessionAnswer(c) ==
    /\ "ended" \in client[c].checks
    /\ IF client[c].state = "outdated"
       THEN /\ Becomes(c, [client[c] EXCEPT !.checks = @ \ {"ended"}])
            /\ UNCHANGED <<logVars, server, up, down, link>>
       ELSE /\ Becomes(c, [client[c] EXCEPT !.checks = @ \ {"ended"}, !.state = "signed_out"])
            /\ Detaches(c)
    /\ UNCHANGED <<session, faults>>

RetryDue(c) ==
    /\ client[c].state = "backing_off"
    /\ Becomes(c, [client[c] EXCEPT !.state = "connecting", !.awaiting = FALSE])
    /\ UNCHANGED <<logVars, server, up, down, link, session, faults>>

\* Slip: an event is passed on unless it is a duplicate.
PassOnAnything(c) ==
    /\ Arrives(c, "event")
    /\ LET frame == Head(down[c])
       IN /\ client[c].last = NoSeq \/ frame.seq > client[c].last
          /\ Tells(c, [Caught(c) EXCEPT !.last = frame.seq],
                   [op |-> "apply", seq |-> frame.seq, by |-> frame.by])
    /\ Taken(c)
    /\ Keeps(c)

\* The next event is passed on to the application.
PassOn(c) ==
    /\ Arrives(c, "event")
    /\ LET frame == Head(down[c])
       IN /\ client[c].last \in {NoSeq, frame.seq - 1}
          /\ Tells(c, [Caught(c) EXCEPT !.last = frame.seq],
                   [op |-> "apply", seq |-> frame.seq, by |-> frame.by])
    /\ Taken(c)
    /\ Keeps(c)

\* An event passed on before is dropped.
DropDuplicate(c) ==
    /\ Arrives(c, "event")
    /\ client[c].last # NoSeq
    /\ Head(down[c]).seq <= client[c].last
    /\ Becomes(c, Heard(c))
    /\ Taken(c)
    /\ Keeps(c)

\* Events are missing: the page gives the socket up and resumes later.
GiveUp(c) ==
    /\ \/ /\ Arrives(c, "event")
          /\ Head(down[c]).seq > client[c].last + 1
       \/ /\ Arrives(c, "live")
          /\ client[c].state # "live"
          /\ Head(down[c]).seq > client[c].last
    /\ client[c].last # NoSeq
    /\ Becomes(c, [Heard(c) EXCEPT !.state = "backing_off"])
    /\ Detaches(c)

\* The replay is over.  A page that never synchronised reloads everything now,
\* as does one whose log fell behind it.
TurnLive(c) ==
    /\ Arrives(c, "live")
    /\ client[c].state # "live"
    /\ LET latest == Head(down[c]).seq
           live == [Heard(c) EXCEPT !.state = "live", !.last = latest, !.refusals = 0]
       IN /\ client[c].last = NoSeq \/ client[c].last >= latest
          /\ IF ~client[c].synced \/ client[c].last > latest
             THEN Tells(c, [live EXCEPT !.synced = TRUE],
                        [op |-> "reload", seq |-> latest, by |-> NoOne])
             ELSE Becomes(c, live)
    /\ Taken(c)
    /\ Keeps(c)

\* The log cannot be resumed from the page's position: everything is reloaded.
ReloadAll(c) ==
    /\ Arrives(c, "reset")
    /\ Tells(c, [Caught(c) EXCEPT !.last = Head(down[c]).seq, !.synced = TRUE],
             [op |-> "reload", seq |-> Head(down[c]).seq, by |-> NoOne])
    /\ Taken(c)
    /\ Keeps(c)

HearPong(c) ==
    /\ Arrives(c, "pong")
    /\ Becomes(c, Heard(c))
    /\ Taken(c)
    /\ Keeps(c)

\* The gateway closed the socket and said why.
ToldClosed(c) ==
    /\ Arrives(c, "close")
    /\ LET code == Head(down[c]).code
           refusals == client[c].refusals + (IF code = "protocol" THEN 1 ELSE 0)
           next == CASE code = "signed_out" -> "signed_out"
                     [] code = "protocol" /\ refusals >= RefusalLimit -> "outdated"
                     [] OTHER -> "backing_off"
       IN Becomes(c, [client[c] EXCEPT !.state = next, !.refusals = refusals])
    /\ Detaches(c)

\* The socket fails with no code, once what had arrived is read.
FindClosed(c) ==
    /\ client[c].state \in OnSocket
    /\ link[c] = "broken"
    /\ down[c] = <<>>
    /\ Becomes(c, [client[c] EXCEPT !.state = "backing_off"])
    /\ Detaches(c)

Hide(c) ==
    /\ ~client[c].hidden
    /\ client[c].pings < MaxPings
    /\ Becomes(c, [client[c] EXCEPT !.hidden = TRUE])
    /\ UNCHANGED <<logVars, server, up, down, link, session, faults>>

\* A page shown again connects at once, or pings a socket that may have died.
Show(c) ==
    /\ client[c].hidden
    /\ LET shown == [client[c] EXCEPT !.hidden = FALSE]
           pings == client[c].state = "live"
       IN Becomes(c,
            CASE pings -> [shown EXCEPT !.pings = @ + 1, !.awaiting = TRUE, !.timer = TRUE]
              [] client[c].state = "backing_off" ->
                    [shown EXCEPT !.state = "connecting", !.awaiting = FALSE]
              [] OTHER -> shown)
    /\ up' = IF client[c].state = "live" /\ link[c] = "up"
             THEN [up EXCEPT ![c] = Append(@, Ping)] ELSE up
    /\ UNCHANGED <<logVars, server, down, link, session, faults>>

\* The ping's deadline.  The page keeps one timer, for its last ping.
PongOverdue(c) ==
    /\ client[c].timer
    /\ IF client[c].state = "live" /\ client[c].awaiting
       THEN /\ Becomes(c, [client[c] EXCEPT !.timer = FALSE, !.awaiting = FALSE,
                                            !.state = "backing_off"])
            /\ Detaches(c)
       ELSE /\ Becomes(c, [client[c] EXCEPT !.timer = FALSE])
            /\ UNCHANGED <<logVars, server, up, down, link>>
    /\ UNCHANGED <<session, faults>>

Hear(c) ==
    /\ \/ PassOn(c) \/ DropDuplicate(c) \/ GiveUp(c) \/ TurnLive(c) \/ ReloadAll(c)
       \/ HearPong(c) \/ ToldClosed(c) \/ FindClosed(c)
    /\ UNCHANGED <<session, faults>>

Connect(c) == Opened(c) \/ NotOpened(c)

-----------------------------------------------------------------------------
(* What the network, the gateway's operator and other devices do.           *)

Fails ==
    /\ faults < MaxFaults
    /\ faults' = faults + 1

\* A connection fails: what is in flight arrives in part, and the page will be
\* told.
Break(c) ==
    /\ link[c] = "up"
    /\ Fails
    /\ \E n \in 0..Len(down[c]) : down' = [down EXCEPT ![c] = SubSeq(@, 1, n)]
    /\ link' = [link EXCEPT ![c] = "broken"]
    /\ UNCHANGED <<logVars, server, up, client, app, session>>

\* A live socket dies while the page is hidden, and the page is not told.  What
\* had arrived is taken to be handled before the page is shown.
DieUnseen(c) ==
    /\ link[c] = "up"
    /\ client[c].hidden /\ client[c].state = "live"
    /\ Fails
    /\ down' = [down EXCEPT ![c] = <<>>]
    /\ link' = [link EXCEPT ![c] = "silent"]
    /\ UNCHANGED <<logVars, server, up, client, app, session>>

\* An event is lost or repeated on its way.  No socket should: the page guards
\* against one that does ("this socket cannot be trusted").
Mangle(c) ==
    /\ Fails
    /\ \E i \in DOMAIN down[c] :
          /\ down[c][i].type = "event"
          /\ \/ down' = [down EXCEPT ![c] = RemoveAt(@, i)]
             \/ down' = [down EXCEPT ![c] = InsertAt(@, i, down[c][i])]
    /\ UNCHANGED <<logVars, server, up, link, client, app, session>>

\* The session ends elsewhere: revoked, or its account disabled.
Revoke(c) ==
    /\ session[c]
    /\ client[c].state # "stopped"
    /\ session' = [session EXCEPT ![c] = FALSE]
    /\ UNCHANGED <<logVars, server, up, down, link, client, app, faults>>

GatewayRestarts ==
    /\ Fails
    /\ Restart
    /\ server' = [c \in Conns |-> NoServer]
    /\ link' = [c \in Conns |-> IF link[c] = "up" THEN "broken" ELSE link[c]]
    /\ UNCHANGED <<up, down, client, app, session>>

LogStep(w) == Step(w) /\ UNCHANGED streamVars

\* Other readers of the log's end: the HTTP snapshots.
OtherReader == Latest /\ UNCHANGED streamVars

GatewayStep(c) ==
    Serve(c) \/ CheckSession(c) \/ LookupFails(c) \/ ResumeTimeout(c) \/ TaskFails(c)

PageStep(c) ==
    \/ Hear(c) \/ Connect(c) \/ RetryDue(c) \/ SessionLookup(c) \/ SessionAnswer(c) \/ PongOverdue(c)
    \/ Hide(c) \/ Show(c) \/ Start(c) \/ Stop(c)

StreamNext ==
    \/ \E w \in Writers : LogStep(w)
    \/ OtherReader
    \/ \E c \in Conns : GatewayStep(c) \/ PageStep(c)
    \/ \E c \in Conns : Break(c) \/ DieUnseen(c) \/ Revoke(c)
    \/ GatewayRestarts

\* With sockets that lose or repeat events.
UntrustedNext == StreamNext \/ \E c \in Conns : Mangle(c)

\* A batch ends one way or another, tasks and callbacks run, timers fire, the
\* page is shown again some day; the log's lock is given in turn (a tokio mutex
\* is a queue).  Nobody has to sign in, out or append.
Ending(w) ==
    Commit(w) \/ Rollback(w) \/ Broadcast(w) \/ Release(w)

StreamFairness ==
    /\ \A w \in Writers : WF_allVars(Ending(w) /\ UNCHANGED streamVars)
    /\ \A c \in Conns :
          /\ WF_allVars(Serve(c))
          /\ SF_allVars(ReadLatest(c))
          /\ WF_allVars(CheckSession(c))
          /\ WF_allVars(Hear(c))
          /\ WF_allVars(Connect(c))
          /\ WF_allVars(RetryDue(c))
          /\ WF_allVars(SessionLookup(c))
          /\ WF_allVars(SessionAnswer(c))
          /\ WF_allVars(PongOverdue(c))
          /\ WF_allVars(Show(c))

StreamSpec == StreamInit /\ [][StreamNext]_allVars
FairStreamSpec == StreamSpec /\ StreamFairness
UntrustedSpec == StreamInit /\ [][UntrustedNext]_allVars

-----------------------------------------------------------------------------
(* Properties.                                                              *)

\* The events a page has been sent and has not read, or is about to be sent.
InFlight(c) ==
    {down[c][i].seq : i \in {j \in DOMAIN down[c] : down[c][j].type = "event"}}
    \cup {queue[c].events[i].seq : i \in DOMAIN queue[c].events}

\* A live page misses nothing: every event broadcast after its position is on
\* its way to it, whatever was committed or pruned while it resumed.
EventsOnTheirWay ==
    \A c \in Conns :
        (/\ client[c].state = "live"
         /\ server[c].phase = "live"
         /\ link[c] = "up"
         /\ ~queue[c].lagged)
        => (client[c].last + 1)..Frontier \subseteq InFlight(c)

\* A page says it is signed out only if its session has ended ("the gateway
\* closed the socket because the session ended"): a late answer or close code
\* of an earlier sign-in is never taken for this one's.  It holds while every
\* session lookup succeeds.
SignedOutOnlyIfEnded ==
    \A c \in Conns : client[c].state = "signed_out" => ~session[c]

\* Any one page, and the feed it is to follow.
Page == CHOOSE c \in Conns : TRUE
Feed == INSTANCE EventFeed WITH
    LogNumbers <- Seqs, Nowhere <- NoSeq,
    newest <- Newest, contents <- issued,
    position <- client[Page].last, command <- app[Page]

\* A page's application is given each event once, in order and as it was
\* committed, or told to reload at a position it has not passed, through every
\* lost socket, replay, prune, reset and restart, and though a socket loses or
\* repeats events.
FollowsFeed == Feed!Spec

\* Where a page may rest: signed out or stopped, or live at the log's end.
Settled(c) ==
    \/ client[c].state \in {"stopped", "signed_out", "outdated"}
    \/ client[c].state = "live" /\ client[c].last = StoredLast

\* However batches, prunes, lost connections, lag and restarts interleave, a
\* page that keeps its session gets back to the end of the log.
CatchesUp == \A c \in Conns : []<>Settled(c)

\* A page whose session was revoked finds out and stops, live or not.
RevokedStops ==
    \A c \in Conns :
        ~session[c] ~> session[c] \/ client[c].state \in {"stopped", "signed_out", "outdated"}

=============================================================================
