----------------------------- MODULE Supervisor -----------------------------
(***************************************************************************)
(* The supervisor of the Codex app servers, one per user and the           *)
(* household's, and of the household's one ChatGPT sign-in that they share *)
(* (crates/bokkie-gateway/src/codex/supervisor.rs and household.rs).       *)
(*                                                                         *)
(* Every request is a task: a use of a user's app server, which starts it  *)
(* if needed, the restart of one that failed on its credential, the        *)
(* refresher's look, and an admin's sign-in, its cancelling and the        *)
(* sign-out.  Tasks meet at the lock of each slot, held while its app      *)
(* server starts, and at the lock `refreshing`.  Each app server has a     *)
(* watcher that reads its messages and marks it stopped once it closed.    *)
(*                                                                         *)
(* The token file is its sign-in's number and whether its expiry lies      *)
(* outside the refresh window.  Each request to an app server may fail,    *)
(* or be answered by an error, at any time.  Left out: threads and turns,  *)
(* but for how turns end, and the text of configuration and checks.        *)
(***************************************************************************)
EXTENDS Integers, Sequences, FiniteSets

CONSTANTS
    Users,
    FirstAuths,       \* what a user's auth.json may be at first
    MaxOps,           \* bound: requests
    MaxServers,       \* bound: app servers started
    MaxEvents         \* bound: app servers that exit, turns that end, tokens
                      \* and codes that age, codes entered, broken rules,
                      \* and users' app servers that are stopped

ASSUME SupervisorAssumption ==
    /\ FirstAuths \subseteq {"missing", "link", "file", "other"}
    /\ "household" \notin Users
    /\ {MaxOps, MaxServers, MaxEvents} \subseteq Nat

VARIABLES
    token,       \* the household's auth.json: its sign-in, and whether it is fresh
    lastSignIn,
    failedLately,\* whether a refresh failed within `retry_after`
    refreshing,  \* which request holds the lock `refreshing`
    slot,        \* the slots: who holds the lock, and the app server in it
    server,      \* the app servers started, by serial number
    auth,        \* what each user's auth.json is
    tainted,
    recovering,  \* the users whose app server was restarted for its credential
    login,       \* the latest device-code sign-in
    codes,       \* the device codes Codex waits for, and by which app server
    news,        \* sign-ins that ended, which their watcher has yet to read
    op,          \* the requests, in the order they were made
    events,
    signedOut    \* what no code keeps: the sign-ins that were signed out

tokenVars == <<token, lastSignIn, failedLately>>
loginVars == <<login, codes, news>>
vars == <<tokenVars, refreshing, slot, server, auth, tainted, recovering, loginVars,
          op, events, signedOut>>

None == 0
Owners == Users \cup {"household"}
Kinds == {"use", "recover", "look", "signIn", "cancel", "signOut"}

Init ==
    /\ token = [signIn |-> 1, fresh |-> TRUE]
    /\ lastSignIn = 1
    /\ failedLately = FALSE
    /\ refreshing = None
    /\ slot = [o \in Owners |-> [lock |-> None, server |-> None]]
    /\ server = <<>>
    /\ auth \in [Users -> FirstAuths]
    /\ tainted = FALSE
    /\ recovering = {}
    /\ login = [id |-> None, server |-> None, state |-> "none", old |-> FALSE]
    /\ codes = {} /\ news = {}
    /\ op = <<>>
    /\ events = 0
    /\ signedOut = {}

Happens == events < MaxEvents /\ events' = events + 1

-----------------------------------------------------------------------------
(* App servers *)

IsAlive(s) == s # None /\ server[s].alive
Alive(o) == IsAlive(slot[o].server)

\* The app servers with those of S stopped: marked, and their process killed.
Stopped(S) ==
    [s \in DOMAIN server |->
        IF s \in S THEN [server[s] EXCEPT !.alive = FALSE, !.up = FALSE] ELSE server[s]]

\* A new app server starts; it reads the sign-in there is (`start`).
NewServer(o, holds) ==
    [owner |-> o, up |-> TRUE, alive |-> TRUE, watched |-> TRUE, holds |-> holds]

\* A request goes on; nothing reads one that is done.
Finished == [kind |-> "look", user |-> "household", of |-> None, household |-> None, at |-> "done"]
Goes(i, at) == op' = [op EXCEPT ![i] = IF at = "done" THEN Finished ELSE [@ EXCEPT !.at = at]]
At(i, at) == i \in DOMAIN op /\ op[i].at = at

\* Where a request goes on after the checks of the household, and once it
\* fails there: a restart that is not made is forgotten.
AfterEnsure(kind) == CASE kind = "use" -> "slot"
                       [] kind = "recover" -> "replace"
                       [] kind = "look" -> "done"
AfterHousehold(kind) == CASE kind \in {"use", "recover", "look"} -> "expiry"
                          [] kind \in {"signIn", "cancel", "signOut"} -> "cancel"

AfterCancel(kind) == CASE kind = "signIn" -> "asksCode"
                       [] kind = "cancel" -> "done"
                       [] kind = "signOut" -> "signsOut"

FailsAt(i) ==
    /\ Goes(i, "done")
    /\ recovering' = IF op[i].kind = "recover" THEN recovering \ {op[i].user} ELSE recovering

\* A request is made.  `of` is the app server a restart is of, and then the
\* sign-in that is being cancelled.
Request(kind, u, of) ==
    [kind |-> kind, user |-> u, of |-> of, household |-> None,
     at |-> CASE kind = "recover" -> "begin" [] kind = "cancel" -> "cancel"
              [] OTHER -> "household"]

Ask(kind, u) ==
    /\ Len(op) < MaxOps
    /\ kind = "look" => ~tainted /\ token.signIn # None
    /\ op' = Append(op, Request(kind, u, None))
    /\ UNCHANGED <<tokenVars, refreshing, slot, server, auth, tainted, recovering, loginVars,
                   events, signedOut>>

\* A restart is made only of a user not yet restarted (`recover`).
BeginRecovery(i) ==
    /\ At(i, "begin")
    /\ Goes(i, IF op[i].user \in recovering THEN "done" ELSE "household")
    /\ recovering' = recovering \cup {op[i].user}
    /\ UNCHANGED <<tokenVars, refreshing, slot, server, auth, tainted, loginVars, events, signedOut>>

StartsHousehold(i, at) ==
    /\ Len(server) < MaxServers
    /\ server' = Append(Stopped({slot["household"].server}), NewServer("household", token.signIn))
    /\ slot' = [slot EXCEPT !["household"] = [lock |-> i, server |-> None]]
    /\ Goes(i, at)

\* A request gets the household's app server: the one that runs, or it waits
\* for the slot and starts one, with the slot's lock held (`household`).
GetHousehold(i) ==
    /\ At(i, "household")
    /\ slot["household"].lock = None
    /\ IF tainted THEN FailsAt(i) /\ UNCHANGED <<slot, server>>
       ELSE IF Alive("household")
       THEN /\ op' = [op EXCEPT ![i].at = AfterHousehold(op[i].kind),
                                ![i].household = slot["household"].server]
            /\ UNCHANGED <<slot, server, recovering>>
       ELSE StartsHousehold(i, "starting") /\ UNCHANGED recovering
    /\ UNCHANGED <<tokenVars, refreshing, auth, tainted, loginVars, events, signedOut>>

LastOf(o) == CHOOSE s \in DOMAIN server :
    server[s].owner = o /\ \A t \in DOMAIN server : server[t].owner = o => t =< s

\* The app server passed its checks and is served, or it is stopped.
HouseholdStarted(i, ok) ==
    /\ At(i, "starting") \/ At(i, "startingToCancel")
    /\ LET s == LastOf("household")
       IN  /\ ok => server[s].up
           /\ slot' = [slot EXCEPT !["household"] = [lock |-> None,
                                                     server |-> IF ok THEN s ELSE None]]
           /\ server' = IF ok THEN server ELSE Stopped({s})
           /\ IF op[i].at = "startingToCancel"
              THEN Goes(i, IF ok THEN "toCancel" ELSE AfterCancel(op[i].kind)) /\ UNCHANGED recovering
              ELSE IF ok
              THEN /\ op' = [op EXCEPT ![i].at = AfterHousehold(op[i].kind), ![i].household = s]
                   /\ UNCHANGED recovering
              ELSE FailsAt(i)
    /\ UNCHANGED <<tokenVars, refreshing, auth, tainted, loginVars, events, signedOut>>

-----------------------------------------------------------------------------
(* The refresh *)

SignedIn == token.signIn # None
Usable == SignedIn /\ token.fresh

\* The household's token is looked at: it is usable, there is none, or it is
\* refreshed with the lock `refreshing`, for which the request waits.
LookAtExpiry(i) ==
    /\ At(i, "expiry")
    /\ IF Usable THEN Goes(i, AfterEnsure(op[i].kind)) /\ UNCHANGED recovering
       ELSE IF ~SignedIn THEN FailsAt(i)
       ELSE Goes(i, "stale") /\ UNCHANGED recovering
    /\ UNCHANGED <<tokenVars, refreshing, slot, server, auth, tainted, loginVars, events, signedOut>>

\* Mutant: what was seen before the lock was held is not looked at again.
NeedsRefreshSeen == TRUE

\* Whether the token needs a refresh now, and one may be asked for.
NeedsRefresh == SignedIn /\ ~token.fresh /\ ~failedLately

\* With the lock, the token is looked at again: another request may have
\* refreshed it, or failed to, meanwhile (`ensure_household`).
AskRefresh(i) ==
    /\ At(i, "stale") /\ refreshing = None
    /\ IF NeedsRefresh
       THEN refreshing' = i /\ Goes(i, "asking") /\ UNCHANGED recovering
       ELSE /\ UNCHANGED refreshing
            /\ IF Usable THEN Goes(i, AfterEnsure(op[i].kind)) /\ UNCHANGED recovering
               ELSE FailsAt(i)
    /\ UNCHANGED <<tokenVars, slot, server, auth, tainted, loginVars, events, signedOut>>

\* The household's app server refreshes the token, or does not; whatever it
\* answers, the file tells (`refresh_with`).
Refreshed(i) ==
    /\ At(i, "asking")
    /\ \/ server[op[i].household].up /\ SignedIn /\ token' = [token EXCEPT !.fresh = TRUE]
       \/ UNCHANGED token
    /\ refreshing' = None
    /\ IF token'.fresh /\ SignedIn
       THEN failedLately' = FALSE /\ Goes(i, AfterEnsure(op[i].kind)) /\ UNCHANGED recovering
       ELSE failedLately' = (IF SignedIn THEN TRUE ELSE failedLately) /\ FailsAt(i)
    /\ UNCHANGED <<lastSignIn, slot, server, auth, tainted, loginVars, events, signedOut>>

-----------------------------------------------------------------------------
(* Users' app servers *)

\* A request gets the user's app server, or starts one, with the lock of its
\* slot held.  A user's own earlier sign-in is signed out first, through an
\* app server of the user's; anything but the link is refused (`runtime`).
UseSlot(i) ==
    LET u == op[i].user
        old == slot[u].server
    IN  /\ At(i, "slot") /\ slot[u].lock = None
        /\ CASE IsAlive(old) /\ auth[u] = "link" ->
                    Goes(i, "done") /\ UNCHANGED <<slot, server, auth>>
             [] IsAlive(old) /\ auth[u] # "link" ->
                    /\ server' = Stopped({old})
                    /\ slot' = [slot EXCEPT ![u].server = None]
                    /\ Goes(i, "done") /\ UNCHANGED auth
             [] ~IsAlive(old) /\ auth[u] = "other" ->
                    /\ slot' = [slot EXCEPT ![u].server = None]
                    /\ server' = Stopped({old})
                    /\ Goes(i, "done") /\ UNCHANGED auth
             [] ~IsAlive(old) /\ auth[u] # "other" ->
                    /\ Len(server) < MaxServers
                    /\ slot' = [slot EXCEPT ![u] = [lock |-> i, server |-> None]]
                    /\ auth' = [auth EXCEPT ![u] = IF @ = "missing" THEN "link" ELSE @]
                    /\ server' = Append(Stopped({old}),
                                        NewServer(u, IF auth[u] = "file" THEN None
                                                     ELSE token.signIn))
                    /\ Goes(i, IF auth[u] = "file" THEN "signingOut" ELSE "checking")
        /\ UNCHANGED <<tokenVars, refreshing, tainted, recovering, loginVars, events, signedOut>>

\* The user's own sign-in is signed out and its file made the link; then the
\* app server to be used starts (`sign_out_own`, `link`).
OwnSignedOut(i, ok) ==
    LET u == op[i].user
    IN  /\ At(i, "signingOut")
        /\ IF ok
           THEN /\ server[LastOf(u)].up
                /\ Len(server) < MaxServers
                /\ server' = Append(Stopped({LastOf(u)}), NewServer(u, token.signIn))
                /\ auth' = [auth EXCEPT ![u] = "link"]
                /\ Goes(i, "checking") /\ UNCHANGED slot
           ELSE /\ server' = Stopped({LastOf(u)})
                /\ slot' = [slot EXCEPT ![u].lock = None]
                /\ Goes(i, "done")
                /\ \/ UNCHANGED auth
                   \/ server[LastOf(u)].up /\ auth' = [auth EXCEPT ![u] = "missing"]
        /\ UNCHANGED <<tokenVars, refreshing, tainted, recovering, loginVars, events, signedOut>>

UserStarted(i, ok) ==
    LET u == op[i].user
        s == LastOf(u)
    IN  /\ At(i, "checking")
        /\ ok => server[s].up
        /\ slot' = [slot EXCEPT ![u] = [lock |-> None, server |-> IF ok THEN s ELSE None]]
        /\ server' = IF ok THEN server ELSE Stopped({s})
        /\ Goes(i, "done")
        /\ UNCHANGED <<tokenVars, refreshing, auth, tainted, recovering, loginVars, events,
                       signedOut>>

\* Mutant: whatever app server the user has now is stopped.
ReplacesAny(i) == slot[op[i].user].server # None

\* Whether the user's app server is still the one that failed.
Replaces(i) == slot[op[i].user].server = op[i].of

\* A failed app server that is still the user's is stopped, and the user's
\* app server is used, which starts it (`recover`).
Replace(i) ==
    LET u == op[i].user
    IN  /\ At(i, "replace") /\ slot[u].lock = None
        /\ IF Replaces(i)
           THEN /\ server' = Stopped({slot[u].server})
                /\ slot' = [slot EXCEPT ![u].server = None]
           ELSE UNCHANGED <<server, slot>>
        /\ op' = [op EXCEPT ![i].at = "household", ![i].kind = "use"]
        /\ UNCHANGED <<tokenVars, refreshing, auth, tainted, recovering, loginVars, events,
                       signedOut>>

-----------------------------------------------------------------------------
(* The household's sign-in and sign-out *)

\* A pending sign-in whose code's time passed has expired (`Login::expire`).
Expire(l) == IF l.state = "pending" /\ l.old THEN [l EXCEPT !.state = "expired"] ELSE l

\* A pending sign-in is cancelled (`cancel_login`).
Cancel(i) ==
    LET seen == Expire(login)
    IN  /\ At(i, "cancel")
        /\ IF seen.state = "pending"
           THEN /\ login' = [seen EXCEPT !.state = "cancelled"]
                /\ op' = [op EXCEPT ![i].at = "toCancel", ![i].of = seen.id]
           ELSE login' = seen /\ Goes(i, AfterCancel(op[i].kind))
        /\ UNCHANGED <<tokenVars, refreshing, slot, server, auth, tainted, recovering, codes, news,
                       events, signedOut>>

\* And then at the household's app server, which is started if none runs,
\* and which reports its end afterwards.
CancelCode(i) ==
    /\ At(i, "toCancel")
    /\ slot["household"].lock = None
    /\ IF tainted \/ Alive("household")
       THEN /\ Goes(i, AfterCancel(op[i].kind))
            /\ \/ UNCHANGED <<codes, news>>
               \/ /\ ~tainted
                  /\ codes' = {c \in codes : c.id # op[i].of \/ c.server # slot["household"].server}
                  /\ news' = news \cup {[id |-> c.id, server |-> c.server, ok |-> FALSE] :
                                            c \in codes \ codes'}
            /\ UNCHANGED <<slot, server>>
       ELSE /\ StartsHousehold(i, "startingToCancel")
            /\ UNCHANGED <<codes, news>>
    /\ UNCHANGED <<tokenVars, refreshing, auth, tainted, recovering, login, events, signedOut>>

\* The household's app server gives a device code, and the sign-in with it
\* becomes the latest (`start_login`).
AskCode(i) ==
    /\ At(i, "asksCode")
    /\ \/ /\ server[op[i].household].up
          /\ codes' = codes \cup {[id |-> i, server |-> op[i].household]}
          /\ Goes(i, "hasCode")
       \/ Goes(i, "done") /\ UNCHANGED codes
    /\ UNCHANGED <<tokenVars, refreshing, slot, server, auth, tainted, recovering, login, news,
                   events, signedOut>>

KeepLogin(i) ==
    /\ At(i, "hasCode")
    /\ login' = [id |-> i, server |-> op[i].household, state |-> "pending", old |-> FALSE]
    /\ Goes(i, "done")
    /\ UNCHANGED <<tokenVars, refreshing, slot, server, auth, tainted, recovering, codes, news,
                   events, signedOut>>

\* An admin looks at the latest sign-in.
SeeLogin ==
    /\ login # Expire(login)
    /\ login' = Expire(login)
    /\ UNCHANGED <<tokenVars, refreshing, slot, server, auth, tainted, recovering, codes, news,
                   op, events, signedOut>>

SignOutTurn == refreshing = None

\* The household signs out, with the lock `refreshing`.
AskSignOut(i) ==
    /\ At(i, "signsOut") /\ SignOutTurn
    /\ refreshing' = i
    /\ Goes(i, "signingOutAll")
    /\ UNCHANGED <<tokenVars, slot, server, auth, tainted, recovering, loginVars, events,
                   signedOut>>

\* Its answer: it took effect, or fails, having taken effect or not.
SignOutAnswered(i) ==
    /\ At(i, "signingOutAll")
    /\ \/ /\ server[op[i].household].up
          /\ token' = [token EXCEPT !.signIn = None]
          /\ signedOut' = signedOut \cup ({token.signIn} \ {None})
          /\ Goes(i, "stopping") /\ UNCHANGED refreshing
       \/ /\ \/ UNCHANGED token
             \/ server[op[i].household].up /\ token' = [token EXCEPT !.signIn = None]
          /\ Goes(i, "done") /\ refreshing' = None /\ UNCHANGED signedOut
    /\ UNCHANGED <<lastSignIn, failedLately, slot, server, auth, tainted, recovering, loginVars,
                   events>>

\* Mutant: a slot whose app server is starting is passed over.
MayStopAny(u) == TRUE

\* A slot is stopped once its lock is free.
MayStop(u) == slot[u].lock = None

\* Every user's app server is stopped (`stop_users`).
StopUsers(i) ==
    /\ At(i, "stopping")
    /\ \A u \in Users : MayStop(u)
    /\ server' = Stopped({slot[u].server : u \in Users})
    /\ slot' = [o \in Owners |-> IF o \in Users THEN [slot[o] EXCEPT !.server = None]
                                 ELSE slot[o]]
    /\ refreshing' = None
    /\ Goes(i, "done")
    /\ UNCHANGED <<tokenVars, auth, tainted, recovering, loginVars, events, signedOut>>

-----------------------------------------------------------------------------
(* What app servers do, and their watchers *)

\* A user enters a code at ChatGPT, or it fails: Codex writes the file and
\* reports it.
CodeEnds(c, ok) ==
    /\ Happens
    /\ c \in codes /\ server[c.server].up
    /\ codes' = codes \ {c}
    /\ news' = news \cup {[id |-> c.id, server |-> c.server, ok |-> ok]}
    /\ IF ok THEN token' = [signIn |-> lastSignIn + 1, fresh |-> TRUE] /\ lastSignIn' = lastSignIn + 1
       ELSE UNCHANGED <<token, lastSignIn>>
    /\ UNCHANGED <<failedLately, refreshing, slot, server, auth, tainted, recovering, login, op,
                   signedOut>>

\* Only a pending sign-in ends (`Login::completed`); whether it failed or
\* expired is one.
Completed(l, ok) ==
    IF l.state = "pending" THEN [l EXCEPT !.state = IF ok THEN "completed" ELSE "failed"] ELSE l

\* The watcher reads that a sign-in ended; only the latest ends so
\* (`login_completed`).
LoginReported(n) ==
    /\ n \in news /\ server[n.server].watched
    /\ news' = news \ {n}
    /\ login' = IF login.id = n.id THEN Completed(login, n.ok) ELSE login
    /\ failedLately' = (failedLately /\ ~(login.id = n.id /\ n.ok))
    /\ UNCHANGED <<token, lastSignIn, refreshing, slot, server, auth, tainted, recovering, codes,
                   op, events, signedOut>>

\* The watcher reads that a turn completed, or failed on its credential,
\* which restarts the app server once (`turn_ended`).
TurnEnded(s, completed) ==
    /\ Happens
    /\ server[s].owner \in Users /\ server[s].watched /\ server[s].holds # None
    /\ IF completed
       THEN recovering' = recovering \ {server[s].owner} /\ UNCHANGED op
       ELSE /\ Len(op) < MaxOps /\ UNCHANGED recovering
            /\ op' = Append(op, Request("recover", server[s].owner, s))
    /\ UNCHANGED <<tokenVars, refreshing, slot, server, auth, tainted, loginVars, signedOut>>

\* The watcher finds a safety rule broken: Codex is refused from now on, and
\* this app server is stopped (`violation`).
Violation(s) ==
    /\ Happens
    /\ server[s].alive /\ server[s].watched
    /\ tainted' = TRUE
    /\ server' = Stopped({s})
    /\ UNCHANGED <<tokenVars, refreshing, slot, auth, recovering, loginVars, op, signedOut>>

\* An admin disables the user's account, which stops the app server (`stop`).
StopUser(u) ==
    /\ Happens
    /\ slot[u].lock = None /\ slot[u].server # None
    /\ server' = Stopped({slot[u].server})
    /\ slot' = [slot EXCEPT ![u].server = None]
    /\ UNCHANGED <<tokenVars, refreshing, auth, tainted, recovering, loginVars, op, signedOut>>

ServerExits(s) ==
    /\ Happens
    /\ server[s].up
    /\ server' = [server EXCEPT ![s].up = FALSE]
    /\ codes' = {c \in codes : c.server # s}
    /\ UNCHANGED <<tokenVars, refreshing, slot, auth, tainted, recovering, login, news, op,
                   signedOut>>

\* A watcher stops its app server once Codex is refused.
TaintStops(s) == tainted

\* Mutant: a sign-in pending on any household app server fails.
PendingOnAny(s) == login.state = "pending"

PendingOn(s) == login.state = "pending" /\ login.server = s

\* A watcher is over once its app server closed, with what it sent read, or
\* Codex is refused.
MayEnd(s) ==
    /\ server[s].watched
    /\ TaintStops(s) \/ (~server[s].up /\ \A n \in news : n.server # s)

\* It ends: a sign-in pending on its app server has failed (`watch`,
\* `household_exited`).
WatchEnds(s) ==
    /\ MayEnd(s)
    /\ server' = [server EXCEPT ![s].alive = FALSE, ![s].up = FALSE, ![s].watched = FALSE]
    /\ codes' = {c \in codes : c.server # s}
    /\ news' = {n \in news : n.server # s}
    /\ login' = IF server[s].owner = "household" /\ PendingOn(s)
                THEN [login EXCEPT !.state = "failed"] ELSE login
    /\ UNCHANGED <<tokenVars, refreshing, slot, auth, tainted, recovering, op, events, signedOut>>

\* Time passes: the token comes within the refresh window, a failed refresh
\* is long ago, and the time of a pending code is over.
Time ==
    /\ Happens
    /\ \/ SignedIn /\ token.fresh /\ token' = [token EXCEPT !.fresh = FALSE]
             /\ UNCHANGED <<failedLately, login>>
       \/ failedLately /\ failedLately' = FALSE /\ UNCHANGED <<token, login>>
       \/ login.state = "pending" /\ ~login.old /\ login' = [login EXCEPT !.old = TRUE]
             /\ UNCHANGED <<token, failedLately>>
    /\ UNCHANGED <<lastSignIn, refreshing, slot, server, auth, tainted, recovering, codes, news,
                   op, signedOut>>

OpStep(i) ==
    \/ GetHousehold(i)
    \/ \E ok \in BOOLEAN : HouseholdStarted(i, ok) \/ OwnSignedOut(i, ok) \/ UserStarted(i, ok)
    \/ LookAtExpiry(i) \/ AskRefresh(i) \/ Refreshed(i)
    \/ UseSlot(i) \/ Replace(i)
    \/ BeginRecovery(i) \/ Cancel(i) \/ CancelCode(i) \/ AskCode(i) \/ KeepLogin(i)
    \/ AskSignOut(i) \/ SignOutAnswered(i) \/ StopUsers(i)

Next ==
    \/ \E kind \in Kinds \ {"recover"}, u \in Users : Ask(kind, u)
    \/ \E i \in DOMAIN op : OpStep(i)
    \/ SeeLogin
    \/ \E u \in Users : StopUser(u)
    \/ \E c \in codes, ok \in BOOLEAN : CodeEnds(c, ok)
    \/ \E n \in news : LoginReported(n)
    \/ \E s \in DOMAIN server : \/ \E completed \in BOOLEAN : TurnEnded(s, completed)
                                \/ Violation(s) \/ ServerExits(s) \/ WatchEnds(s)
    \/ Time

Spec == Init /\ [][Next]_vars

-----------------------------------------------------------------------------
(* Correctness *)

\* Once the household was signed out, no user's app server that runs holds
\* the sign-in: one that was starting meanwhile is stopped too
\* (`sign_out_household`).
SignedOutEverywhere ==
    (\A i \in DOMAIN op : op[i].at # "stopping") =>
        \A s \in DOMAIN server :
            server[s].owner \in Users /\ server[s].alive => server[s].holds \notin signedOut

\* A refresh is asked for only when the token needs one at that moment and
\* none failed lately, however many requests found it stale, and never while
\* another refresh or a sign-out is under way: refresh tokens are single-use
\* (`ensure_household`).
RefreshesOnce ==
    [][\A i \in DOMAIN op : op'[i].at = "asking" /\ op[i].at # "asking" =>
         /\ ~token.fresh /\ ~failedLately
         /\ \A j \in DOMAIN op : op[j].at \notin {"asking", "signingOutAll"}]_vars

\* A sign-in ends once, and an app server that closed fails only its own: a
\* new one is not failed by the late end of its app server's predecessor
\* (`household_exited`).
LoginEndsOnce ==
    [][login'.id = login.id /\ login'.state # login.state =>
         /\ login.state = "pending"
         /\ login'.state = "failed" =>
                \/ \E n \in news : n.id = login.id /\ ~n.ok
                \/ ~server[login.server].up \/ tainted]_vars

\* A restart for a failed credential stops the app server that failed, never
\* one that took its place meanwhile (`recover`).
RestartsOnlyFailed ==
    [][\A i \in DOMAIN op : op[i].at = "replace" /\ op'[i].at # "replace" =>
         \A s \in DOMAIN server : server[s].alive /\ ~server'[s].alive => s = op[i].of]_vars

\* No member app server starts while the household is signed out
\* (supervisor.rs:14: "So no member app server starts, and no turn runs, while
\* the household is signed out").
NoneStartsSignedOut ==
    [][\A s \in DOMAIN server' \ DOMAIN server : server'[s].owner \in Users => SignedIn]_vars

\* Once a safety rule was broken and what was under way has ended, no app
\* server runs, those that were starting meanwhile included (`Latch`).
TaintStopsAll ==
    /\ tainted
    /\ \A i \in DOMAIN op : op[i].at = "done"
    /\ \A s \in DOMAIN server : ~MayEnd(s)
    => \A s \in DOMAIN server : ~server[s].alive /\ ~server[s].up

\* What was told to stop does, whatever was starting meanwhile.
StopsAreReal == SignedOutEverywhere /\ TaintStopsAll

=============================================================================
