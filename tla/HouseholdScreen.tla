-------------------------- MODULE HouseholdScreen --------------------------
(***************************************************************************)
(* An admin's screen for the household's ChatGPT sign-in (apps/bokkie-web/ *)
(* src/app.rs), which starts, follows, cancels and revokes it, and the     *)
(* gateway's routes for that (crates/bokkie-gateway/src/routes/codex.rs).  *)
(* The gateway's steps are modelled in Supervisor; here each request is    *)
(* one step of it.  Requests may be taken, and answered, in any order, and *)
(* nothing tells the page what it did not ask.                             *)
(***************************************************************************)
EXTENDS Integers, FiniteSets

CONSTANTS MaxLogins, MaxRequests, MaxOpens, MaxOthers, MaxFaults   \* bounds

VARIABLES
    household,  \* whether the household is signed in
    login,      \* the gateway's latest sign-in
    fate,       \* the state of each sign-in
    account,    \* the page's `SignedIn::account`
    screen,     \* the page's `Household`
    inFlight,   \* requests, and their answers
    used,       \* what has been used of the bounds
    history     \* what no code keeps (below)

vars == <<household, login, fate, account, screen, inFlight, used, history>>

None == 0
Logins == 1..MaxLogins
Asked(id, kind) == [id |-> id, kind |-> kind, took |-> 0, answer |-> "none", of |-> None]
Closed == [shown |-> FALSE, login |-> "idle", code |-> None, polling |-> FALSE, signOut |-> "idle"]
Opened == [Closed EXCEPT !.shown = TRUE]

\* `own`: the sign-in this screen started and has not cancelled; `stale`:
\* whether the household changed, and neither was an account request taken
\* since nor has the page heard since of a change that it follows;
\* `overtaken`: whether an answer was taken before, and heard after, another's.
Init ==
    /\ household \in BOOLEAN
    /\ login = None
    /\ fate = [l \in Logins |-> "none"]
    /\ account = "checking"
    /\ screen = Closed
    /\ inFlight = {Asked(1, "account")}
    /\ used = [logins |-> 0, requests |-> 1, taken |-> 0, opens |-> 0, others |-> 0, faults |-> 0]
    /\ history = [own |-> None, stale |-> FALSE, overtaken |-> FALSE]

Sends(kind) ==
    /\ used.requests < MaxRequests
    /\ used' = [used EXCEPT !.requests = @ + 1, !.opens = IF kind = "opened" THEN @ + 1 ELSE @]
    /\ inFlight' = inFlight \cup {Asked(used.requests + 1, IF kind = "opened" THEN "account" ELSE kind)}

Waiting(s) == s.login \in {"starting", "waiting", "cancelling"}

-----------------------------------------------------------------------------
(* The screen *)

Open ==
    /\ ~screen.shown /\ used.opens < MaxOpens
    /\ screen' = Opened
    /\ account' = "checking"
    /\ Sends("opened")
    /\ UNCHANGED <<household, login, fate, history>>

\* Leaving drops the code.
Back ==
    /\ screen.shown
    /\ screen' = Closed
    /\ history' = [history EXCEPT !.own = None]
    /\ UNCHANGED <<household, login, fate, account, inFlight, used>>

\* The Bots are refreshed, or a message was refused for want of ChatGPT.
AskAccount ==
    /\ Sends("account")
    /\ UNCHANGED <<household, login, fate, account, screen, history>>

\* A sign-in may be started, or another code asked for (`household_availability`).
MayStart ==
    \/ screen.login = "waiting"
    \/ ~Waiting(screen) /\ account \in {"out", "failed"} /\ screen.signOut # "busy"

Starting(s) == [s EXCEPT !.login = "starting", !.code = None, !.polling = FALSE, !.signOut = "idle"]

Start ==
    /\ screen.shown /\ MayStart
    /\ screen' = Starting(screen)
    /\ Sends("start")
    /\ history' = [history EXCEPT !.own = None]
    /\ UNCHANGED <<household, login, fate, account>>

\* Every LOGIN_POLL while the code is shown (`prepare`).
Poll ==
    /\ screen.login = "waiting" /\ ~screen.polling
    /\ screen' = [screen EXCEPT !.polling = TRUE]
    /\ Sends("status")
    /\ UNCHANGED <<household, login, fate, account, history>>

Cancel ==
    /\ screen.login = "waiting"
    /\ screen' = [screen EXCEPT !.login = "cancelling", !.polling = FALSE]
    /\ Sends("cancel")
    /\ history' = [history EXCEPT !.own = None]
    /\ UNCHANGED <<household, login, fate, account>>

SignOut ==
    /\ screen.shown /\ account = "in" /\ screen.signOut \in {"idle", "failed"} /\ ~Waiting(screen)
    /\ screen' = [screen EXCEPT !.signOut = "confirming"]
    /\ UNCHANGED <<household, login, fate, account, inFlight, used, history>>

Keep ==
    /\ screen.signOut = "confirming"
    /\ screen' = [screen EXCEPT !.signOut = "idle"]
    /\ UNCHANGED <<household, login, fate, account, inFlight, used, history>>

Confirm ==
    /\ screen.signOut = "confirming"
    /\ screen' = [screen EXCEPT !.signOut = "busy"]
    /\ Sends("logout")
    /\ UNCHANGED <<household, login, fate, account, history>>

-----------------------------------------------------------------------------
(* The gateway *)

Takes(r, answer, of) ==
    /\ inFlight' = (inFlight \ {r}) \cup
           {[r EXCEPT !.took = used.taken + 1, !.answer = answer, !.of = of]}
    /\ used' = [used EXCEPT !.taken = @ + 1, !.logins = IF r.kind = "start" THEN @ + 1 ELSE @]

\* A pending sign-in is cancelled.
Cancelled == [l \in Logins |-> IF l = login /\ fate[l] = "pending" THEN "cancelled" ELSE fate[l]]

\* What a sign-in's state answers; a gateway that restarted knows none.
Says(l, f) == IF l = None THEN "not_found" ELSE f[l]

Take(r) ==
    /\ r.answer = "none"
    /\ CASE r.kind = "account" ->
              /\ Takes(r, IF household THEN "in" ELSE "out", None)
              /\ history' = [history EXCEPT !.stale = FALSE]
              /\ UNCHANGED <<household, login, fate>>
         [] r.kind = "start" ->
              /\ used.logins < MaxLogins
              /\ login' = used.logins + 1
              /\ Takes(r, "pending", login')
              /\ fate' = [Cancelled EXCEPT ![login'] = "pending"]
              /\ UNCHANGED <<household, history>>
         [] r.kind = "status" ->
              Takes(r, Says(login, fate), login) /\ UNCHANGED <<household, login, fate, history>>
         [] r.kind = "cancel" ->
              /\ fate' = Cancelled
              /\ Takes(r, Says(login, fate'), login)
              /\ UNCHANGED <<household, login, history>>
         [] r.kind = "logout" ->
              /\ fate' = Cancelled
              /\ household' = FALSE
              /\ Takes(r, "done", None)
              /\ history' = [history EXCEPT !.stale = @ \/ household]
              /\ UNCHANGED login
    /\ UNCHANGED <<account, screen>>

\* A request fails, or its answer is lost.
Lose(r) ==
    /\ r.answer # "error" /\ used.faults < MaxFaults
    /\ used' = [used EXCEPT !.faults = @ + 1]
    /\ inFlight' = (inFlight \ {r}) \cup {[r EXCEPT !.answer = "error"]}
    /\ UNCHANGED <<household, login, fate, account, screen, history>>

\* The code is entered, or expires; only a page that follows it is told.
Ends(state) ==
    /\ login # None /\ fate[login] = "pending"
    /\ fate' = [fate EXCEPT ![login] = state]
    /\ household' = (household \/ state = "completed")
    /\ history' = IF state = "completed" /\ ~household
                  THEN [history EXCEPT !.stale = TRUE] ELSE history
    /\ UNCHANGED <<login, account, screen, inFlight, used>>

\* Another admin signs the household out or starts a sign-in, or the gateway
\* restarts.
Others ==
    /\ used.others < MaxOthers
    /\ \/ household /\ household' = FALSE /\ fate' = Cancelled
          /\ history' = [history EXCEPT !.stale = TRUE]
          /\ used' = [used EXCEPT !.others = @ + 1]
          /\ UNCHANGED login
       \/ /\ used.logins < MaxLogins
          /\ used' = [used EXCEPT !.others = @ + 1, !.logins = @ + 1]
          /\ login' = used'.logins
          /\ fate' = [Cancelled EXCEPT ![login'] = "pending"]
          /\ UNCHANGED <<household, history>>
       \/ login # None /\ login' = None /\ fate' = Cancelled
          /\ used' = [used EXCEPT !.others = @ + 1]
          /\ UNCHANGED <<household, history>>
    /\ UNCHANGED <<account, screen, inFlight>>

-----------------------------------------------------------------------------
(* Answers *)

\* What a sign-in's state leaves on the screen (`following`).
Following(s, r) ==
    IF r.answer = "pending"
    THEN [s EXCEPT !.login = "waiting", !.code = r.of, !.polling = FALSE]
    ELSE [s EXCEPT !.login = r.answer, !.code = r.of, !.polling = FALSE]

Moves(s, r) ==
    CASE r.kind = "start" /\ r.answer = "error" -> [s EXCEPT !.login = "failed"]
      [] r.kind = "status" /\ r.answer = "error" -> [s EXCEPT !.polling = FALSE]
      [] r.kind = "status" /\ r.answer = "not_found" -> [s EXCEPT !.login = "lost", !.code = None, !.polling = FALSE]
      [] r.kind = "cancel" /\ r.answer = "error" -> [s EXCEPT !.login = "waiting", !.polling = FALSE]
      [] r.kind = "cancel" /\ r.answer = "not_found" -> [s EXCEPT !.login = "cancelled", !.code = None]
      [] OTHER -> Following(s, r)

\* Whether the screen is at the point the answer is for (`reply`).
Awaits(r) ==
    CASE r.kind = "start" -> screen.login = "starting"
      [] r.kind = "status" -> screen.login = "waiting" /\ screen.polling
      [] r.kind = "cancel" -> screen.login = "cancelling"
      [] r.kind = "logout" -> screen.signOut = "busy"
      [] OTHER -> TRUE

\* Mutant: a sign-in that completed is not asked about.
AsksSignedOut(r) == Awaits(r) /\ r.answer = "done"

\* Whether the page asks for the account again: a sign-in completed
\* (`login_moved`), or the household is signed out.
AsksAgain(r) == Awaits(r) /\ r.answer \in {"completed", "done"}

\* Whether the answer says that the sign-in the screen awaits completed, or
\* that its sign-out was done.
Tells(r) == Awaits(r) /\ r.answer \in {"completed", "done"}

\* An answer that is heard while one taken earlier is not, or that says its
\* request failed untaken while one that was taken is not heard.
Overtakes(r) == \E q \in inFlight \ {r} :
    \/ /\ q.took # 0 /\ q.took < r.took
       /\ q.kind = r.kind \/ {q.kind, r.kind} \subseteq {"start", "status", "cancel"}
    \/ q.kind = "account" /\ r.kind = "account" /\ r.took = 0 /\ q.took # 0

\* The page hears an answer.
Answer(r) ==
    /\ r.answer # "none"
    /\ screen' = CASE ~Awaits(r) \/ r.kind = "account" -> screen
                   [] Awaits(r) /\ r.kind = "logout" ->
                        IF r.answer = "error" THEN [screen EXCEPT !.signOut = "failed"]
                        ELSE [screen EXCEPT !.signOut = "idle", !.login = "idle"]
                   [] OTHER -> Moves(screen, r)
    /\ account' = CASE r.kind = "account" -> IF r.answer = "error" THEN "failed" ELSE r.answer
                    [] r.kind # "account" /\ AsksAgain(r) -> IF r.answer = "done" THEN "out" ELSE "checking"
                    [] OTHER -> account
    /\ used' = IF AsksAgain(r) THEN [used EXCEPT !.requests = @ + 1] ELSE used
    /\ inFlight' = (inFlight \ {r}) \cup
           IF AsksAgain(r) THEN {Asked(used'.requests, "account")} ELSE {}
    /\ history' = [history EXCEPT
                      !.own = CASE r.kind = "start" /\ Awaits(r) /\ r.answer = "pending" -> r.of
                                [] r.kind = "logout" /\ Awaits(r) -> None
                                [] OTHER -> @,
                      !.stale = @ /\ ~Tells(r),
                      !.overtaken = @ \/ Overtakes(r)]
    /\ UNCHANGED <<household, login, fate>>

Next ==
    \/ Open \/ Back \/ AskAccount \/ Start \/ Poll \/ Cancel \/ SignOut \/ Keep \/ Confirm
    \/ Ends("completed") \/ Ends("failed") \/ Others
    \/ \E r \in inFlight : Take(r) \/ Lose(r) \/ Answer(r)

Spec == Init /\ [][Next]_vars

-----------------------------------------------------------------------------
(* Correctness.  Answers that overtake each other are the exception: the   *)
(* page tells an older answer from a newer one by nothing.                 *)

Rests == inFlight = {} /\ ~history.overtaken

\* The sign-in the screen started is followed to its end: while it is pending
\* its code is shown, and when it ends the screen says how (`prepare`,
\* `following`).
FollowsOwn ==
    Rests /\ history.own # None /\ login = history.own =>
        \/ screen.login = "waiting" /\ screen.code = login
        \/ screen.code = login /\ screen.login = fate[login] /\ fate[login] # "pending"

\* How a sign-in is said to have ended is how it ended.
EndIsReal ==
    ~history.overtaken /\ screen.login \in {"completed", "failed", "cancelled"} /\ screen.code # None
        => fate[screen.code] = screen.login

\* The account is what it was when the gateway last said so, or when the page
\* last heard of a change that it follows: it then asks, and is not left
\* checking (`login_moved`, `reply`).  A change that nothing has told the page
\* is the exception, its next poll still to come or none.
AccountIsReal ==
    Rests /\ ~history.stale /\ account # "failed" => account = IF household THEN "in" ELSE "out"

\* "Signing in and signing out never overlap" (`household_availability`).
NeverOverlap == ~(Waiting(screen) /\ screen.signOut \in {"confirming", "busy"})

ScreenIsReal == FollowsOwn /\ EndIsReal /\ AccountIsReal /\ NeverOverlap

=============================================================================
