--------------------------- MODULE Notifications ---------------------------
(***************************************************************************)
(* The switch for a device's notifications (apps/bokkie-web/src/           *)
(* notifications.rs, with the sign-in of app.rs), and the subscriptions    *)
(* the gateway holds, one per session (crates/bokkie-gateway/src/push/     *)
(* subscription.rs, routes/push.rs, migrations/0012_web_push.sql).         *)
(*                                                                         *)
(* One browser, which shows one page.  Its cookie names a session, and it  *)
(* holds one subscription at most, known by its endpoint.  Requests are    *)
(* `fetch`es of their own: the gateway may take them in any order.  Left   *)
(* out: browsers without Web Push, the gateway's public key, and           *)
(* subscriptions that cannot be read.                                      *)
(***************************************************************************)
EXTENDS Integers, FiniteSets

CONSTANTS MaxSessions, MaxEndpoints, MaxRequests, MaxLaunches, MaxFaults   \* bounds

VARIABLES
    live,       \* the sessions that are live
    held,       \* the endpoint the gateway holds for each session
    cookie,     \* the session the browser's cookie names
    browser,    \* the browser's subscription, and what it was asked to do
    device,     \* the page's `Device`
    page,       \* whether the page is signed in
    signed,     \* the page's `Signed`
    inFlight,   \* requests and their answers
    used,       \* what has been used of the bounds
    history     \* what no code keeps (below)

vars == <<live, held, cookie, browser, device, page, signed, inFlight, used, history>>

None == 0
Sessions == 1..MaxSessions

NewDevice == [known |-> FALSE, sub |-> None, busy |-> "none", forget |-> "no",
              held |-> FALSE, error |-> FALSE]
NewSigned == [sent |-> None, saving |-> FALSE, saved |-> FALSE, refused |-> FALSE, error |-> FALSE]

\* `chose`: for which session an endpoint was switched on; `launched`: the
\* sessions a page found live as it was launched; `overtaken`: whether the
\* gateway took a request after one that was sent later; `taken`: the last
\* request it took.
Init ==
    /\ live = {} /\ held = [s \in Sessions |-> None]
    /\ cookie = None
    /\ browser = [sub |-> None, asked |-> "none"]
    /\ device = NewDevice
    /\ page = "checking"
    /\ signed = NewSigned
    /\ inFlight = {}
    /\ used = [sessions |-> 0, endpoints |-> 0, requests |-> 0, launches |-> 0, faults |-> 0]
    /\ history = [chose |-> {}, launched |-> {}, overtaken |-> FALSE, taken |-> 0]

Fails == used.faults < MaxFaults /\ used' = [used EXCEPT !.faults = @ + 1]

\* The page's requests that are under way are no longer heard (`next_generation`).
Unheard == {[r EXCEPT !.heard = FALSE] : r \in {q \in inFlight : q.answer = "none"}}

\* A new sign-in does not take over the device's subscription (`signed_in`).
Forgets(d, launched) == IF launched THEN d ELSE [d EXCEPT !.forget = "pending"]

SignsIn(launched) ==
    /\ page' = "in"
    /\ signed' = NewSigned
    /\ device' = Forgets(device, launched)
    /\ inFlight' = Unheard

\* The sign-in form is shown; if the session `ended`, what the device holds is
\* no session's (`leave`).
Leaves(ended) ==
    /\ page' = "out"
    /\ signed' = NewSigned
    /\ device' = IF ended THEN [device EXCEPT !.forget = "pending"] ELSE device
    /\ inFlight' = Unheard

-----------------------------------------------------------------------------
(* Sessions *)

\* The page is loaded anew; what the browser was asked happens or does not.
Launch ==
    /\ used.launches < MaxLaunches
    /\ used' = [used EXCEPT !.launches = @ + 1]
    /\ page' = "checking" /\ signed' = NewSigned /\ device' = NewDevice
    /\ inFlight' = Unheard
    /\ browser' \in {[sub |-> browser.sub, asked |-> "none"]} \cup
                    (IF browser.asked = "unsubscribe" THEN {[sub |-> None, asked |-> "none"]} ELSE {})
    /\ UNCHANGED <<live, held, cookie, history>>

\* The session check of a launch is answered, or fails on the way (`reply`).
Checked ==
    /\ page = "checking"
    /\ \/ /\ cookie \in live
          /\ SignsIn(TRUE)
          /\ history' = [history EXCEPT !.launched = @ \cup {cookie}]
          /\ UNCHANGED used
       \/ cookie \notin live /\ Leaves(TRUE) /\ UNCHANGED <<used, history>>
       \/ Fails /\ Leaves(FALSE) /\ UNCHANGED history
    /\ UNCHANGED <<live, held, cookie, browser>>

SignIn ==
    /\ page = "out" /\ used.sessions < MaxSessions
    /\ used' = [used EXCEPT !.sessions = @ + 1]
    /\ live' = live \cup {used'.sessions}
    /\ cookie' = used'.sessions
    /\ SignsIn(FALSE)
    /\ UNCHANGED <<held, browser, history>>

\* A session's end ends its subscription (trigger `push_subscriptions_end_with_session`).
EndSession(s) ==
    /\ live' = live \ {s}
    /\ held' = [held EXCEPT ![s] = None]

SignOut ==
    /\ page = "in" /\ cookie \in live
    /\ EndSession(cookie)
    /\ cookie' = None
    /\ Leaves(TRUE)
    /\ UNCHANGED <<browser, used, history>>

\* The session is revoked from elsewhere; a request of the page answered 401
\* tells it (`session_ended`).
Revoke ==
    /\ Fails
    /\ \E s \in live : EndSession(s)
    /\ UNCHANGED <<cookie, browser, device, page, signed, inFlight, history>>

SessionEnded ==
    /\ page = "in" /\ cookie \notin live
    /\ Leaves(TRUE)
    /\ UNCHANGED <<live, held, cookie, browser, used, history>>

-----------------------------------------------------------------------------
(* The device *)

\* Whether the switch shows notifications on (`notifications_on`).
On == device.sub # None /\ device.forget = "no" /\ ~device.held

\* Web Push says what the browser holds.
Reported ==
    /\ ~device.known
    /\ device' = [device EXCEPT !.known = TRUE, !.sub = browser.sub,
                                !.forget = IF browser.sub = None THEN "no" ELSE @]
    /\ UNCHANGED <<live, held, cookie, browser, page, signed, inFlight, used, history>>

Sends(kind, endpoint) ==
    /\ used.requests < MaxRequests
    /\ used' = [used EXCEPT !.requests = @ + 1]
    /\ inFlight' = inFlight \cup {[id |-> used'.requests, kind |-> kind, session |-> cookie,
                                   endpoint |-> endpoint, heard |-> TRUE, answer |-> "none"]}

\* Whether the switch can be used (`notifications_availability`).
Available ==
    page = "in" /\ device.known /\ device.busy = "none" /\ device.forget # "pending" /\ ~signed.saving

SwitchOff ==
    /\ Available /\ On
    /\ device' = [device EXCEPT !.busy = "unsubscribe", !.error = FALSE, !.held = TRUE]
    /\ signed' = NewSigned
    /\ Sends("delete", None)
    /\ browser' = [browser EXCEPT !.asked = "unsubscribe"]
    /\ UNCHANGED <<live, held, cookie, page, history>>

SwitchOn ==
    /\ Available /\ ~On
    /\ device' = [device EXCEPT !.busy = "subscribe", !.error = FALSE, !.held = FALSE]
    /\ signed' = [signed EXCEPT !.error = FALSE, !.refused = FALSE]
    /\ browser' = [browser EXCEPT !.asked = "subscribe"]
    /\ UNCHANGED <<live, held, cookie, page, inFlight, used, history>>

\* The browser subscribed, with the subscription it had if it had one.
Subscribed ==
    /\ browser.asked = "subscribe"
    /\ used' = [used EXCEPT !.endpoints = IF browser.sub = None THEN @ + 1 ELSE @]
    /\ used'.endpoints =< MaxEndpoints
    /\ browser' = [sub |-> IF browser.sub = None THEN used'.endpoints ELSE browser.sub,
                   asked |-> "none"]
    /\ device' = [device EXCEPT !.busy = IF @ = "subscribe" THEN "none" ELSE @,
                                !.forget = IF page = "in" THEN "no" ELSE @,
                                !.held = FALSE, !.sub = browser'.sub]
    /\ history' = IF page = "in"
                  THEN [history EXCEPT !.chose = @ \cup {<<cookie, browser'.sub>>}] ELSE history
    /\ UNCHANGED <<live, held, cookie, page, signed, inFlight>>

Unsubscribed ==
    /\ browser.asked = "unsubscribe"
    /\ browser' = [sub |-> None, asked |-> "none"]
    /\ device' = [device EXCEPT !.busy = IF @ = "unsubscribe" THEN "none" ELSE @,
                                !.forget = "no", !.held = FALSE, !.sub = None]
    /\ UNCHANGED <<live, held, cookie, page, signed, inFlight, used, history>>

\* What was asked of the browser failed: removing an earlier sign-in's
\* subscription is not tried again (`push_event`).
Failed(d, asked) ==
    [d EXCEPT !.busy = "none", !.error = TRUE,
              !.forget = IF asked = "unsubscribe" /\ @ = "pending" THEN "failed" ELSE @]

BrowserFails ==
    /\ browser.asked # "none" /\ Fails
    /\ browser' = [browser EXCEPT !.asked = "none"]
    /\ device' = Failed(device, browser.asked)
    /\ UNCHANGED <<live, held, cookie, page, signed, inFlight, history>>

\* Once a pass the device and the gateway are brought in line with the state:
\* an earlier sign-in's subscription is removed, or this one's is sent, once
\* (`sync_subscription`).
Sync ==
    /\ device.known /\ device.busy = "none"
    /\ \/ /\ device.forget = "pending" /\ device.sub = None
          /\ device' = [device EXCEPT !.forget = "no"]
          /\ UNCHANGED <<browser, signed, inFlight, used>>
       \/ /\ device.forget = "pending" /\ device.sub # None
          /\ device' = [device EXCEPT !.busy = "unsubscribe"]
          /\ browser' = [browser EXCEPT !.asked = "unsubscribe"]
          /\ UNCHANGED <<signed, inFlight, used>>
       \/ /\ page = "in" /\ On
          /\ ~signed.saving /\ signed.sent # device.sub
          /\ signed' = [signed EXCEPT !.sent = device.sub, !.saving = TRUE]
          /\ Sends("put", device.sub)
          /\ UNCHANGED <<device, browser>>
    /\ UNCHANGED <<live, held, cookie, page, history>>

\* The socket is live again: a refused subscription is sent once more (`retry_push`).
RetryPush ==
    /\ page = "in" /\ signed.refused /\ ~signed.saving
    /\ signed' = [signed EXCEPT !.refused = FALSE, !.sent = None, !.error = FALSE]
    /\ UNCHANGED <<live, held, cookie, browser, device, page, inFlight, used, history>>

-----------------------------------------------------------------------------
(* The gateway *)

\* A session's subscription; another session's with its endpoint ends (`put`).
Put(s, endpoint) ==
    [t \in Sessions |-> CASE t = s -> endpoint
                          [] t # s /\ held[t] = endpoint -> None
                          [] OTHER -> held[t]]

\* The gateway takes a request, if its session is live (`subscribe`, `unsubscribe`).
Take(r) ==
    /\ r.answer = "none"
    /\ held' = CASE r.session \notin live -> held
                 [] r.session \in live /\ r.kind = "put" -> Put(r.session, r.endpoint)
                 [] r.session \in live /\ r.kind = "delete" -> [held EXCEPT ![r.session] = None]
    /\ inFlight' = (inFlight \ {r}) \cup
           (IF r.heard
            THEN {[r EXCEPT !.answer = IF r.session \in live THEN "ok" ELSE "unauthenticated"]}
            ELSE {})
    /\ history' = [history EXCEPT !.overtaken = @ \/ r.id < history.taken,
                                  !.taken = IF r.id < @ THEN @ ELSE r.id]
    /\ UNCHANGED <<live, cookie, browser, device, page, signed, used>>

\* A request, or its answer, is lost, or it fails for another reason.
Lose(r) ==
    /\ r.answer \in {"none", "ok"} /\ Fails
    /\ inFlight' = (inFlight \ {r}) \cup (IF r.heard THEN {[r EXCEPT !.answer = "error"]} ELSE {})
    /\ UNCHANGED <<live, held, cookie, browser, device, page, signed, history>>

\* The page hears the answer (`push_reply`).
Answer(r) ==
    /\ r.answer # "none"
    /\ IF r.answer = "unauthenticated" THEN Leaves(TRUE)
       ELSE /\ inFlight' = inFlight \ {r}
            /\ signed' = CASE r.kind = "put" /\ r.answer = "ok" ->
                                  [signed EXCEPT !.saving = FALSE, !.saved = TRUE]
                           [] r.kind = "put" /\ r.answer = "error" ->
                                  [signed EXCEPT !.saving = FALSE, !.error = TRUE, !.refused = TRUE]
                           [] r.kind = "delete" /\ r.answer = "error" ->
                                  [signed EXCEPT !.error = TRUE]
                           [] OTHER -> signed
            /\ UNCHANGED <<device, page>>
    /\ UNCHANGED <<live, held, cookie, browser, used, history>>

Next ==
    \/ Launch \/ Checked \/ SignIn \/ SignOut \/ Revoke \/ SessionEnded
    \/ Reported \/ SwitchOff \/ SwitchOn \/ Subscribed \/ Unsubscribed \/ BrowserFails
    \/ Sync \/ RetryPush
    \/ \E r \in inFlight : Take(r) \/ Lose(r) \/ Answer(r)

Spec == Init /\ [][Next]_vars

-----------------------------------------------------------------------------
(* Correctness *)

\* Nothing is under way, and a pass has nothing to do.
Rests ==
    /\ inFlight = {} /\ browser.asked = "none" /\ device.known
    /\ device.forget # "pending"
    /\ page = "in" => ~On \/ signed.sent = device.sub

\* Once all is done, a switch that shows on and saved is on: the gateway holds
\* the browser's subscription for the page's session.  It is not so if the
\* gateway takes a switch-off after the switch-on that followed it
\* (`notifications_on`, `Signed::saved`).
OnIsOn ==
    Rests /\ page = "in" /\ cookie \in live /\ On /\ signed.saved /\ ~history.overtaken =>
        held[cookie] = browser.sub

\* And one that shows off, with no error said of the device, is off: the browser
\* has no subscription left, so what the gateway holds for whichever session, an
\* earlier sign-in's included, reaches it no more (`toggle_notifications`,
\* `forget_subscription`).
OffIsOff == Rests /\ page = "in" /\ ~On /\ ~device.error => browser.sub = None

\* A subscription is sent only for a sign-in in which it was switched on, or
\* whose page was loaded since: a new sign-in takes over none (`signed_in`).
NoneTakenOver ==
    \A r \in inFlight :
        r.kind = "put" => r.session \in history.launched \/ <<r.session, r.endpoint>> \in history.chose

SwitchIsReal == OnIsOn /\ OffIsOff /\ NoneTakenOver

=============================================================================
