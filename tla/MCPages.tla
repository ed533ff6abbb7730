------------------------------- MODULE MCPages -------------------------------
(***************************************************************************)
(* A page as one specification: EventStream, over a socket that may lose   *)
(* or repeat events, and what else the page does: Notifications, Commands, *)
(* HouseholdScreen, and ClientStore with a longer log and with failures.   *)
(* They share no state; the first state chooses which of them runs,        *)
(* `part`, and x1, x2 and so on are the variables of all but EventStream,  *)
(* in the order of the INSTANCE.                                           *)
(***************************************************************************)
EXTENDS EventStream

CONSTANTS
    MaxSessions, MaxEndpoints, NoteMaxRequests, MaxLaunches, NoteMaxFaults,      \* Notifications
    Bots, MaxTexts, CmdMaxRequests, MaxPins, CmdMaxOpens, CmdMaxFaults,          \* Commands
    MaxLogins, AdmMaxRequests, AdmMaxOpens, MaxOthers, AdmMaxFaults              \* HouseholdScreen

VARIABLES part, x1, x2, x3, x4, x5, x6, x7, x8, x9, x10

all == <<allVars, part, x1, x2, x3, x4, x5, x6, x7, x8, x9, x10>>

Note == INSTANCE Notifications WITH
    MaxRequests <- NoteMaxRequests, MaxFaults <- NoteMaxFaults,
    live <- x1, held <- x2, cookie <- x3, browser <- x4, device <- x5,
    page <- x6, signed <- x7, inFlight <- x8, used <- x9, history <- x10

Cmd == INSTANCE Commands WITH
    MaxRequests <- CmdMaxRequests, MaxOpens <- CmdMaxOpens, MaxFaults <- CmdMaxFaults,
    open <- x1, drafts <- x2, newBot <- x3, inFlight <- x4, taken <- x5,
    used <- x6, history <- x7

Adm == INSTANCE HouseholdScreen WITH
    MaxRequests <- AdmMaxRequests, MaxOpens <- AdmMaxOpens, MaxFaults <- AdmMaxFaults,
    household <- x1, login <- x2, fate <- x3, account <- x4, screen <- x5,
    inFlight <- x6, used <- x7, history <- x8

Store == INSTANCE ClientStore WITH
    PageSize <- 1, MaxHeld <- 1, MaxSeq <- 3, MaxMessages <- 2, MaxText <- 1, MaxReloads <- 0,
    MaxOpens <- 1, MaxFaults <- 0,
    log <- x1, at <- x2, live <- x3, open <- x4, errors <- x5, store <- x6,
    inFlight <- x7, again <- x8, used <- x9

Again == INSTANCE ClientStore WITH
    PageSize <- 1, MaxHeld <- 1, MaxSeq <- 2, MaxMessages <- 2, MaxText <- 1, MaxReloads <- 1,
    MaxOpens <- 1, MaxFaults <- 1,
    log <- x1, at <- x2, live <- x3, open <- x4, errors <- x5, store <- x6,
    inFlight <- x7, again <- x8, used <- x9

-----------------------------------------------------------------------------
\* The variables after the first `n` are not used.
Unused(n) ==
    /\ n < 1 => x1 = 0
    /\ n < 2 => x2 = 0
    /\ n < 3 => x3 = 0
    /\ n < 4 => x4 = 0
    /\ n < 5 => x5 = 0
    /\ n < 6 => x6 = 0
    /\ n < 7 => x7 = 0
    /\ n < 8 => x8 = 0
    /\ n < 9 => x9 = 0
    /\ n < 10 => x10 = 0

PagesInit ==
    /\ StreamInit
    /\ \/ part = "stream" /\ Unused(0)
       \/ part = "notifications" /\ Note!Init /\ Unused(10)
       \/ part = "commands" /\ Cmd!Init /\ Unused(7)
       \/ part = "household" /\ Adm!Init /\ Unused(8)
       \/ part = "store" /\ Store!Init /\ Unused(9)
       \/ part = "store_retries" /\ Again!Init /\ Unused(9)

PagesNext ==
    \/ part = "stream" /\ UntrustedNext /\ UNCHANGED <<part, x1, x2, x3, x4, x5, x6, x7, x8, x9, x10>>
    \/ part = "notifications" /\ Note!Next /\ UNCHANGED <<allVars, part>>
    \/ part = "commands" /\ Cmd!Next /\ UNCHANGED <<allVars, part, x8, x9, x10>>
    \/ part = "household" /\ Adm!Next /\ UNCHANGED <<allVars, part, x9, x10>>
    \/ part = "store" /\ Store!Next /\ UNCHANGED <<allVars, part, x10>>
    \/ part = "store_retries" /\ Again!Next /\ UNCHANGED <<allVars, part, x10>>

PagesSpec == PagesInit /\ [][PagesNext]_all

-----------------------------------------------------------------------------
(* Each is stated, with the code it is about, in the module it is of. *)

\* What a user writes is neither lost nor taken twice, but for the exceptions
\* `NothingLost` and `NothingTwice` name, and no control stays disabled (app.rs).
CommandsKept == part = "commands" => Cmd!CommandsKept

\* What the switch for notifications, and the admin's screen for the
\* household's sign-in, show is so, as far as the page was told of it
\* (notifications.rs, app.rs).
ControlsAreReal ==
    /\ part = "notifications" => Note!SwitchIsReal
    /\ part = "household" => Adm!ScreenIsReal

\* What a page shows, when it loads nothing, is what the log says, with no
\* message missing, whatever failed and was tried again (`Store`).
CopyIsCurrent ==
    /\ part = "store" => Store!CopyIsCurrent /\ Store!StatusIsCurrent
    /\ part = "store_retries" => Again!CopyIsCurrent /\ Again!StatusIsCurrent

=============================================================================
