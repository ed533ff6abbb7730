------------------------------ MODULE Commands ------------------------------
(***************************************************************************)
(* What a page does with what its user writes (apps/bokkie-web/src/app.rs):*)
(* drafts and profile edits of the conversation that is open, the name of  *)
(* a new Bot, and the requests that send, stop, pin and save.  An answer   *)
(* names the Bot and the kind of its request, not the request: the page    *)
(* takes it for the one it awaits, if it awaits one.                       *)
(*                                                                         *)
(* Each text is a number of its own, and 0 is none; the user writes most,  *)
(* and an agent that drives the page may give one to send.  Left out:      *)
(* signing out, which drops all, and answers that the session ended.       *)
(***************************************************************************)
EXTENDS Integers, FiniteSets

CONSTANTS Bots, MaxTexts, MaxRequests, MaxPins, MaxOpens, MaxFaults   \* bounds but for Bots

VARIABLES
    open,      \* `Open`: the conversation that is open, if any
    drafts,    \* `SignedIn::drafts`
    newBot,    \* `NewBot`
    inFlight,  \* requests, and their answers
    taken,     \* what the gateway took: each request that did
    used,      \* what has been used of the bounds
    history    \* what no code keeps (below)

vars == <<open, drafts, newBot, inFlight, taken, used, history>>

NoBot == 0
NoText == 0
NoEditor == [shown |-> FALSE, text |-> NoText, busy |-> FALSE]
Closed == [bot |-> NoBot, draft |-> NoText, sending |-> FALSE, stopping |-> FALSE,
           updating |-> FALSE, editor |-> NoEditor, failed |-> FALSE]

\* `dropped`: texts the user replaced or gave up; `given`: an agent's; `left`:
\* texts in the composer while one was being sent, and edits while they were
\* being saved, when their conversation closed; `mistaken`: those settled by
\* the answer to another request of the conversation; `unsure`: texts the
\* gateway may have taken though the answer says they failed; `refused`:
\* messages the gateway refused.
Init ==
    /\ open = Closed
    /\ drafts = [b \in Bots |-> NoText]
    /\ newBot = [name |-> NoText, busy |-> FALSE]
    /\ inFlight = {}
    /\ taken = {}
    /\ used = [texts |-> 0, requests |-> 0, pins |-> 0, opens |-> 0, faults |-> 0]
    /\ history = [dropped |-> {NoText}, given |-> {}, left |-> {NoText}, mistaken |-> {NoText},
                  unsure |-> {}, refused |-> {}]

Texts == 1..used.texts

\* A text that was not used before is an agent's.
Sends(kind, bot, text) ==
    /\ used.requests < MaxRequests
    /\ inFlight' = inFlight \cup
           {[id |-> used.requests + 1, kind |-> kind, bot |-> bot, text |-> text, answer |-> "none"]}
    /\ used' = [used EXCEPT !.requests = @ + 1,
                             !.pins = IF kind = "pin" THEN @ + 1 ELSE @,
                             !.texts = IF text > @ THEN text ELSE @]
    /\ history' = [history EXCEPT !.given = IF text > used.texts THEN @ \cup {text} ELSE @]

Types(text) ==
    /\ used.texts < MaxTexts
    /\ used' = [used EXCEPT !.texts = @ + 1]
    /\ history' = [history EXCEPT !.dropped = @ \cup {text}]

-----------------------------------------------------------------------------
(* Conversations *)

\* What closes with its conversation: the draft, while it or another text is
\* being sent, and the edit, as it is saved or unsaved.
SentWhenClosed ==
    (IF open.sending THEN {open.draft} ELSE {}) \cup (IF open.editor.busy THEN {open.editor.text} ELSE {})
Unsaved == {open.editor.text} \ SentWhenClosed

\* The draft is kept for when the conversation opens again, unless something
\* is being sent (`take_open`).
Kept == IF open.bot # NoBot /\ ~open.sending /\ open.draft # NoText
        THEN [drafts EXCEPT ![open.bot] = open.draft] ELSE drafts

LeavesOpen ==
    history' = [history EXCEPT !.left = @ \cup SentWhenClosed, !.dropped = @ \cup Unsaved]

\* Choosing the Bot that is open keeps its conversation (`open_conversation`).
OpenConversation(b) ==
    /\ used.opens < MaxOpens /\ open.bot # b
    /\ used' = [used EXCEPT !.opens = @ + 1]
    /\ open' = [Closed EXCEPT !.bot = b, !.draft = Kept[b]]
    /\ drafts' = [Kept EXCEPT ![b] = NoText]
    /\ LeavesOpen
    /\ UNCHANGED <<newBot, inFlight, taken>>

Back ==
    /\ open.bot # NoBot
    /\ open' = Closed
    /\ drafts' = Kept
    /\ LeavesOpen
    /\ UNCHANGED <<newBot, inFlight, taken, used>>

EditDraft ==
    /\ open.bot # NoBot /\ ~open.sending
    /\ Types(open.draft)
    /\ open' = [open EXCEPT !.draft = used'.texts]
    /\ UNCHANGED <<drafts, newBot, inFlight, taken>>

\* The composer gives the draft, and an agent any text (`send_text`); the Bot
\* is not refused (`can_send`).
Send ==
    /\ open.bot # NoBot /\ ~open.sending
    /\ open' = [open EXCEPT !.sending = TRUE, !.failed = FALSE]
    /\ \E text \in {open.draft, used.texts + 1} \ {NoText} :
          text =< MaxTexts /\ Sends("send", open.bot, text)
    /\ UNCHANGED <<drafts, newBot, taken>>

\* The Bot is working (`can_stop`).
Stop ==
    /\ open.bot # NoBot /\ ~open.stopping
    /\ open' = [open EXCEPT !.stopping = TRUE]
    /\ Sends("stop", open.bot, NoText)
    /\ UNCHANGED <<drafts, newBot, taken>>

CanUpdate == open.bot # NoBot /\ ~open.updating /\ ~open.editor.busy

\* A Bot is pinned or hidden, or a grant of it is changed.
Pin ==
    /\ CanUpdate /\ used.pins < MaxPins
    /\ open' = [open EXCEPT !.updating = TRUE]
    /\ Sends("pin", open.bot, NoText)
    /\ UNCHANGED <<drafts, newBot, taken>>

EditProfile ==
    /\ CanUpdate /\ ~open.editor.shown
    /\ open' = [open EXCEPT !.editor.shown = TRUE]
    /\ UNCHANGED <<drafts, newBot, inFlight, taken, used, history>>

EditName ==
    /\ open.editor.shown /\ ~open.editor.busy
    /\ Types(open.editor.text)
    /\ open' = [open EXCEPT !.editor.text = used'.texts]
    /\ UNCHANGED <<drafts, newBot, inFlight, taken>>

SaveProfile ==
    /\ open.editor.shown /\ ~open.editor.busy
    /\ \/ /\ open.editor.text = NoText
          /\ open' = [open EXCEPT !.editor = NoEditor]
          /\ UNCHANGED <<inFlight, used, history>>
       \/ /\ open.editor.text # NoText
          /\ open' = [open EXCEPT !.editor.busy = TRUE]
          /\ Sends("save", open.bot, open.editor.text)
    /\ UNCHANGED <<drafts, newBot, taken>>

\* The user cancels an edit, or is no longer allowed to make it, even as it is
\* saved (`account_changed`).
DropsEditor ==
    /\ open' = [open EXCEPT !.editor = NoEditor]
    /\ history' = [history EXCEPT !.dropped = @ \cup {open.editor.text}]
CancelProfile ==
    /\ open.editor.shown /\ ~open.editor.busy
    /\ DropsEditor
    /\ UNCHANGED <<drafts, newBot, inFlight, taken, used>>
MayNotEdit ==
    /\ open.editor.shown /\ used.faults < MaxFaults
    /\ used' = [used EXCEPT !.faults = @ + 1]
    /\ DropsEditor
    /\ UNCHANGED <<drafts, newBot, inFlight, taken>>

-----------------------------------------------------------------------------
(* New Bots *)

EditBotName ==
    /\ ~newBot.busy
    /\ Types(newBot.name)
    /\ newBot' = [newBot EXCEPT !.name = used'.texts]
    /\ UNCHANGED <<open, drafts, inFlight, taken>>

CreateBot ==
    /\ ~newBot.busy /\ newBot.name # NoText
    /\ newBot' = [newBot EXCEPT !.busy = TRUE]
    /\ Sends("create", NoBot, newBot.name)
    /\ UNCHANGED <<open, drafts, taken>>

-----------------------------------------------------------------------------
(* Answers *)

\* The gateway takes a request, or refuses it.
Serve(r) ==
    /\ r.answer = "none"
    /\ \E answer \in {"ok", "error"} :
          /\ inFlight' = (inFlight \ {r}) \cup {[r EXCEPT !.answer = answer]}
          /\ taken' = IF answer = "ok" THEN taken \cup {<<r.id, r.text>>} ELSE taken
          /\ history' = IF answer = "error" /\ r.kind = "send"
                        THEN [history EXCEPT !.refused = @ \cup {r.text}] ELSE history
    /\ UNCHANGED <<open, drafts, newBot, used>>

\* A request or its answer is lost: the page takes it for refused.
Lose(r) ==
    /\ r.answer \in {"none", "ok"} /\ used.faults < MaxFaults
    /\ used' = [used EXCEPT !.faults = @ + 1]
    /\ inFlight' = (inFlight \ {r}) \cup {[r EXCEPT !.answer = "error"]}
    /\ history' = IF r.answer = "ok" THEN [history EXCEPT !.unsure = @ \cup {r.text}] ELSE history
    /\ UNCHANGED <<open, drafts, newBot, taken>>

\* Mutant: the answer's Bot is not looked at.
AwaitsAny(r) == open.bot # NoBot

\* Whether the answer is for the conversation that is open.
Awaits(r) == open.bot # NoBot /\ open.bot = r.bot

\* What an answer leaves of the conversation (`reply`).
Sent(r) ==
    IF ~open.sending THEN open
    ELSE IF r.answer = "ok" THEN [open EXCEPT !.sending = FALSE, !.draft = NoText]
    ELSE [open EXCEPT !.sending = FALSE, !.failed = TRUE]
BotUpdated(r) ==
    IF open.editor.busy
    THEN [open EXCEPT !.editor = IF r.answer = "ok" THEN NoEditor ELSE [@ EXCEPT !.busy = FALSE]]
    ELSE [open EXCEPT !.updating = FALSE]

\* Whether the answer settles a text that its request did not send: the draft,
\* which it clears, or unlocks as it is being sent, or the edit being saved.
MistakesDraft(r) ==
    /\ r.kind = "send" /\ r.bot = open.bot /\ open.sending /\ r.text # open.draft
    /\ \/ r.answer = "ok"
       \/ \E q \in inFlight : q.text = open.draft
MistakesEdit(r) ==
    r.kind \in {"pin", "save"} /\ r.bot = open.bot /\ open.editor.busy /\ r.text # open.editor.text

Mistaken(r) == (IF MistakesDraft(r) THEN {open.draft} ELSE {})
               \cup (IF MistakesEdit(r) THEN {open.editor.text} ELSE {})

Answer(r) ==
    /\ r.answer # "none"
    /\ inFlight' = inFlight \ {r}
    /\ history' = [history EXCEPT !.mistaken = @ \cup Mistaken(r)]
    /\ open' = CASE r.kind = "send" /\ Awaits(r) -> Sent(r)
                 [] r.kind = "stop" /\ Awaits(r) -> [open EXCEPT !.stopping = FALSE]
                 [] r.kind \in {"pin", "save"} /\ Awaits(r) -> BotUpdated(r)
                 [] OTHER -> open
    /\ newBot' = IF r.kind # "create" THEN newBot
                 ELSE IF r.answer = "ok" THEN [name |-> NoText, busy |-> FALSE]
                 ELSE [newBot EXCEPT !.busy = FALSE]
    /\ UNCHANGED <<drafts, taken, used>>

Next ==
    \/ \E b \in Bots : OpenConversation(b)
    \/ Back \/ EditDraft \/ Send \/ Stop \/ Pin
    \/ EditProfile \/ EditName \/ SaveProfile \/ CancelProfile \/ MayNotEdit
    \/ EditBotName \/ CreateBot
    \/ \E r \in inFlight : Serve(r) \/ Lose(r) \/ Answer(r)

Spec == Init /\ [][Next]_vars

-----------------------------------------------------------------------------
(* Correctness *)

Takes(text) == Cardinality({t \in taken : t[2] = text})

\* Whether the user still has the text before them, or on opening its Bot.
Shown(text) ==
    \/ text \in {open.draft, open.editor.text, newBot.name}
    \/ \E b \in Bots : drafts[b] = text

OnItsWay(text) == \E r \in inFlight : r.text = text

\* What the user wrote is before them, on its way or taken, but for what they
\* replaced; the draft and the edit of a conversation that they left as it was
\* sending or saving (`left`); and what the answer to another request settled
\* (`mistaken`): it names the Bot and not the request, so an agent's message
\* takes the draft beside it with it, and a pin's answer closes the edit that
\* is being saved (`send_text`, `take_open`, `reply`).
NothingLost ==
    \A t \in Texts \ (history.dropped \cup history.given \cup history.left \cup history.mistaken) :
        Shown(t) \/ OnItsWay(t) \/ Takes(t) > 0

\* And nothing is taken twice, an agent's text or a user's, unless its answer
\* was lost or another request's was taken for it.
NothingTwice ==
    \A t \in Texts \ (history.unsure \cup history.mistaken) : Takes(t) =< 1

\* Once all is answered, nothing is awaited: no control stays disabled.
NoneStuck ==
    inFlight = {} =>
        ~open.sending /\ ~open.stopping /\ ~open.updating /\ ~open.editor.busy /\ ~newBot.busy

CommandsKept == NothingLost /\ NothingTwice /\ NoneStuck

\* "The draft is cleared once the gateway accepts it, and kept if it refuses
\* it" (`send_text`): a draft that was refused, and that the user did not
\* replace, is before them.
RefusedIsKept ==
    \A t \in history.refused \ (history.dropped \cup history.given) : Shown(t) \/ OnItsWay(t) \/ Takes(t) > 0

\* "The edits stay, to correct", and a draft is cleared once "the gateway
\* accepts it" (`reply`, `send_text`): what the answer to another request
\* settled is not lost by that.  The code does not do so.
SettledIsKept ==
    \A t \in history.mistaken \ (history.dropped \cup history.left) :
        Shown(t) \/ OnItsWay(t) \/ Takes(t) > 0

=============================================================================
