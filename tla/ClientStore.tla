---------------------------- MODULE ClientStore -----------------------------
(***************************************************************************)
(* The page's copy of a user's Bot and its conversation: HTTP snapshots    *)
(* merged with the event log (apps/bokkie-web/src/store.rs), and the loads *)
(* that ask for them (apps/bokkie-web/src/app.rs).                         *)
(*                                                                         *)
(* There is one Bot, in the list.  Its log carries its messages and its    *)
(* status, and a message is how much text it has and whether it streams.   *)
(* The gateway's rows and its status change with the events that tell of   *)
(* them, and what a request reads it reads at some time before its answer  *)
(* is taken.  The page's connection delivers the log in order and once, or *)
(* has everything reloaded (`EventFeed`).  The routines, which load as the *)
(* newest messages do, the usage meter, unread marks and errors the Bot    *)
(* reports are left out.                                                   *)
(***************************************************************************)
EXTENDS Integers, Sequences, FiniteSets, TLC, SequencesExt

CONSTANTS
    PageSize,       \* the messages of one page
    MaxHeld,        \* `MAX_HELD`
    MaxSeq, MaxMessages, MaxText, MaxReloads, MaxOpens, MaxFaults  \* bounds

VARIABLES
    log,        \* gateway: each event, with the messages and the status it left
    at,         \* page: how far into the log its connection is, once live
    live,       \* page: whether its socket has been live
    open,       \* page: whether the conversation is open
    errors,     \* page: the snapshots shown as failed to load
    store,      \* page: the `Store`
    inFlight,   \* page: `App::in_flight`, each with when and what it was asked
    again,      \* page: `App::again`
    used        \* bounds: reloads, openings and faults

vars == <<log, at, live, open, errors, store, inFlight, again, used>>

Snapshots == {"bots", "messages", "older"}

-----------------------------------------------------------------------------
(* The gateway *)

\* What the gateway has after its first p events.
Rows(p) == IF p = 0 THEN <<>> ELSE log[p].rows
Status(p) == p > 0 /\ log[p].status

Latest == Len(log)

Emit(event, rows, status) ==
    /\ Latest < MaxSeq
    /\ log' = Append(log, [event |-> event, rows |-> rows, status |-> status])

\* A message is written: a whole one, or the beginning of a reply. Part of a
\* reply follows, or its end. The Bot begins or ends to work.
GatewayStep ==
    \/ \E state \in {"streaming", "complete"} :
        LET new == [state |-> state, len |-> IF state = "complete" THEN 1 ELSE 0] IN
            /\ Len(Rows(Latest)) < MaxMessages
            /\ Emit([kind |-> "created", m |-> Len(Rows(Latest)) + 1, to |-> new],
                    Append(Rows(Latest), new), Status(Latest))
    \/ \E m \in DOMAIN Rows(Latest) :
        LET message == Rows(Latest)[m]
            longer == [message EXCEPT !.len = @ + 1]
            whole == [message EXCEPT !.state = "complete"] IN
            /\ message.state = "streaming"
            /\ \/ /\ message.len < MaxText
                  /\ Emit([kind |-> "delta", m |-> m, to |-> longer],
                          [Rows(Latest) EXCEPT ![m] = longer], Status(Latest))
               \/ Emit([kind |-> "completed", m |-> m, to |-> whole],
                       [Rows(Latest) EXCEPT ![m] = whole], Status(Latest))
    \/ Emit([kind |-> "status"], Rows(Latest), ~Status(Latest))

-----------------------------------------------------------------------------
(* The store *)

NoRows == [m \in {} |-> 0]
NoPreview == [m |-> 0]

\* The newest of a set of messages, and what the list shows of a message.
Newest(rows) == IF DOMAIN rows = {} THEN 0 ELSE CHOOSE m \in DOMAIN rows : \A n \in DOMAIN rows : n <= m
Preview(rows, m) == [m |-> m, message |-> rows[m]]

\* `older` is 0 at the conversation's start; a copy of no conversation is not
\* `copied`, and `listSeq` is -1 until the list has loaded.
NewStore ==
    [copied |-> FALSE, seq |-> 0, rows |-> NoRows, older |-> 0, requested |-> 0,
     listSeq |-> -1, status |-> FALSE, preview |-> NoPreview, newest |-> 0,
     loading |-> {"bots"}, held |-> <<>>, stale |-> {}, reload |-> {}]

Reloads(s, snapshot) == [s EXCEPT !.reload = @ \cup {snapshot}]

\* Whether a delta does not begin beyond the text held (`append_delta`).
Fits(message, event) == event.to.len - 1 <= message.len

\* A message with what it did not hold of a delta.
Extended(message, event) ==
    IF message.state = "complete" \/ message.len >= event.to.len THEN message
    ELSE [message EXCEPT !.len = event.to.len]

\* `apply_to_conversation`
ToConversation(s, i) ==
    LET event == log[i].event
        kept == [s EXCEPT !.rows = (event.m :> event.to) @@ @] IN
    IF ~s.copied \/ i <= s.seq \/ event.kind = "status" THEN s
    ELSE IF event.kind = "created"
    THEN IF event.m \in DOMAIN s.rows /\ (s.rows[event.m].state = "complete"
                                          \/ s.rows[event.m].len >= event.to.len)
         THEN s ELSE kept
    ELSE IF event.kind = "completed" THEN kept
    ELSE IF event.m \notin DOMAIN s.rows THEN Reloads(s, "messages")
    ELSE IF s.rows[event.m].state = "streaming" /\ ~Fits(s.rows[event.m], event)
    THEN Reloads(s, "messages")
    ELSE [s EXCEPT !.rows[event.m] = Extended(@, event)]

\* The list's preview of a message, from the copy if that holds it.
Previewed(s, m, else) ==
    [s EXCEPT !.preview = IF m \in DOMAIN s.rows THEN Preview(s.rows, m) ELSE else]

Noted(s, m) == [s EXCEPT !.newest = IF m > @ THEN m ELSE @]

\* `apply_to_bots`
ToBots(s, i) ==
    LET event == log[i].event
        shown == [m |-> event.m, message |-> event.to] IN
    IF s.listSeq = -1 \/ i <= s.listSeq THEN s
    ELSE IF event.kind = "status" THEN [s EXCEPT !.status = log[i].status]
    ELSE IF event.kind = "created"
    THEN IF s.newest > event.m THEN s
         ELSE IF s.newest = event.m THEN Previewed(s, event.m, s.preview)
         ELSE Previewed(Noted(s, event.m), event.m, shown)
    ELSE IF event.kind = "delta"
    THEN IF s.newest = event.m THEN Previewed(s, event.m, s.preview) ELSE s
    ELSE IF s.newest > event.m THEN s
    ELSE IF s.newest = 0 THEN Reloads(s, "bots")
    ELSE [Noted(s, event.m) EXCEPT !.preview = shown]

\* Mutant: an event that is applied is not held for the snapshots loading.
HoldNone(s, i) == s

\* An event is held while anything loads; a full buffer is dropped, and what
\* loads is then loaded again.
Hold(s, i) ==
    IF s.loading = {} THEN s
    ELSE IF Len(s.held) >= MaxHeld
    THEN [s EXCEPT !.held = <<i>>, !.stale = @ \cup s.loading]
    ELSE [s EXCEPT !.held = Append(@, i)]

\* `finish`: only what does not load already is to be loaded.
Finish(s) == [s EXCEPT !.reload = @ \ s.loading, !.loading = @ \cup s.reload]

\* `settle`
Settle(s) == IF s.loading = {} THEN [s EXCEPT !.held = <<>>] ELSE s

\* `Store::apply`
Applied(s, i) == Finish(ToBots(ToConversation(Hold(s, i), i), i))

After(s, seq) == SelectSeq(s.held, LAMBDA i : i > seq)

\* A snapshot has loaded; it loads again if it went stale.
Loaded(s, snapshot) ==
    Settle([s EXCEPT !.loading = @ \ {snapshot}, !.stale = @ \ {snapshot},
                     !.reload = @ \cup ({snapshot} \cap s.stale)])

\* `load_bots`
LoadBots(s, page) ==
    LET listed == [s EXCEPT !.listSeq = page.seq, !.status = page.status,
                            !.preview = page.preview] IN
    Finish(Loaded(FoldLeft(ToBots, listed, After(s, page.seq)), "bots"))

\* `load_messages`
LoadMessages(s, page) ==
    LET copy == [Noted(s, Newest(page.rows)) EXCEPT
                   !.copied = TRUE, !.seq = page.seq, !.rows = page.rows,
                   !.older = page.older, !.requested = 0] IN
    Finish(Loaded(FoldLeft(ToConversation, copy, After(s, page.seq)), "messages"))

\* What a held event makes of the older messages a page brings.
ToEarlier(earlier, i) ==
    LET event == log[i].event IN
    IF event.kind \notin {"delta", "completed"} \/ event.m \notin DOMAIN earlier THEN earlier
    ELSE IF event.kind = "completed" THEN [earlier EXCEPT ![event.m] = event.to]
    ELSE [earlier EXCEPT ![event.m] = Extended(@, event)]

\* Whether they hold every delta from its start.
Accounts(earlier, held) ==
    \A k \in DOMAIN held :
        LET event == log[held[k]].event
            before == FoldLeft(ToEarlier, earlier, SubSeq(held, 1, k - 1)) IN
        event.kind = "delta" /\ event.m \in DOMAIN before =>
            before[event.m].state = "complete" \/ Fits(before[event.m], event)

\* Whether the copy a page was asked for is the one there is.
IsForCopy(s, before) == s.copied /\ s.requested = before /\ s.older = before

\* `load_older`
LoadOlder(s, before, page) ==
    LET rest == [s EXCEPT !.loading = @ \ {"older"}, !.stale = @ \ {"older"}]
        earlier == [m \in {n \in DOMAIN page.rows : n < before /\ n \notin DOMAIN s.rows} |->
                        page.rows[m]]
        held == After(s, page.seq) IN
    Finish(Settle(
        IF ~IsForCopy(s, before) THEN rest
        ELSE IF "older" \in s.stale \/ ~Accounts(earlier, held)
        THEN Reloads([rest EXCEPT !.requested = 0], "older")
        ELSE [rest EXCEPT !.requested = 0, !.older = page.older,
                          !.rows = FoldLeft(ToEarlier, earlier, held) @@ @]))

\* `load_failed`
LoadFailed(s, snapshot) ==
    Settle([s EXCEPT !.loading = @ \ {snapshot}, !.stale = @ \ {snapshot},
                     !.requested = IF snapshot = "older" THEN 0 ELSE @])

\* `close_conversation`
Closed(s) ==
    Settle([s EXCEPT !.copied = FALSE, !.seq = 0, !.rows = NoRows, !.older = 0, !.requested = 0,
                     !.loading = @ \ {"messages", "older"},
                     !.stale = @ \ {"messages", "older"}])

-----------------------------------------------------------------------------
(* The page's loads *)

\* The snapshots whose requests are in flight.
InFlight == DOMAIN inFlight

Request(s, snapshot) ==
    [before |-> IF snapshot = "older" THEN s.older ELSE 0, since |-> Latest]

Again(snapshots, flying) == (snapshots \ {"older"}) \cap flying

\* `App::load`, after the loads of `done` answered: what is in flight is
\* loaded again, older messages excepted, and older messages load only from
\* a copy that does not begin with the first.
Load(s, snapshots, done) ==
    LET flying == InFlight \ done
        older == "older" \in snapshots /\ "older" \notin flying
        none == older /\ s.older = 0
        sent == (snapshots \ flying) \ (IF none THEN {"older"} ELSE {})
        marked == [s EXCEPT !.reload = {}, !.loading = @ \cup (snapshots \ {"older"}) \cup sent,
                            !.requested = IF older THEN s.older ELSE @] IN
    /\ store' = IF none THEN LoadFailed(marked, "older") ELSE marked
    /\ inFlight' = [x \in flying \cup sent |-> IF x \in flying THEN inFlight[x] ELSE Request(s, x)]
    /\ again' = (again \ done) \cup Again(snapshots, flying)

\* The newest messages before one, and where older ones begin.
PageOf(rows, before) ==
    LET ids == {m \in DOMAIN rows : before = 0 \/ m < before}
        page == {m \in ids : Cardinality({n \in ids : n > m}) < PageSize} IN
    [rows |-> [m \in page |-> rows[m]],
     older |-> IF page = ids THEN 0 ELSE CHOOSE m \in page : \A n \in page : m <= n]

\* Where a request's watermark and then its rows are read (`routes/bots.rs`).
Reads(since) == {r \in (since .. Latest) \X (since .. Latest) : r[1] <= r[2]}

\* What a request answers that read them there.
Page(snapshot, before, read) ==
    LET rows == Rows(read[2]) IN
    IF snapshot # "bots" THEN PageOf(rows, before) @@ [seq |-> read[1]]
    ELSE [seq |-> read[1], status |-> Status(read[2]),
          preview |-> IF rows = <<>> THEN NoPreview ELSE Preview(rows, Len(rows))]

\* A load answers, and is loaded again if it was asked for meanwhile. The
\* answer for a conversation closed meanwhile is dropped.
Answer(snapshot) ==
    /\ IF snapshot # "bots" /\ ~open
       THEN Load(store, {}, {snapshot}) /\ UNCHANGED errors
       ELSE /\ \E read \in Reads(inFlight[snapshot].since) :
                LET before == inFlight[snapshot].before
                    page == Page(snapshot, before, read)
                    s == CASE snapshot = "bots" -> LoadBots(store, page)
                           [] snapshot = "messages" -> LoadMessages(store, page)
                           [] snapshot = "older" -> LoadOlder(store, before, page) IN
                    Load(s, s.reload \cup ({snapshot} \cap again), {snapshot})
            /\ errors' = errors \ ({snapshot} \cup (IF snapshot = "messages" THEN {"older"} ELSE {}))
    /\ UNCHANGED <<log, at, live, open, used>>

\* A load fails: it is shown, unless it is loaded again.
Fails(snapshot) ==
    /\ used.faults < MaxFaults
    /\ used' = [used EXCEPT !.faults = @ + 1]
    /\ IF snapshot # "bots" /\ ~open
       THEN Load(store, {}, {snapshot}) /\ UNCHANGED errors
       ELSE IF snapshot \in again
       THEN Load(store, {snapshot}, {snapshot}) /\ UNCHANGED errors
       ELSE Load(LoadFailed(store, snapshot), {}, {snapshot}) /\ errors' = errors \cup {snapshot}
    /\ UNCHANGED <<log, at, live, open>>

\* The connection delivers the next event.
Deliver ==
    /\ live /\ at < Latest
    /\ at' = at + 1
    /\ LET s == Applied(store, at') IN Load(s, s.reload, {})
    /\ UNCHANGED <<log, live, open, errors, used>>

\* The first time live, or after a reset, everything is reloaded
\* (`reload_everything`).
Reload ==
    /\ live => at < Latest /\ used.reloads < MaxReloads
    /\ used' = IF live THEN [used EXCEPT !.reloads = @ + 1] ELSE used
    /\ live' = TRUE /\ at' = Latest
    /\ Load(store, {"bots"} \cup (IF open THEN {"messages"} ELSE {}), {})
    /\ UNCHANGED <<log, open, errors>>

\* The link is live again: what failed is retried.
Retry ==
    /\ live /\ errors \ {"older"} # {} /\ (errors \ {"older"}) \cap InFlight = {}
    /\ Load(store, errors \ {"older"}, {})
    /\ UNCHANGED <<log, at, live, open, errors, used>>

Open ==
    /\ ~open /\ store.listSeq >= 0 /\ used.opens < MaxOpens
    /\ open' = TRUE
    /\ used' = [used EXCEPT !.opens = @ + 1]
    /\ Load(store, {"messages"}, {})
    /\ UNCHANGED <<log, at, live, errors>>

\* Leaving the conversation lets its copy go, but not what is in flight.
Close ==
    /\ open /\ open' = FALSE
    /\ store' = Closed(store)
    /\ errors' = errors \cap {"bots"}
    /\ UNCHANGED <<log, at, live, inFlight, again, used>>

AskOlder ==
    /\ open /\ "older" \notin InFlight /\ store.older > 0
    /\ Load(store, {"older"}, {})
    /\ errors' = errors \ {"older"}
    /\ UNCHANGED <<log, at, live, open, used>>

Init ==
    /\ log = <<>> /\ at = 0 /\ live = FALSE /\ open = FALSE /\ errors = {}
    /\ store = NewStore
    /\ inFlight = [x \in {"bots"} |-> Request(NewStore, x)] /\ again = {}
    /\ used = [reloads |-> 0, opens |-> 0, faults |-> 0]

PageStep ==
    \/ \E snapshot \in InFlight :
        Answer(snapshot) \/ Fails(snapshot)
    \/ Deliver \/ Reload \/ Retry \/ Open \/ Close \/ AskOlder

Next == PageStep \/ (GatewayStep /\ UNCHANGED <<at, live, open, errors, store, inFlight, again, used>>)

Spec == Init /\ [][Next]_vars

-----------------------------------------------------------------------------
(* Properties *)

\* What a part of the page shows is as the log had it, no earlier than what
\* the page was told.
IsAsOf(Had(_)) == \E p \in at .. Latest : Had(p)

\* A conversation that is not being loaded, and did not fail to load, has no
\* hole from its first message on, and each message is as it was in the log
\* at some position the page has reached or is yet to reach: snapshots that
\* run ahead, held events, dropped ones, gaps, older pages and answers that
\* come late leave nothing behind.
CopyIsCurrent ==
    store.copied /\ live /\ "messages" \notin store.loading \cup errors =>
        /\ \A m \in DOMAIN store.rows :
            IsAsOf(LAMBDA p : m \in DOMAIN Rows(p) /\ Rows(p)[m] = store.rows[m])
        /\ {m \in DOMAIN Rows(at) : m >= store.older} \subseteq DOMAIN store.rows

\* So does the list show the Bot's status.
StatusIsCurrent ==
    live /\ store.listSeq >= 0 /\ "bots" \notin store.loading \cup errors =>
        IsAsOf(LAMBDA p : store.status = Status(p))

\* The list previews the Bot's newest message.
PreviewIsNewest ==
    live /\ store.listSeq >= 0 /\ "bots" \notin store.loading \cup errors =>
        IsAsOf(LAMBDA p : store.preview.m = Len(Rows(p)))
=============================================================================
