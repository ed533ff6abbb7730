------------------------------ MODULE Replies ------------------------------
(***************************************************************************)
(* How the replies Codex streams become rows and events: the router's part *)
(* in crates/bokkie-gateway/src/bots/service.rs and store.rs, over the     *)
(* turns of several users, and what a page makes of the events (apps/      *)
(* bokkie-web/src/store.rs).                                               *)
(*                                                                         *)
(* A text is a sequence of pieces, numbered in the order Codex said them.  *)
(* The router is one task, so each event is one action: every write in it  *)
(* may fail, which ends it there, and a crash in it comes to a failure and *)
(* a crash after it.  Each user has one Bot.                               *)
(***************************************************************************)
EXTENDS Integers, SequencesExt

CONSTANTS
    Users,
    MaxReplies, MaxText, MaxTurns, MaxFaults   \* bounds: per user, per reply, in all, in all

VARIABLES
    turn,     \* each user's turn that is running, if any, and how many began
    said,     \* each reply: its turn, the pieces said, and whether Codex ended it
    rows,     \* the messages table
    replies,  \* `Live::replies`
    page,     \* the messages as a page that follows the events has them
    lost,     \* replies a write of which failed
    unsaved,  \* replies whose final text was not written
    stuck,    \* replies that streamed when the end of their turn failed to be written
    faults

vars == <<turn, said, rows, replies, page, lost, unsaved, stuck, faults>>

Replies == Users \X (1..MaxReplies)
None == [state |-> "none", text |-> <<>>]
Pieces(m, n) == [k \in 1..(n - m) |-> m + k]
Silent == [turn |-> 0, pieces |-> 0, over |-> FALSE]

Init ==
    /\ turn = [u \in Users |-> [running |-> 0, begun |-> 0]]
    /\ said = [r \in Replies |-> Silent]
    /\ rows = [r \in Replies |-> None]
    /\ replies = <<>>
    /\ page = rows
    /\ lost = {} /\ unsaved = {} /\ stuck = {}
    /\ faults = 0

Fails == faults < MaxFaults /\ faults' = faults + 1

\* The replies under way, with what is not yet written.
Known == DOMAIN replies
Pending == {r \in Known : replies[r].pending # <<>>}
Without(rs) == [r \in Known \ rs |-> replies[r]]
With(r, reply) == [q \in Known \cup {r} |-> IF q = r THEN reply ELSE replies[q]]

NewReply(text) == [pending |-> <<>>, written |-> Len(text)]

\* What a page makes of a delta: it skips what it has, and loads the message
\* if the delta starts beyond it (`append_delta`).
Appended(held, offset, delta, row) ==
    IF held.state # "streaming" THEN held
    ELSE IF offset > Len(held.text) THEN row
    ELSE [held EXCEPT !.text = @ \o SubSeq(delta, Len(held.text) - offset + 1, Len(delta))]

\* Writes out the pending text of the replies of `rs`, which are done with
\* now; of the others the pending text is taken, but not written (`flush`).
Flushed(rs) ==
    /\ rows' = [r \in Replies |->
                  IF r \in rs THEN [rows[r] EXCEPT !.text = @ \o replies[r].pending] ELSE rows[r]]
    /\ page' = [r \in Replies |->
                  IF r \in rs THEN Appended(page[r], replies[r].written, replies[r].pending, rows'[r])
                  ELSE page[r]]
    /\ lost' = lost \cup (Pending \ rs)

\* All pending text is taken, and counted as written, before any is (`flush`).
Taken(rs) ==
    [r \in Known |-> [pending |-> <<>>, written |-> replies[r].written + Len(replies[r].pending)]]

-----------------------------------------------------------------------------
(* What Codex reports *)

Begun == FoldFunction(LAMBDA t, n : t.begun + n, 0, turn)

TurnStarts(u) ==
    /\ turn[u].running = 0 /\ Begun < MaxTurns
    /\ turn' = [turn EXCEPT ![u] = [running |-> @.begun + 1, begun |-> @.begun + 1]]
    /\ UNCHANGED <<said, rows, replies, page, lost, unsaved, stuck, faults>>

\* A turn says one reply after another.
Speaking(r) == said[r].turn # 0 /\ said[r].turn = turn[r[1]].running /\ ~said[r].over
NextReply(u) ==
    {r \in {u} \X (1..MaxReplies) :
        said[r].turn = 0 /\ \A n \in 1..(r[2] - 1) : said[<<u, n>>].turn # 0 /\ ~Speaking(<<u, n>>)}

\* The reply's message is written, with the text it begins with (`reply`).
Creates(r, text) ==
    /\ rows' = [rows EXCEPT ![r] = [state |-> "streaming", text |-> text]]
    /\ page' = [page EXCEPT ![r] = rows'[r]]

ItemStarted(u) == \E r \in NextReply(u), n \in 0..1 :
    /\ turn[u].running # 0
    /\ said' = [said EXCEPT ![r] = [turn |-> turn[u].running, pieces |-> n, over |-> FALSE]]
    /\ \/ /\ Creates(r, Pieces(0, n))
          /\ replies' = With(r, NewReply(Pieces(0, n)))
          /\ UNCHANGED <<lost, faults>>
       \/ Fails /\ lost' = lost \cup {r} /\ UNCHANGED <<rows, page, replies>>
    /\ UNCHANGED <<turn, unsaved, stuck>>

\* A delta of a reply that is not known, its start having failed, begins it.
Delta(r) ==
    /\ Speaking(r) /\ said[r].pieces < MaxText
    /\ said' = [said EXCEPT ![r].pieces = @ + 1]
    /\ LET new == <<said'[r].pieces>> IN
       \/ /\ r \in Known
          /\ replies' = [replies EXCEPT ![r].pending = @ \o new]
          /\ UNCHANGED <<rows, page, lost, faults>>
       \/ /\ r \notin Known
          /\ Creates(r, <<>>)
          /\ replies' = With(r, [NewReply(<<>>) EXCEPT !.pending = new])
          /\ UNCHANGED <<lost, faults>>
       \/ /\ r \notin Known /\ Fails
          /\ lost' = lost \cup {r}
          /\ UNCHANGED <<rows, page, replies>>
    /\ UNCHANGED <<turn, unsaved, stuck>>

\* The replies of `rs` that stream in the table end.
Ends(rs, final) ==
    LET ending == {r \in rs : rows[r].state = "streaming"}
    IN  /\ rows' = [r \in Replies |-> IF r \in ending THEN final[r] ELSE rows[r]]
        /\ page' = [r \in Replies |-> IF r \in ending THEN rows'[r] ELSE page[r]]

\* The final text replaces whatever streamed.  It may end in a piece that did
\* not stream.
ItemCompleted(r) == \E n \in 0..1 :
    /\ Speaking(r) /\ said[r].pieces + n =< MaxText
    /\ said' = [said EXCEPT ![r].over = TRUE, ![r].pieces = @ + n]
    /\ replies' = Without({r})
    /\ \/ /\ r \in Known
          /\ Ends({r}, [q \in {r} |-> [state |-> "complete", text |-> Pieces(0, said'[q].pieces)]])
          /\ UNCHANGED <<unsaved, faults>>
       \/ /\ r \in Known /\ Fails
          /\ unsaved' = unsaved \cup {r}
          /\ UNCHANGED <<rows, page>>
       \/ /\ r \notin Known
          /\ unsaved' = unsaved \cup {r}
          /\ UNCHANGED <<rows, page, faults>>
    /\ UNCHANGED <<turn, lost, stuck>>

Flush ==
    /\ Pending # {}
    /\ \/ Flushed(Pending) /\ replies' = Taken(Pending) /\ UNCHANGED faults
       \/ \E rs \in SUBSET Pending \ {Pending} :
             Fails /\ Flushed(rs) /\ replies' = Taken(rs)
    /\ UNCHANGED <<turn, said, unsaved, stuck>>

\* The replies of `rs` end in `state`: pending text is written, all users'
\* too, and then the replies that stream are ended, in one batch
\* (`finish_streaming`).  What fails is not tried again.
FinishStreaming(rs, state) ==
    \/ /\ replies' = [r \in Known \ rs |-> Taken(Pending)[r]]
       /\ LET text(r) == rows[r].text \o IF r \in Pending THEN replies[r].pending ELSE <<>>
              sent == [r \in Replies |->
                          IF r \in Pending
                          THEN Appended(page[r], replies[r].written, replies[r].pending,
                                        [rows[r] EXCEPT !.text = text(r)])
                          ELSE page[r]]
              ended(r) == r \in rs /\ rows[r].state = "streaming"
          IN  \/ /\ rows' = [r \in Replies |->
                               [state |-> IF ended(r) THEN state ELSE rows[r].state, text |-> text(r)]]
                 /\ page' = [r \in Replies |-> IF ended(r) THEN rows'[r] ELSE sent[r]]
                 /\ stuck' = stuck \ rs
                 /\ UNCHANGED faults
              \/ /\ Fails
                 /\ rows' = [r \in Replies |-> [rows[r] EXCEPT !.text = text(r)]]
                 /\ page' = sent
                 /\ stuck' = stuck \cup {r \in rs : rows[r].state = "streaming"}
       /\ UNCHANGED lost
    \/ \E flushed \in SUBSET Pending \ {Pending} :
          /\ Fails
          /\ Flushed(flushed)
          /\ replies' = Taken(flushed)
          /\ stuck' = stuck \cup {r \in rs : rows[r].state = "streaming"}

\* Mutant: a turn's end ends the replies under way, not those in the table.
OfTurnKnown(u) == {r \in Known : r[1] = u /\ said[r].turn = turn[u].running}

OfTurn(u) == {r \in {u} \X (1..MaxReplies) : said[r].turn = turn[u].running}

\* A turn that completes has ended its replies; one cut short need not have.
TurnCompleted(u) == \E status \in {"complete", "interrupted", "failed"} :
    /\ turn[u].running # 0
    /\ status = "complete" => \A r \in OfTurn(u) : ~Speaking(r)
    /\ turn' = [turn EXCEPT ![u].running = 0]
    /\ FinishStreaming(OfTurn(u), status)
    /\ UNCHANGED <<said, unsaved>>

\* The user's app server stops.  The Bots it ran are read first, and then the
\* user's replies end, whatever their turn.
Exited(u) ==
    /\ turn' = [turn EXCEPT ![u].running = 0]
    /\ LET all == {u} \X (1..MaxReplies) IN
       \/ FinishStreaming(all, "failed")
       \/ /\ Fails
          /\ stuck' = stuck \cup {r \in all : rows[r].state = "streaming"}
          /\ UNCHANGED <<rows, page, replies, lost>>
    /\ UNCHANGED <<said, unsaved>>

\* Pages are told of what a restart ends (`recover`).
Restart ==
    /\ Fails
    /\ turn' = [u \in Users |-> [turn[u] EXCEPT !.running = 0]]
    /\ replies' = <<>>
    /\ Ends(Replies, [r \in Replies |-> [rows[r] EXCEPT !.state = "failed"]])
    /\ lost' = lost \cup Known
    /\ stuck' = {}
    /\ UNCHANGED <<said, unsaved>>

Next ==
    \/ \E u \in Users : TurnStarts(u) \/ ItemStarted(u) \/ TurnCompleted(u) \/ Exited(u)
    \/ \E r \in Replies : Delta(r) \/ ItemCompleted(r)
    \/ Flush \/ Restart

Spec == Init /\ [][Next]_vars

-----------------------------------------------------------------------------
(* Correctness *)

\* A page that follows the events has what the table has: each delta starts
\* where the text before it ends, or beyond it where one before was lost, so
\* that the page loads the message rather than miss a piece (events.rs,
\* "reload the message if `offset` is beyond the text the client holds").
PageFollows == page = rows

\* Unless a write failed, the table and what is pending are all Codex said;
\* and a failure leaves pieces out, but never one twice or out of order.
TextIsSaid ==
    \A r \in Replies :
        LET text == rows[r].text \o (IF r \in Known THEN replies[r].pending ELSE <<>>)
        IN  /\ r \in lost \cup unsaved \/ text = Pieces(0, said[r].pieces)
            /\ \A k \in 1..(Len(text) - 1) : text[k] < text[k + 1]

\* A reply Codex finished is whole, whatever was lost as it streamed, if its
\* end was written.
FinishedIsWhole ==
    \A r \in Replies :
        said[r].over /\ r \notin unsaved =>
            rows[r] = [state |-> "complete", text |-> Pieces(0, said[r].pieces)]

\* A reply streams while Codex says it, or to the end of its turn if its own
\* end was not written.  One left streaming because its turn's end was not
\* written ends with its user's app server, or as the gateway starts.
NoneLeftStreaming ==
    \A r \in Replies :
        rows[r].state = "streaming" =>
            \/ said[r].turn = turn[r[1]].running /\ (~said[r].over \/ r \in unsaved)
            \/ r \in stuck

RepliesAreSaid == PageFollows /\ TextIsSaid /\ FinishedIsWhole /\ NoneLeftStreaming

=============================================================================
