------------------------------ MODULE EventLog ------------------------------
(***************************************************************************)
(* One user's event log: the `events` table, the per-user lock and cached  *)
(* last number (`UserLog::last`), the write transactions that append to it *)
(* (`Batch`), the broadcast to the user's open connections and the pruning *)
(* of old rows (crates/bokkie-gateway/src/events.rs).                      *)
(*                                                                         *)
(* Users do not interact here (every row, lock and channel is keyed by the *)
(* user), so one log stands for each of them.  An event's payload is only  *)
(* who wrote it: that is enough to tell two events with one number apart.  *)
(***************************************************************************)
EXTENDS Integers, Sequences, FiniteSetsExt

CONSTANTS
    Writers,      \* tasks that append: one batch at a time each
    Conns,        \* live receivers: one per event connection
    NoOne,        \* the "writer" of a number that holds no row
    Retention,    \* events the log was asked to keep
    PruneEvery,   \* 256 in the code: prune when a batch crosses a multiple
    Capacity,     \* unread events a receiver may fall behind by
    MaxSeq        \* bound: numbers the model hands out

ASSUME WritersAssumption == NoOne \notin Writers
ASSUME LimitsAssumption ==
    /\ Retention \in Nat
    /\ PruneEvery \in Nat \ {0}
    /\ Capacity \in Nat \ {0}
    /\ MaxSeq \in Nat

VARIABLES
    body,     \* the events table: who wrote each number, NoOne for no row
    issued,   \* history: what was first committed under each number
    lock,     \* which batch holds the user's log lock
    cached,   \* *UserLog::last: the last number written, or NoSeq
    batch,    \* each writer's batch
    queue     \* each connection's broadcast receiver

table == <<body, issued>>
vars == <<body, issued, lock, cached, batch, queue>>

Seqs == 1..MaxSeq
NoSeq == -1
Event == [seq : Seqs, by : Writers]

\* `with_limits` keeps at least one event, so that the newest number is
\* always in the table to restart from.
Kept == IF Retention < 1 THEN 1 ELSE Retention

Stored == {s \in Seqs : body[s] # NoOne}
Issued == {s \in Seqs : issued[s] # NoOne}

\* Slip: counting the rows.
StoredLastByCount == Cardinality(Stored)

\* SELECT max(seq), zero when there is none.
StoredLast == IF Stored = {} THEN 0 ELSE Max(Stored)

Idle == [phase |-> "idle", first |-> 0, previous |-> 0, sent |-> 0]
Closed == [open |-> FALSE, lagged |-> FALSE, events |-> <<>>]

Batches ==
    [phase : {"idle", "locked", "open", "committed", "released"},
     first : Nat \cup {NoSeq}, previous : Nat, sent : Nat]
Receivers == [open : BOOLEAN, lagged : BOOLEAN, events : Seq(Event)]

TypeOK ==
    /\ body \in [Seqs -> Writers \cup {NoOne}]
    /\ issued \in [Seqs -> Writers \cup {NoOne}]
    /\ lock \in Writers \cup {NoOne}
    /\ cached \in Nat \cup {NoSeq}
    /\ batch \in [Writers -> Batches]
    /\ queue \in [Conns -> Receivers]

Init ==
    /\ body = [s \in Seqs |-> NoOne]
    /\ issued = [s \in Seqs |-> NoOne]
    /\ lock = NoOne
    /\ cached = NoSeq
    /\ batch = [w \in Writers |-> Idle]
    /\ queue = [c \in Conns |-> Closed]

-----------------------------------------------------------------------------
(* A batch, from taking the lock to its last statement.                     *)

\* The lock is held from here to the end of the broadcast, and the cache is
\* taken out of it: a batch that never commits leaves the cache empty.
Lock(w) ==
    /\ batch[w].phase = "idle"
    /\ lock = NoOne
    /\ lock' = w
    /\ cached' = NoSeq
    /\ batch' = [batch EXCEPT ![w] = [Idle EXCEPT !.phase = "locked", !.first = cached]]
    /\ UNCHANGED <<table, queue>>

\* BEGIN IMMEDIATE takes SQLite's write lock, then the stored maximum is read
\* unless the cache knew it.
Open(w) ==
    /\ batch[w].phase = "locked"
    /\ LET first == IF batch[w].first = NoSeq THEN StoredLast ELSE batch[w].first
       IN batch' = [batch EXCEPT ![w] = [Idle EXCEPT
                       !.phase = "open", !.first = first, !.previous = first]]
    /\ UNCHANGED <<table, lock, cached, queue>>

\* An INSERT under a number the table already holds fails on the primary key.
Emit(w) ==
    /\ batch[w].phase = "open"
    /\ batch[w].previous + 1 \in Seqs \ Stored
    /\ batch' = [batch EXCEPT ![w].previous = @ + 1]
    /\ UNCHANGED <<table, lock, cached, queue>>

\* Slip: the abandoned batch's numbers are left in the cache.
RollbackKeepsNumbers(w) ==
    /\ batch[w].phase \in {"locked", "open"}
    /\ lock' = NoOne
    /\ cached' = batch[w].previous
    /\ batch' = [batch EXCEPT ![w] = Idle]
    /\ UNCHANGED <<table, queue>>

\* The write lock or a query fails, the change is abandoned, the commit
\* fails, or the caller is dropped: the transaction rolls back and the lock's
\* guard is dropped.
Rollback(w) ==
    /\ batch[w].phase \in {"locked", "open"}
    /\ lock' = NoOne
    /\ batch' = [batch EXCEPT ![w] = Idle]
    /\ UNCHANGED <<table, cached, queue>>

\* The numbers a batch gave to its events.
Numbers(b) == (b.first + 1)..b.previous

\* The transaction commits and the cache is filled, the lock still held.
Commit(w) ==
    /\ batch[w].phase = "open"
    /\ LET new == Numbers(batch[w])
       IN /\ body' = [s \in Seqs |-> IF s \in new THEN w ELSE body[s]]
          /\ issued' = [s \in Seqs |->
                IF s \in new /\ issued[s] = NoOne THEN w ELSE issued[s]]
    /\ cached' = batch[w].previous
    /\ batch' = [batch EXCEPT ![w].phase = "committed", ![w].sent = batch[w].first]
    /\ UNCHANGED <<lock, queue>>

\* What a receiver holds once `event` is broadcast: one that falls more than
\* the capacity behind loses events and is told so when it next reads.
Offer(q, event) ==
    IF ~q.open \/ q.lagged THEN q
    ELSE IF Len(q.events) < Capacity THEN [q EXCEPT !.events = Append(@, event)]
    ELSE [q EXCEPT !.lagged = TRUE, !.events = <<>>]

\* Sends the batch's next event to every receiver; `commit` runs in a task of
\* its own, so only a crash can stop it half way.
Broadcast(w) ==
    /\ batch[w].phase = "committed"
    /\ batch[w].sent < batch[w].previous
    /\ LET event == [seq |-> batch[w].sent + 1, by |-> w]
       IN queue' = [c \in Conns |-> Offer(queue[c], event)]
    /\ batch' = [batch EXCEPT ![w].sent = @ + 1]
    /\ UNCHANGED <<table, lock, cached>>

\* Whether a batch crossed a multiple of PruneEvery with more than the
\* retained events behind it.
Prunes(b) ==
    /\ b.previous \div PruneEvery > b.first \div PruneEvery
    /\ b.previous > Kept

\* Slip: the lock is dropped as soon as the commit returns.
ReleaseEarly(w) ==
    /\ batch[w].phase = "committed"
    /\ lock' = NoOne
    /\ batch' = [batch EXCEPT ![w] = IF @.sent = @.previous THEN Idle ELSE @]
    /\ UNCHANGED <<table, cached, queue>>

\* Everything is broadcast: the lock goes, and some batches have rows to
\* prune.
Release(w) ==
    /\ batch[w].phase = "committed"
    /\ batch[w].sent = batch[w].previous
    /\ lock' = NoOne
    /\ batch' = [batch EXCEPT ![w] =
          IF Prunes(@) THEN [@ EXCEPT !.phase = "released"] ELSE Idle]
    /\ UNCHANGED <<table, cached, queue>>

\* Slip: one row too many.
PruneOneMore(w) ==
    /\ batch[w].phase = "released"
    /\ body' = [s \in Seqs |-> IF s <= batch[w].previous - Kept + 1 THEN NoOne ELSE body[s]]
    /\ batch' = [batch EXCEPT ![w] = Idle]
    /\ UNCHANGED <<issued, lock, cached, queue>>

\* The DELETE runs outside the lock and the transaction, after any number of
\* later batches, but not while another transaction writes.
Prune(w) ==
    /\ batch[w].phase = "released"
    /\ \A v \in Writers : batch[v].phase # "open"
    /\ body' = [s \in Seqs |-> IF s <= batch[w].previous - Kept THEN NoOne ELSE body[s]]
    /\ batch' = [batch EXCEPT ![w] = Idle]
    /\ UNCHANGED <<issued, lock, cached, queue>>

\* A DELETE that fails is only logged.
PruneFails(w) ==
    /\ batch[w].phase = "released"
    /\ batch' = [batch EXCEPT ![w] = Idle]
    /\ UNCHANGED <<table, lock, cached, queue>>

-----------------------------------------------------------------------------
(* Readers.                                                                 *)

\* Slip: the cache is answered though nothing has filled it.
LatestUnread == cached

\* What `latest` answers, and what it leaves in the cache.
LatestValue == IF cached = NoSeq THEN StoredLast ELSE cached

Latest ==
    /\ lock = NoOne
    /\ cached' = LatestValue
    /\ UNCHANGED <<table, lock, batch, queue>>

\* SELECT min(seq), zero when there is none.
Earliest == IF Stored = {} THEN 0 ELSE Min(Stored)

\* The first `limit` rows after `after`, in order, as numbers.
Since(after, limit) ==
    {s \in Stored : s > after /\ Cardinality({t \in Stored : after < t /\ t <= s}) <= limit}

Subscribe(c) ==
    /\ ~queue[c].open
    /\ queue' = [queue EXCEPT ![c] = [Closed EXCEPT !.open = TRUE]]
    /\ UNCHANGED <<table, lock, cached, batch>>

\* The connection takes the oldest event it has not read.
Receive(c) ==
    /\ queue[c].events # <<>>
    /\ queue' = [queue EXCEPT ![c].events = Tail(@)]
    /\ UNCHANGED <<table, lock, cached, batch>>

\* The connection ends and its receiver is dropped.
Unsubscribe(c) ==
    /\ queue[c].open
    /\ queue' = [queue EXCEPT ![c] = Closed]
    /\ UNCHANGED <<table, lock, cached, batch>>

\* The gateway stops at any point: only the committed rows are left.
Restart ==
    /\ lock' = NoOne
    /\ cached' = NoSeq
    /\ batch' = [w \in Writers |-> Idle]
    /\ queue' = [c \in Conns |-> Closed]
    /\ UNCHANGED table

-----------------------------------------------------------------------------

Step(w) ==
    \/ Lock(w) \/ Open(w) \/ Emit(w) \/ Rollback(w) \/ Commit(w)
    \/ Broadcast(w) \/ Release(w) \/ Prune(w) \/ PruneFails(w)

Read(c) == Subscribe(c) \/ Receive(c) \/ Unsubscribe(c)

Next ==
    \/ \E w \in Writers : Step(w)
    \/ \E c \in Conns : Read(c)
    \/ Latest
    \/ Restart

Spec == Init /\ [][Next]_vars

-----------------------------------------------------------------------------
(* Properties.                                                              *)

Newest == IF Issued = {} THEN 0 ELSE Max(Issued)

\* The rows are one unbroken run of numbers: a batch that rolls back, fails or
\* dies with the gateway leaves no hole (`Batch::begin` re-reads the maximum).
NoGaps == \A s, t \in Stored : s..t \subseteq Stored

\* The numbers survive restarts: the table alone always tells the last number
\* ever committed, and each row is the event first committed under its number.
NumbersDurable ==
    /\ StoredLast = Newest
    /\ \A s \in Stored : body[s] = issued[s]

\* Pruning, however late it runs, leaves the newest `Kept` events readable.
RetentionKept == \A s \in Issued : s > Newest - Kept => s \in Stored

\* Only the lock's holder has a batch under way, and what it numbers from is
\* the newest committed number; a cached number nobody holds is that one too.
CacheSound ==
    /\ \A w \in Writers :
          /\ batch[w].phase \in {"locked", "open", "committed"} <=> lock = w
          /\ batch[w].phase = "locked" => batch[w].first \in {NoSeq, StoredLast}
          /\ batch[w].phase = "open" => batch[w].first = StoredLast
    /\ lock = NoOne => cached \in {NoSeq, StoredLast}

\* The table and what is numbered from it: numbers that are used, shared and
\* forgotten by rollbacks, failures and restarts still run on from the last
\* one committed (`Batch::begin`, `stored_last`).
LogSound == TypeOK /\ NoGaps /\ NumbersDurable /\ CacheSound

\* A receiver that was not told it lags reads consecutive numbers, each with
\* the event the table was given under it.
LiveInOrder ==
    \A c \in Conns : LET events == queue[c].events IN
        \A i \in DOMAIN events :
            /\ events[i].by = issued[events[i].seq]
            /\ i > 1 => events[i].seq = events[i - 1].seq + 1

\* The last number broadcast.
Frontier == IF lock # NoOne /\ batch[lock].phase = "committed"
            THEN batch[lock].sent ELSE StoredLast

\* Nothing committed is skipped by the broadcast: the last event a receiver has
\* to read is the last one broadcast, and with the lock free that is the newest.
LiveUpToDate ==
    \A c \in Conns : LET events == queue[c].events IN
        events # <<>> => events[Len(events)].seq = Frontier

\* The live feed is the log from some event on, up to the last one broadcast
\* (`Batch::commit`, `EventLog::subscribe`).
LiveFeed == LiveInOrder /\ LiveUpToDate

\* A number is used once: its row is only ever pruned, never changed and never
\* written again, whatever was rolled back, pruned or lost in a restart.
RowsOnlyPruned ==
    [][\A s \in Issued : body'[s] \in {body[s], NoOne}]_vars

=============================================================================
