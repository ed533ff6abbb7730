------------------------- MODULE EventStreamProofs --------------------------
(*****************************************************************************)
(* What a user's pages are promised, for any number of pages and writers,    *)
(* any length of the log, any retention and pruning interval, any page of the *)
(* replay and any limits: first what the event log guarantees by itself, then *)
(* that the log behind the sockets is that of EventLog, and that what a page's *)
(* application is given is the feed of EventFeed.                            *)
(*****************************************************************************)
EXTENDS EventStream, Extrema, FiniteSetTheorems, SequenceTheorems, TLAPS

\* The numbers ever committed are 1..hi and the rows still stored are lo..hi:
\* at least the newest `Kept` of them, under their first content.
Run(lo, hi) ==
    /\ lo \in Nat \ {0}
    /\ hi \in 0..MaxSeq
    /\ hi = 0 => lo = 1
    /\ hi # 0 => lo <= hi
    /\ lo = 1 \/ lo <= hi - Kept + 1
    /\ Issued = 1..hi
    /\ Stored = lo..hi
    /\ \A s \in Stored : body[s] = issued[s]

\* Where the lock's holder and the pruning tasks can be, the last number
\* committed being `hi`.
Numbered(w, hi) ==
    /\ batch[w].phase \in {"locked", "open", "committed"} <=> lock = w
    /\ batch[w].phase \in {"locked", "open"} => cached = NoSeq
    /\ batch[w].phase = "locked" => batch[w].first \in {NoSeq, hi}
    /\ batch[w].phase = "open" =>
          /\ batch[w].first = hi
          /\ batch[w].previous \in hi..MaxSeq
    /\ batch[w].phase = "committed" =>
          /\ batch[w].previous = hi
          /\ batch[w].first <= batch[w].sent
          /\ batch[w].sent <= hi
          /\ batch[w].first \in Nat
          /\ cached = hi
          /\ \A s \in (batch[w].first + 1)..hi : issued[s] = w
    /\ batch[w].phase = "released" => batch[w].previous <= hi

\* The inductive invariant: NumbersDurable alone is not inductive, since an
\* open batch's first number, the cache and a late prune must all agree with it.
IInv ==
    /\ TypeOK
    /\ \E lo, hi \in Nat :
          /\ Run(lo, hi)
          /\ \A w \in Writers : Numbered(w, hi)
          /\ lock = NoOne => cached \in {NoSeq, hi}

-----------------------------------------------------------------------------

\* The largest number of a non-empty interval is its end (`SELECT max(seq)`).
LEMMA MaxOfInterval ==
    ASSUME NEW lo \in Nat, NEW hi \in Nat, lo <= hi
    PROVE  Max(lo..hi) = hi
<1>1. \E x \in lo..hi : \A y \in lo..hi : x >= y
  <2>1. hi \in lo..hi /\ \A y \in lo..hi : hi >= y
    OBVIOUS
  <2> QED
    BY <2>1
<1>2. /\ Max(lo..hi) \in lo..hi
      /\ \A y \in lo..hi : Max(lo..hi) >= y
  BY <1>1 DEF Max
<1> QED
  BY <1>2

\* On an unbroken run of rows the stored maximum is the last number committed
\* (`stored_last`, zero for an empty table).
LEMMA RunEnds ==
    ASSUME NEW lo \in Nat, NEW hi \in Nat, Run(lo, hi)
    PROVE  /\ StoredLast = hi
           /\ Newest = hi
<1>1. CASE hi = 0
  <2>1. Stored = {} /\ Issued = {}
    BY <1>1 DEF Run
  <2> QED
    BY <2>1, <1>1 DEF StoredLast, Newest
<1>2. CASE hi # 0
  <2>1. lo <= hi /\ 1 <= hi /\ Stored = lo..hi /\ Issued = 1..hi
    BY <1>2 DEF Run
  <2>2. Stored # {} /\ Issued # {}
    BY <2>1
  <2>3. Max(Stored) = hi /\ Max(Issued) = hi
    BY <2>1, MaxOfInterval
  <2> QED
    BY <2>2, <2>3 DEF StoredLast, Newest
<1> QED
  BY <1>1, <1>2

\* What a receiver starts from.
LEMMA EmptySeqIn == <<>> \in Seq(Event)
  OBVIOUS

\* The log keeps at least one event, whatever it was asked for.
LEMMA KeptPositive == Kept \in Nat /\ Kept >= 1
  BY LimitsAssumption DEF Kept

-----------------------------------------------------------------------------

LEMMA InitEstablishes == Init => IInv
<1> SUFFICES ASSUME Init PROVE IInv
  OBVIOUS
<1> USE DEF Init
<1>1. TypeOK
  BY DEF TypeOK, Batches, Receivers, Idle, Closed, NoSeq
<1>2. Stored = {} /\ Issued = {}
  BY DEF Stored, Issued
<1>3. Run(1, 0)
  BY <1>2, LimitsAssumption DEF Run
<1>4. \A w \in Writers : Numbered(w, 0)
  BY WritersAssumption DEF Numbered, Idle
<1> QED
  BY <1>1, <1>3, <1>4 DEF IInv

\* Type correctness of each step; only `StoredLast` and the numbers of a
\* committed batch need more than their own assignments.
LEMMA TypeStep ==
    ASSUME IInv, [Next]_vars
    PROVE  TypeOK'
<1>0. PICK lo, hi \in Nat : Run(lo, hi) /\ \A w \in Writers : Numbered(w, hi)
  BY DEF IInv
<1>a. TypeOK
  BY DEF IInv
<1>b. StoredLast \in Nat
  BY <1>0, RunEnds
<1> USE <1>a DEF TypeOK, Batches, NoSeq
<1>1. ASSUME NEW w \in Writers, Lock(w) PROVE TypeOK'
  BY <1>1 DEF Lock, Idle, table
<1>2. ASSUME NEW w \in Writers, Open(w) PROVE TypeOK'
  BY <1>2, <1>b DEF Open, Idle, table
<1>3. ASSUME NEW w \in Writers, Emit(w) PROVE TypeOK'
  <2>1. batch[w].previous + 1 \in Nat
    BY <1>3 DEF Emit
  <2> QED
    BY <1>3, <2>1 DEF Emit, table
<1>4. ASSUME NEW w \in Writers, Rollback(w) PROVE TypeOK'
  BY <1>4 DEF Rollback, Idle, table
<1>5. ASSUME NEW w \in Writers, Commit(w) PROVE TypeOK'
  <2>1. batch[w].previous \in Nat /\ batch[w].first \in Nat
    BY <1>5, <1>0 DEF Commit, Numbered
  <2> QED
    BY ZenonT(40), <1>5, <2>1 DEF Commit
<1>6. ASSUME NEW w \in Writers, Broadcast(w) PROVE TypeOK'
  <2> DEFINE event == [seq |-> batch[w].sent + 1, by |-> w]
  <2>1. event \in Event
    <3>1. batch[w].sent + 1 \in Seqs
      BY <1>6, <1>0, LimitsAssumption DEF Broadcast, Numbered, Run, Seqs
    <3> QED
      BY <3>1 DEF Event
  <2>2. \A c \in Conns : Offer(queue[c], event) \in Receivers
    <3> TAKE c \in Conns
    <3>1. queue[c] \in Receivers
      OBVIOUS
    <3>2. Append(queue[c].events, event) \in Seq(Event) /\ <<>> \in Seq(Event)
      BY <2>1, <3>1 DEF Receivers
    <3> HIDE DEF event
    <3> QED
      BY <3>1, <3>2 DEF Offer, Receivers
  <2>3. queue' = [c \in Conns |-> Offer(queue[c], event)]
    BY <1>6 DEF Broadcast
  <2>4. queue' \in [Conns -> Receivers]
    BY <2>2, <2>3
  <2>5. batch' \in [Writers -> Batches]
    BY <1>6 DEF Broadcast
  <2> QED
    BY <1>6, <2>4, <2>5 DEF Broadcast, table
<1>7. ASSUME NEW w \in Writers, Release(w) PROVE TypeOK'
  BY <1>7 DEF Release, Idle, table
<1>8. ASSUME NEW w \in Writers, Prune(w) PROVE TypeOK'
  BY <1>8 DEF Prune, Idle
<1>9. ASSUME NEW w \in Writers, PruneFails(w) PROVE TypeOK'
  BY <1>9 DEF PruneFails, Idle, table
<1>10. ASSUME NEW c \in Conns, Read(c) PROVE TypeOK'
  <2>1. queue[c] \in Receivers
    OBVIOUS
  <2>2. queue[c].events # <<>> => Tail(queue[c].events) \in Seq(Event)
    <3> DEFINE q == queue[c].events
    <3>1. q \in Seq(Event)
      BY <2>1 DEF Receivers
    <3> HIDE DEF q
    <3>2. q # <<>> => Tail(q) \in Seq(Event)
      BY <3>1
    <3> QED
      BY <3>2 DEF q
  <2>3. CASE Subscribe(c)
    <3>1. [Closed EXCEPT !.open = TRUE] \in Receivers
      BY EmptySeqIn DEF Closed, Receivers
    <3> QED
      BY <2>3, <3>1 DEF Subscribe, table
  <2>4. CASE Receive(c)
    <3>1. [queue[c] EXCEPT !.events = Tail(@)] \in Receivers
      <4> DEFINE rest == Tail(queue[c].events)
      <4>1. rest \in Seq(Event)
        BY <2>2, <2>4 DEF Receive
      <4> HIDE DEF rest
      <4>2. [queue[c] EXCEPT !.events = rest] \in Receivers
        BY <2>1, <4>1 DEF Receivers
      <4> QED
        BY <4>2 DEF rest
    <3> QED
      BY <2>4, <3>1 DEF Receive, table
  <2>5. CASE Unsubscribe(c)
    BY <2>5 DEF Unsubscribe, Closed, Receivers, table
  <2> QED
    BY <1>10, <2>3, <2>4, <2>5 DEF Read
<1>11. CASE Latest
  BY <1>11, <1>b DEF Latest, LatestValue, table
<1>12. CASE Restart
  BY <1>12 DEF Restart, Idle, Closed, Receivers, table
<1>13. CASE UNCHANGED vars
  BY <1>13 DEF vars
<1> QED
  BY <1>1, <1>2, <1>3, <1>4, <1>5, <1>6, <1>7, <1>8, <1>9, <1>10, <1>11, <1>12, <1>13
  DEF Next, Step

-----------------------------------------------------------------------------
(* The numbering.                                                           *)

\* One writer at a time is between taking the lock and letting it go.
LEMMA OneHolder ==
    ASSUME NEW hi, \A w \in Writers : Numbered(w, hi),
           NEW v \in Writers, NEW w \in Writers,
           batch[v].phase \in {"locked", "open", "committed"},
           batch[w].phase \in {"locked", "open", "committed"}
    PROVE  v = w
  BY DEF Numbered

\* A commit extends the run by the batch's numbers and disturbs no row.
LEMMA CommitExtends ==
    ASSUME TypeOK, NEW lo \in Nat, NEW hi \in Nat, Run(lo, hi),
           NEW w \in Writers, Numbered(w, hi), Commit(w),
           NEW last \in Nat, last = batch[w].previous
    PROVE  /\ Run(lo, last)'
           /\ \A s \in (hi + 1)..last : issued'[s] = w
<1>1. /\ last \in hi..MaxSeq
      /\ batch[w].first = hi
  BY DEF Commit, Numbered, TypeOK, Batches
<1>2. Numbers(batch[w]) = (hi + 1)..last
  BY <1>1 DEF Numbers
<1>3. \A s \in Seqs : s \in 1..hi <=> issued[s] # NoOne
  BY DEF Run, Issued
<1>4. \A s \in Seqs : s \in lo..hi <=> body[s] # NoOne
  BY DEF Run, Stored
<1>5. \A s \in Seqs :
          /\ s \in (hi + 1)..last => body'[s] = w /\ issued'[s] = w
          /\ s \notin (hi + 1)..last => body'[s] = body[s] /\ issued'[s] = issued[s]
  BY <1>2, <1>3 DEF Commit
<1>6. w # NoOne
  BY WritersAssumption
<1>7. /\ lo \in Nat \ {0} /\ hi \in 0..MaxSeq
      /\ hi = 0 => lo = 1
      /\ hi # 0 => lo <= hi
      /\ lo = 1 \/ lo <= hi - Kept + 1
      /\ MaxSeq \in Nat
  BY LimitsAssumption DEF Run
<1>8. Issued' = 1..last
  <2>1. \A s \in Seqs : issued'[s] # NoOne <=> s \in 1..last
    BY <1>1, <1>3, <1>5, <1>6, <1>7 DEF Seqs
  <2> QED
    BY <2>1, <1>1, <1>7 DEF Issued, Seqs
<1>9. Stored' = lo..last
  <2>1. \A s \in Seqs : body'[s] # NoOne <=> s \in lo..last
    BY <1>1, <1>4, <1>5, <1>6, <1>7 DEF Seqs
  <2> QED
    BY <2>1, <1>1, <1>7 DEF Stored, Seqs
<1>10. \A s \in Stored' : body'[s] = issued'[s]
  <2>1. \A s \in Seqs : s \in lo..hi => body[s] = issued[s]
    BY DEF Run
  <2> QED
    BY <2>1, <1>9, <1>1, <1>5, <1>7 DEF Seqs
<1>11. Kept' = Kept
  BY DEF Kept
<1>12. Run(lo, last)'
  BY <1>1, <1>7, <1>8, <1>9, <1>10, <1>11, KeptPositive DEF Run
<1> QED
  BY <1>12, <1>1, <1>5, <1>7 DEF Seqs

\* A prune, even one that runs after later batches have committed, takes rows
\* from the old end only and leaves the newest `Kept`.
LEMMA PruneShortens ==
    ASSUME TypeOK, NEW lo \in Nat, NEW hi \in Nat, Run(lo, hi),
           NEW w \in Writers, batch[w].previous <= hi, Prune(w)
    PROVE  \E new \in Nat : Run(new, hi)'
<1>1. batch[w].previous \in Nat
  BY DEF TypeOK, Batches
<1>2. /\ lo \in Nat \ {0} /\ hi \in 0..MaxSeq /\ MaxSeq \in Nat
      /\ hi = 0 => lo = 1
      /\ hi # 0 => lo <= hi
      /\ lo = 1 \/ lo <= hi - Kept + 1
      /\ Kept \in Nat /\ Kept >= 1
  BY LimitsAssumption, KeptPositive DEF Run
<1>a. PICK cut \in Int : cut = batch[w].previous - Kept
  BY <1>1, <1>2
<1>b. PICK new \in Nat : new = IF cut + 1 > lo THEN cut + 1 ELSE lo
  BY <1>2, <1>a
<1>3. /\ new \in Nat \ {0}
      /\ hi = 0 => new = 1
      /\ hi # 0 => new <= hi
      /\ new = 1 \/ new <= hi - Kept + 1
  BY <1>1, <1>2, <1>a, <1>b
<1>4. Issued' = 1..hi
  BY DEF Prune, Issued, Run
<1>5. \A s \in Seqs : s \in lo..hi <=> body[s] # NoOne
  BY DEF Run, Stored
<1>6. \A s \in Seqs : body'[s] = IF s <= cut THEN NoOne ELSE body[s]
  BY <1>a DEF Prune
<1>7. Stored' = new..hi
  <2>1. \A s \in Seqs : body'[s] # NoOne <=> s \in new..hi
    BY <1>b, <1>2, <1>5, <1>6 DEF Seqs
  <2> QED
    BY <2>1, <1>2, <1>3 DEF Stored, Seqs
<1>8. \A s \in Stored' : body'[s] = issued'[s]
  <2>1. \A s \in Seqs : s \in lo..hi => body[s] = issued[s]
    BY DEF Run
  <2>2. issued' = issued
    BY DEF Prune
  <2>3. \A s \in Stored' : s \in Seqs /\ s \in lo..hi /\ s > cut
    BY <1>7, <1>b, <1>2 DEF Seqs
  <2> QED
    BY <2>1, <2>2, <2>3, <1>6, <1>2 DEF Seqs
<1>9. Kept' = Kept
  BY DEF Kept
<1>10. Run(new, hi)'
  BY <1>2, <1>3, <1>4, <1>7, <1>8, <1>9 DEF Run
<1> QED
  BY <1>10, <1>3

-----------------------------------------------------------------------------
(* Invariance.                                                              *)

\* A step that leaves the table and the last number alone keeps the run.
LEMMA SameTable ==
    ASSUME NEW lo, NEW hi, Run(lo, hi), UNCHANGED table
    PROVE  Run(lo, hi)'
  BY DEF Run, Issued, Stored, Kept, table

\* Every step keeps the invariant: each action moves one writer, and while it
\* does, the lock keeps every other writer away from the numbers.
LEMMA StepPreserves ==
    ASSUME IInv, [Next]_vars
    PROVE  IInv'
<1>0. PICK lo, hi \in Nat :
          /\ Run(lo, hi)
          /\ \A w \in Writers : Numbered(w, hi)
          /\ lock = NoOne => cached \in {NoSeq, hi}
  BY DEF IInv
<1>t. TypeOK /\ TypeOK'
  BY TypeStep DEF IInv
<1>u. hi \in Nat /\ hi \in 0..MaxSeq /\ MaxSeq \in Nat
  BY <1>0, LimitsAssumption DEF Run
<1>n. NoOne \notin Writers
  BY WritersAssumption
<1> DEFINE Kin(l, h) ==
        /\ Run(l, h)'
        /\ \A v \in Writers : Numbered(v, h)'
        /\ (lock = NoOne => cached \in {NoSeq, h})'
<1> SUFFICES \E l, h \in Nat : Kin(l, h)
  BY <1>t DEF IInv
<1>1. ASSUME NEW w \in Writers, Lock(w) PROVE Kin(lo, hi)
  <2>1. Run(lo, hi)'
    BY <1>0, <1>1, SameTable DEF Lock
  <2>2. \A v \in Writers : Numbered(v, hi)'
    BY <1>0, <1>1, <1>t, <1>n DEF Lock, Numbered, Idle, TypeOK, Batches
  <2> QED
    BY <1>1, <1>n, <2>1, <2>2 DEF Lock
<1>2. ASSUME NEW w \in Writers, Open(w) PROVE Kin(lo, hi)
  <2>1. Run(lo, hi)'
    BY <1>0, <1>2, SameTable DEF Open
  <2>2. StoredLast = hi
    BY <1>0, RunEnds
  <2>3. batch[w].first = NoSeq \/ batch[w].first = hi
    BY <1>0, <1>2 DEF Open, Numbered
  <2>4. \A v \in Writers : Numbered(v, hi)'
    BY <1>0, <1>2, <1>t, <1>u, <2>2, <2>3 DEF Open, Numbered, Idle, TypeOK, Batches
  <2> QED
    BY <1>0, <1>2, <2>1, <2>4 DEF Open
<1>3. ASSUME NEW w \in Writers, Emit(w) PROVE Kin(lo, hi)
  <2>1. Run(lo, hi)'
    BY <1>0, <1>3, SameTable DEF Emit
  <2>2. \A v \in Writers : Numbered(v, hi)'
    BY <1>0, <1>3, <1>t, <1>u DEF Emit, Numbered, TypeOK, Batches, Seqs
  <2> QED
    BY <1>0, <1>3, <2>1, <2>2 DEF Emit
<1>4. ASSUME NEW w \in Writers, Rollback(w) PROVE Kin(lo, hi)
  <2>1. Run(lo, hi)'
    BY <1>0, <1>4, SameTable DEF Rollback
  <2>2. \A v \in Writers : Numbered(v, hi)'
    BY <1>0, <1>4, <1>t, <1>n DEF Rollback, Numbered, Idle, TypeOK, Batches
  <2> QED
    BY <1>0, <1>4, <2>1, <2>2 DEF Rollback, Numbered
<1>5. ASSUME NEW w \in Writers, Commit(w) PROVE \E h \in Nat : Kin(lo, h)
  <2>0. PICK last \in Nat : last = batch[w].previous
    BY <1>t DEF TypeOK, Batches
  <2>1. Run(lo, last)' /\ \A s \in (hi + 1)..last : issued'[s] = w
    BY <1>0, <1>5, <1>t, <2>0, CommitExtends
  <2>2. \A v \in Writers : Numbered(v, last)'
    <3>1. Numbered(w, last)'
      <4>1. lock = w /\ lock' = w /\ cached' = last /\ batch[w].first = hi /\ hi <= last
        BY <1>0, <1>5, <2>0 DEF Commit, Numbered
      <4>2. /\ batch'[w].phase = "committed"
            /\ batch'[w].first = hi
            /\ batch'[w].sent = hi
            /\ batch'[w].previous = last
        BY <1>5, <1>t, <2>0, <4>1 DEF Commit, TypeOK, Batches
      <4> QED
        BY <2>1, <4>1, <4>2, <1>u DEF Numbered
    <3>2. ASSUME NEW v \in Writers, v # w PROVE Numbered(v, last)'
      BY <1>0, <1>5, <1>t, <1>u, <2>0, <3>2 DEF Commit, Numbered, TypeOK, Batches
    <3> QED
      BY <3>1, <3>2
  <2> QED
    BY <1>0, <1>5, <1>t, <2>0, <2>1, <2>2 DEF Commit
<1>6. ASSUME NEW w \in Writers, Broadcast(w) PROVE Kin(lo, hi)
  <2>1. Run(lo, hi)'
    BY <1>0, <1>6, SameTable DEF Broadcast
  <2>2. \A v \in Writers : Numbered(v, hi)'
    BY <1>0, <1>6, <1>t, <1>u DEF Broadcast, Numbered, TypeOK, Batches, table
  <2> QED
    BY <1>0, <1>6, <2>1, <2>2 DEF Broadcast
<1>7. ASSUME NEW w \in Writers, Release(w) PROVE Kin(lo, hi)
  <2>1. Run(lo, hi)'
    BY <1>0, <1>7, SameTable DEF Release
  <2>2. \A v \in Writers : Numbered(v, hi)'
    BY <1>0, <1>7, <1>t, <1>n, <1>u DEF Release, Numbered, Idle, TypeOK, Batches
  <2>3. cached = hi
    BY <1>0, <1>7 DEF Release, Numbered
  <2> QED
    BY <1>7, <2>1, <2>2, <2>3 DEF Release
<1>8. ASSUME NEW w \in Writers, Prune(w) PROVE \E l \in Nat : Kin(l, hi)
  <2>1. PICK new \in Nat : Run(new, hi)'
    BY <1>0, <1>8, <1>t, PruneShortens DEF Prune, Numbered
  <2>2. \A v \in Writers : Numbered(v, hi)'
    BY <1>0, <1>8, <1>t DEF Prune, Numbered, Idle, TypeOK, Batches
  <2> QED
    BY <1>0, <1>8, <2>1, <2>2 DEF Prune
<1>9. ASSUME NEW w \in Writers, PruneFails(w) PROVE Kin(lo, hi)
  <2>1. Run(lo, hi)'
    BY <1>0, <1>9, SameTable DEF PruneFails
  <2>2. \A v \in Writers : Numbered(v, hi)'
    BY <1>0, <1>9, <1>t DEF PruneFails, Numbered, Idle, TypeOK, Batches, table
  <2> QED
    BY <1>0, <1>9, <2>1, <2>2 DEF PruneFails
<1>10. ASSUME NEW c \in Conns, Read(c) PROVE Kin(lo, hi)
  <2>1. UNCHANGED <<table, lock, cached, batch>>
    BY <1>10 DEF Read, Subscribe, Receive, Unsubscribe
  <2>2. Run(lo, hi)'
    BY <1>0, <2>1, SameTable
  <2> QED
    BY <1>0, <2>1, <2>2 DEF Numbered, table
<1>11. ASSUME Latest PROVE Kin(lo, hi)
  <2>1. Run(lo, hi)'
    BY <1>0, <1>11, SameTable DEF Latest
  <2>2. cached' = hi
    BY <1>0, <1>11, RunEnds DEF Latest, LatestValue
  <2>3. \A v \in Writers : Numbered(v, hi)'
    BY <1>0, <1>11, <1>n DEF Latest, Numbered
  <2> QED
    BY <2>1, <2>2, <2>3
<1>12. ASSUME Restart PROVE Kin(lo, hi)
  <2>1. Run(lo, hi)'
    BY <1>0, <1>12, SameTable DEF Restart
  <2>2. \A v \in Writers : Numbered(v, hi)'
    BY <1>12, <1>n DEF Restart, Numbered, Idle
  <2> QED
    BY <1>12, <2>1, <2>2 DEF Restart
<1>13. ASSUME UNCHANGED vars PROVE Kin(lo, hi)
  <2>1. Run(lo, hi)'
    BY <1>0, <1>13, SameTable DEF vars, table
  <2> QED
    BY <1>0, <1>13, <2>1 DEF vars, Numbered
<1> HIDE DEF Kin
<1> QED
  BY <1>0, <1>1, <1>2, <1>3, <1>4, <1>5, <1>6, <1>7, <1>8, <1>9, <1>10, <1>11, <1>12,
     <1>13 DEF Next, Step

\* The log's inductive invariant holds in every reachable state.
LEMMA Invariance == Spec => []IInv
<1>1. Init => IInv
  BY InitEstablishes
<1>2. IInv /\ [Next]_vars => IInv'
  BY StepPreserves
<1> QED
  BY <1>1, <1>2, PTL DEF Spec

\* The state of the log has its declared type (`UserLog`, `Batch`, the table).
THEOREM TypeCorrect == Spec => []TypeOK
<1>1. IInv => TypeOK
  BY DEF IInv
<1> QED
  BY <1>1, Invariance, PTL

\* The rows are always one unbroken run of numbers, whatever batches rolled
\* back, failed or died with the gateway.
THEOREM Gapless == Spec => []NoGaps
<1>1. IInv => NoGaps
  <2> SUFFICES ASSUME IInv PROVE NoGaps
    OBVIOUS
  <2>1. PICK lo, hi \in Nat : Stored = lo..hi
    BY DEF IInv, Run
  <2> QED
    BY <2>1 DEF NoGaps
<1> QED
  BY <1>1, Invariance, PTL

\* The table alone always tells the last number ever committed, so numbering
\* resumes correctly from it after any restart or rollback.
THEOREM Durable == Spec => []NumbersDurable
<1>1. IInv => NumbersDurable
  <2> SUFFICES ASSUME IInv PROVE NumbersDurable
    OBVIOUS
  <2>1. PICK lo, hi \in Nat : Run(lo, hi)
    BY DEF IInv
  <2>2. StoredLast = hi /\ Newest = hi
    BY <2>1, RunEnds
  <2> QED
    BY <2>1, <2>2 DEF NumbersDurable, Run
<1> QED
  BY <1>1, Invariance, PTL

\* Pruning, however late, leaves the newest `Kept` events readable.
THEOREM Retained == Spec => []RetentionKept
<1>1. IInv => RetentionKept
  <2> SUFFICES ASSUME IInv PROVE RetentionKept
    OBVIOUS
  <2>1. PICK lo, hi \in Nat : Run(lo, hi)
    BY DEF IInv
  <2>2. Newest = hi
    BY <2>1, RunEnds
  <2> QED
    BY <2>1, <2>2, KeptPositive DEF RetentionKept, Run
<1> QED
  BY <1>1, Invariance, PTL

\* Batches are serialised by the lock, and whatever number a batch or a reader
\* takes from the cache is the newest committed one.
THEOREM CacheIsSound == Spec => []CacheSound
<1>1. IInv => CacheSound
  <2> SUFFICES ASSUME IInv PROVE CacheSound
    OBVIOUS
  <2>1. PICK lo, hi \in Nat :
            /\ Run(lo, hi)
            /\ \A w \in Writers : Numbered(w, hi)
            /\ lock = NoOne => cached \in {NoSeq, hi}
    BY DEF IInv
  <2>2. StoredLast = hi
    BY <2>1, RunEnds
  <2> QED
    BY <2>1, <2>2 DEF CacheSound, Numbered
<1> QED
  BY <1>1, Invariance, PTL

\* A number is used once: no row is changed or written again after its number
\* was first committed.
THEOREM NumbersUsedOnce == Spec => RowsOnlyPruned
<1>1. IInv /\ [Next]_vars => [\A s \in Issued : body'[s] \in {body[s], NoOne}]_vars
  <2> SUFFICES ASSUME IInv, Next, NEW s \in Issued
               PROVE  body'[s] \in {body[s], NoOne}
    OBVIOUS
  <2>1. PICK lo, hi \in Nat : Run(lo, hi) /\ \A w \in Writers : Numbered(w, hi)
    BY DEF IInv
  <2>2. s \in Seqs /\ s <= hi
    BY <2>1 DEF Run, Issued
  <2>3. ASSUME NEW w \in Writers, Commit(w) PROVE body'[s] = body[s]
    <3>1. batch[w].first = hi
      BY <2>1, <2>3 DEF Commit, Numbered
    <3>2. s \notin Numbers(batch[w])
      BY <3>1, <2>2, <2>1 DEF Numbers, Seqs
    <3> QED
      BY <2>2, <2>3, <3>2 DEF Commit
  <2>4. ASSUME NEW w \in Writers, Prune(w) PROVE body'[s] \in {body[s], NoOne}
    BY <2>2, <2>4 DEF Prune
  <2>5. CASE UNCHANGED body
    BY <2>5
  <2> QED
    BY <2>3, <2>4, <2>5
    DEF Next, Step, Read, table, Lock, Open, Emit, Rollback, Broadcast, Release,
        PruneFails, Subscribe, Receive, Unsubscribe, Latest, Restart
<1> QED
  BY <1>1, Invariance, PTL DEF Spec, RowsOnlyPruned

-----------------------------------------------------------------------------
(* The live feed.                                                           *)

\* What a receiver has to read is the end of what was broadcast, in order and
\* with the table's contents; a closed or lagging receiver holds nothing.
Feeds(q, last) ==
    /\ ~q.open \/ q.lagged => q.events = <<>>
    /\ \A i \in 1..Len(q.events) :
          /\ q.events[i].seq = last - (Len(q.events) - i)
          /\ q.events[i].by = issued[q.events[i].seq]

QInv == \A c \in Conns : Feeds(queue[c], Frontier)

\* `RunEnds` in the next state.
LEMMA RunEndsNext == \A lo, hi \in Nat : Run(lo, hi)' => StoredLast' = hi
<1>1. \A lo, hi \in Nat : Run(lo, hi) => StoredLast = hi
  BY RunEnds
<1>2. (\A lo, hi \in Nat : Run(lo, hi) => StoredLast = hi)'
  BY <1>1, PTL
<1> QED
  BY <1>2

\* The frontier is a number of the log.
LEMMA FrontierTyped == IInv => Frontier \in 0..MaxSeq
<1> SUFFICES ASSUME IInv PROVE Frontier \in 0..MaxSeq
  OBVIOUS
<1>0. PICK lo, hi \in Nat : Run(lo, hi) /\ \A w \in Writers : Numbered(w, hi)
  BY DEF IInv
<1>1. StoredLast = hi /\ hi \in 0..MaxSeq /\ MaxSeq \in Nat
  BY <1>0, RunEnds, LimitsAssumption DEF Run
<1>2. TypeOK
  BY DEF IInv
<1>3. CASE lock # NoOne /\ batch[lock].phase = "committed"
  BY <1>0, <1>1, <1>2, <1>3 DEF Frontier, Numbered, TypeOK, Batches
<1>4. CASE ~(lock # NoOne /\ batch[lock].phase = "committed")
  BY <1>1, <1>4 DEF Frontier
<1> QED
  BY <1>3, <1>4

\* Where the broadcast stands: behind the newest number only while a batch is
\* being broadcast; no other step than a broadcast or a restart moves it.
LEMMA FrontierMoves ==
    ASSUME IInv, Next, ~Restart
    PROVE  /\ Frontier \in 0..MaxSeq
           /\ \A w \in Writers : Broadcast(w) =>
                 Frontier = batch[w].sent /\ Frontier' = batch[w].sent + 1
           /\ (\A w \in Writers : ~Broadcast(w)) => Frontier' = Frontier
<1>0. PICK lo, hi \in Nat :
          /\ Run(lo, hi)
          /\ \A w \in Writers : Numbered(w, hi)
  BY DEF IInv
<1>t. TypeOK /\ TypeOK'
  BY TypeStep DEF IInv
<1>s. StoredLast = hi /\ hi \in 0..MaxSeq /\ MaxSeq \in Nat
  BY <1>0, RunEnds, LimitsAssumption DEF Run
<1>n. NoOne \notin Writers
  BY WritersAssumption
<1>f. Frontier \in 0..MaxSeq
  BY FrontierTyped
<1>d. UNCHANGED table => StoredLast' = hi
  <2>1. UNCHANGED table => Run(lo, hi)'
    BY <1>0, SameTable
  <2> QED
    BY <2>1, RunEndsNext
<1>1. ASSUME NEW w \in Writers, Lock(w) \/ Open(w) \/ Emit(w) \/ Rollback(w)
      PROVE  Frontier' = Frontier
  <2>1. Frontier = hi
    BY <1>0, <1>1, <1>n, <1>s DEF Frontier, Numbered, Lock, Open, Emit, Rollback
  <2>2. ~(lock' # NoOne /\ batch'[lock'].phase = "committed")
    <3>1. CASE Rollback(w)
      BY <3>1 DEF Rollback
    <3>2. CASE Lock(w) \/ Open(w) \/ Emit(w)
      <4>1. lock' = w
        <5>1. CASE Lock(w)
          BY <5>1 DEF Lock
        <5>2. CASE Open(w) \/ Emit(w)
          <6>1. batch[w].phase \in {"locked", "open"}
            BY <5>2 DEF Open, Emit
          <6>2. lock = w
            BY <1>0, <6>1 DEF Numbered
          <6> QED
            BY <5>2, <6>2 DEF Open, Emit
        <5> QED
          BY <3>2, <5>1, <5>2
      <4>2. batch'[w].phase # "committed"
        <5>1. CASE Lock(w)
          BY <5>1, <1>t DEF Lock, Idle, TypeOK
        <5>2. CASE Open(w)
          BY <5>2, <1>t DEF Open, Idle, TypeOK
        <5>3. CASE Emit(w)
          BY <5>3, <1>t DEF Emit, TypeOK, Batches
        <5> QED
          BY <3>2, <5>1, <5>2, <5>3
      <4> QED
        BY <4>1, <4>2
    <3> QED
      BY <1>1, <3>1, <3>2
  <2>3. StoredLast' = hi
    BY <1>1, <1>d DEF Lock, Open, Emit, Rollback
  <2> QED
    BY <2>1, <2>2, <2>3 DEF Frontier
<1>2. ASSUME NEW w \in Writers, Commit(w) PROVE Frontier' = Frontier
  <2>1. Frontier = hi
    BY <1>0, <1>2, <1>s DEF Frontier, Numbered, Commit
  <2>2. lock = w /\ lock' = w /\ batch[w].first = hi
    BY <1>0, <1>2 DEF Numbered, Commit
  <2>3. batch'[w].phase = "committed" /\ batch'[w].sent = hi
    BY <1>2, <1>t, <2>2 DEF Commit, TypeOK, Batches
  <2> QED
    BY <1>n, <2>1, <2>2, <2>3 DEF Frontier
<1>3. ASSUME NEW w \in Writers, Broadcast(w)
      PROVE  Frontier = batch[w].sent /\ Frontier' = batch[w].sent + 1
  <2>1. lock = w /\ lock' = w
    BY <1>0, <1>3 DEF Numbered, Broadcast
  <2>2. batch'[w].phase = "committed" /\ batch'[w].sent = batch[w].sent + 1
    BY <1>3, <1>t DEF Broadcast, TypeOK, Batches
  <2> QED
    BY <1>3, <1>n, <2>1, <2>2 DEF Frontier, Broadcast
<1>4. ASSUME NEW w \in Writers, Release(w) PROVE Frontier' = Frontier
  <2>1. Frontier = hi
    BY <1>0, <1>4, <1>n DEF Frontier, Numbered, Release
  <2>2. StoredLast' = hi
    BY <1>4, <1>d DEF Release
  <2> QED
    BY <1>4, <2>1, <2>2 DEF Frontier, Release
<1>5. ASSUME NEW w \in Writers, Prune(w) \/ PruneFails(w) PROVE Frontier' = Frontier
  <2>1. StoredLast' = hi
    <3>1. CASE Prune(w)
      <4>1. \E new \in Nat : Run(new, hi)'
        BY <1>0, <1>t, <3>1, PruneShortens DEF Prune, Numbered
      <4> QED
        BY <4>1, RunEndsNext
    <3>2. CASE PruneFails(w)
      BY <1>d, <3>2 DEF PruneFails
    <3> QED
      BY <1>5, <3>1, <3>2
  <2>2. lock' = lock /\ \A v \in Writers : v # w => batch'[v] = batch[v]
    BY <1>5, <1>t DEF Prune, PruneFails, TypeOK
  <2>3. lock # w /\ lock \in Writers \cup {NoOne}
    BY <1>0, <1>5, <1>t DEF Prune, PruneFails, Numbered, TypeOK
  <2> QED
    BY <1>s, <2>1, <2>2, <2>3 DEF Frontier
<1>6. ASSUME UNCHANGED <<table, lock, batch>> PROVE Frontier' = Frontier
  BY <1>6, <1>d, <1>s DEF Frontier
<1> QED
  BY <1>f, <1>1, <1>2, <1>3, <1>4, <1>5, <1>6
  DEF Next, Step, Read, Latest, Subscribe, Receive, Unsubscribe

\* The table's contents are only added to.
LEMMA IssuedKept ==
    ASSUME IInv, Next, NEW s \in Seqs, issued[s] # NoOne
    PROVE  issued'[s] = issued[s]
  BY DEF Next, Step, Read, table, Lock, Open, Emit, Rollback, Commit, Broadcast, Release,
         Prune, PruneFails, Subscribe, Receive, Unsubscribe, Latest, Restart

\* Every step keeps every receiver on the feed.
LEMMA FeedStep ==
    ASSUME IInv, QInv, [Next]_vars
    PROVE  QInv'
<1>t. TypeOK
  BY DEF IInv
<1>n. NoOne \notin Writers
  BY WritersAssumption
<1>q. ASSUME NEW c \in Conns
      PROVE  /\ queue[c] \in Receivers
             /\ \A i \in 1..Len(queue[c].events) :
                   /\ queue[c].events[i] \in Event
                   /\ queue[c].events[i].seq \in Seqs
                   /\ issued[queue[c].events[i].seq] # NoOne
  <2>1. queue[c] \in Receivers
    BY <1>t DEF TypeOK
  <2>2. queue[c].events \in Seq(Event)
    BY <2>1 DEF Receivers
  <2>3. \A i \in 1..Len(queue[c].events) : queue[c].events[i] \in Event
    BY <2>2
  <2>4. \A i \in 1..Len(queue[c].events) :
            issued[queue[c].events[i].seq] = queue[c].events[i].by
    BY DEF QInv, Feeds
  <2> QED
    BY <1>n, <2>1, <2>3, <2>4 DEF Event
<1>1. CASE UNCHANGED vars
  BY ZenonT(60), <1>1 DEF vars, QInv, Feeds, Frontier, StoredLast, Stored
<1>2. CASE Restart
  BY <1>2 DEF Restart, QInv, Feeds, Closed
<1>3. ASSUME Next, ~Restart, NEW w \in Writers, Broadcast(w), NEW c \in Conns
      PROVE  Feeds(queue[c], Frontier)'
  <2> DEFINE event == [seq |-> batch[w].sent + 1, by |-> w]
  <2>1. Frontier = batch[w].sent /\ Frontier' = batch[w].sent + 1 /\ Frontier \in Nat
    BY <1>3, FrontierMoves, LimitsAssumption
  <2>2. queue'[c] = Offer(queue[c], event)
    BY <1>3 DEF Broadcast
  <2>3. issued[batch[w].sent + 1] = w
    <3>1. PICK hi \in Nat : Numbered(w, hi)
      BY DEF IInv
    <3> QED
      BY <1>3, <1>t, <3>1 DEF Broadcast, Numbered, TypeOK, Batches
  <2>4. issued' = issued
    BY <1>3 DEF Broadcast, table
  <2>5. CASE ~queue[c].open \/ queue[c].lagged
    <3>1. queue'[c] = queue[c] /\ queue[c].events = <<>>
      <4>1. Offer(queue[c], event) = queue[c]
        BY <2>5 DEF Offer
      <4>2. queue[c].events = <<>>
        BY <2>5 DEF QInv, Feeds
      <4> QED
        BY <2>2, <4>1, <4>2
    <3> QED
      BY <2>5, <3>1 DEF Feeds
  <2>6. CASE queue[c].open /\ ~queue[c].lagged /\ Len(queue[c].events) < Capacity
    <3> DEFINE old == queue[c].events
    <3>1. old \in Seq(Event) /\ event \in Event
      <4>1. batch[w].sent + 1 \in Seqs
        <5>1. PICK lo, hi \in Nat : Run(lo, hi) /\ Numbered(w, hi)
          BY DEF IInv
        <5> QED
          BY <1>3, <1>t, <5>1, LimitsAssumption
          DEF Broadcast, Run, Numbered, Seqs, TypeOK, Batches
      <4> QED
        BY <1>q, <4>1 DEF Receivers, Event
    <3>2. queue'[c] = [queue[c] EXCEPT !.events = Append(old, event)]
      BY <2>2, <2>6 DEF Offer
    <3>3. queue'[c].events = Append(old, event)
      BY <3>2, <1>q DEF Receivers
    <3>4. \A i \in 1..Len(old) :
              old[i].seq = Frontier - (Len(old) - i) /\ old[i].by = issued[old[i].seq]
      BY DEF QInv, Feeds
    <3>5. event.seq = Frontier + 1 /\ event.by = issued[event.seq]
      BY <2>1, <2>3
    <3> HIDE DEF event, old
    <3> DEFINE all == Append(old, event)
    <3>6. \A i \in 1..Len(all) :
              all[i].seq = (Frontier + 1) - (Len(all) - i) /\ all[i].by = issued[all[i].seq]
      <4>1. Len(all) = Len(old) + 1 /\ Len(old) \in Nat
        BY <3>1
      <4>2. \A i \in 1..Len(old) : all[i] = old[i]
        BY <3>1
      <4>3. all[Len(old) + 1] = event
        BY <3>1
      <4> HIDE DEF all
      <4>4. ASSUME NEW i \in 1..Len(all)
            PROVE  /\ all[i].seq = (Frontier + 1) - (Len(all) - i)
                   /\ all[i].by = issued[all[i].seq]
        <5>1. CASE i \in 1..Len(old)
          <6>1. all[i] = old[i]
            BY <4>2, <5>1
          <6>2. old[i].seq = Frontier - (Len(old) - i) /\ old[i].by = issued[old[i].seq]
            BY <3>4, <5>1
          <6>3. Frontier - (Len(old) - i) = (Frontier + 1) - (Len(all) - i)
            BY <4>1, <2>1
          <6> QED
            BY <6>1, <6>2, <6>3
        <5>2. CASE i = Len(old) + 1
          BY <3>5, <4>1, <4>3, <5>2, <2>1
        <5> QED
          BY <4>1, <5>1, <5>2
      <4> QED
        BY <4>4
    <3> HIDE DEF all
    <3>7. queue'[c].open /\ ~queue'[c].lagged
      BY <3>2, <2>6, <1>q DEF Receivers
    <3> QED
      BY <3>3, <3>6, <3>7, <2>1, <2>4 DEF Feeds, all
  <2>7. CASE queue[c].open /\ ~queue[c].lagged /\ ~(Len(queue[c].events) < Capacity)
    <3>1. queue'[c].events = <<>>
      BY <2>2, <2>7, <1>q DEF Offer, Receivers
    <3> QED
      BY <3>1 DEF Feeds
  <2> QED
    BY <2>5, <2>6, <2>7
<1>4. ASSUME Next, ~Restart, \A w \in Writers : ~Broadcast(w)
      PROVE  QInv'
  <2>1. Frontier' = Frontier /\ Frontier \in Nat
    BY <1>4, FrontierMoves, LimitsAssumption
  <2>2. ASSUME NEW c \in Conns, queue'[c] = queue[c] PROVE Feeds(queue[c], Frontier)'
    <3>1. \A i \in 1..Len(queue[c].events) :
              issued'[queue[c].events[i].seq] = issued[queue[c].events[i].seq]
      BY <1>q, <1>4, IssuedKept
    <3>2. Feeds(queue[c], Frontier)
      BY DEF QInv
    <3>3. ~queue'[c].open \/ queue'[c].lagged => queue'[c].events = <<>>
      BY <2>2, <3>2 DEF Feeds
    <3>4. \A i \in 1..Len(queue'[c].events) :
              /\ queue'[c].events[i].seq = Frontier' - (Len(queue'[c].events) - i)
              /\ queue'[c].events[i].by = issued'[queue'[c].events[i].seq]
      <4>1. ASSUME NEW i \in 1..Len(queue[c].events)
            PROVE  queue[c].events[i].seq = Frontier - (Len(queue[c].events) - i)
                   /\ queue[c].events[i].by = issued[queue[c].events[i].seq]
        BY <3>2 DEF Feeds
      <4> QED
        BY <2>1, <2>2, <3>1, <4>1
    <3> QED
      BY <3>3, <3>4 DEF Feeds
  <2>3. CASE UNCHANGED queue
    BY <2>2, <2>3 DEF QInv
  <2>4. ASSUME NEW c \in Conns, Read(c) PROVE QInv'
    <3>1. UNCHANGED <<table, lock, cached, batch>>
      BY <2>4 DEF Read, Subscribe, Receive, Unsubscribe
    <3>2. \A d \in Conns : d # c => queue'[d] = queue[d]
      BY <2>4, <1>t DEF Read, Subscribe, Receive, Unsubscribe, TypeOK
    <3>3. Feeds(queue[c], Frontier)'
      <4>1. CASE Subscribe(c) \/ Unsubscribe(c)
        <5>1. queue'[c].events = <<>>
          BY <4>1, <1>t DEF Subscribe, Unsubscribe, Closed, TypeOK
        <5> QED
          BY <5>1 DEF Feeds
      <4>2. CASE Receive(c)
        <5> DEFINE old == queue[c].events
                   rest == Tail(old)
        <5>1. old \in Seq(Event) /\ old # <<>>
          BY <4>2, <1>q DEF Receive, Receivers
        <5>2. queue'[c] = [queue[c] EXCEPT !.events = rest]
          BY <4>2, <1>t DEF Receive, TypeOK
        <5>3. \A i \in 1..Len(old) :
                  old[i].seq = Frontier - (Len(old) - i) /\ old[i].by = issued[old[i].seq]
          BY DEF QInv, Feeds
        <5>4. queue[c].open /\ ~queue[c].lagged
          BY <5>1, <1>q DEF QInv, Feeds, Receivers
        <5>5. queue'[c].events = rest /\ queue'[c].open /\ ~queue'[c].lagged
          BY <5>2, <5>4, <1>q DEF Receivers
        <5> HIDE DEF old
        <5>6. \A i \in 1..Len(rest) :
                  rest[i].seq = Frontier - (Len(rest) - i) /\ rest[i].by = issued[rest[i].seq]
          BY <5>1, <5>3, <2>1
        <5> HIDE DEF rest
        <5> QED
          BY <5>5, <5>6, <2>1, <3>1 DEF Feeds, table
      <4> QED
        BY <2>4, <4>1, <4>2 DEF Read
    <3> QED
      BY <2>2, <3>2, <3>3 DEF QInv
  <2> QED
    BY <1>4, <2>3, <2>4
    DEF Next, Step, Lock, Open, Emit, Rollback, Commit, Release, Prune, PruneFails, Latest
<1>5. ASSUME Next, ~Restart, NEW w \in Writers, Broadcast(w) PROVE QInv'
  BY <1>3, <1>5 DEF QInv
<1> QED
  BY <1>1, <1>2, <1>4, <1>5

LEMMA FeedInvariance == Spec => []QInv
<1>1. Init => QInv
  BY DEF Init, QInv, Feeds, Closed
<1>2. IInv /\ QInv /\ [Next]_vars => QInv'
  BY FeedStep
<1> QED
  BY <1>1, <1>2, Invariance, PTL DEF Spec

\* A connection that keeps up reads every event once, in the order of the log
\* and with the contents the table was given.
THEOREM LiveFeedInOrder == Spec => []LiveInOrder
<1>1. IInv /\ QInv => LiveInOrder
  <2> SUFFICES ASSUME IInv, QInv, NEW c \in Conns, NEW i \in DOMAIN queue[c].events
               PROVE  LET events == queue[c].events IN
                        /\ events[i].by = issued[events[i].seq]
                        /\ i > 1 => events[i].seq = events[i - 1].seq + 1
    BY DEF LiveInOrder
  <2> DEFINE q == queue[c].events
  <2>1. q \in Seq(Event)
    BY DEF IInv, TypeOK, Receivers
  <2>2. \A j \in 1..Len(q) :
            q[j].seq = Frontier - (Len(q) - j) /\ q[j].by = issued[q[j].seq]
    BY DEF QInv, Feeds
  <2>3. Frontier \in Int
    BY FrontierTyped
  <2> HIDE DEF q
  <2>4. i \in 1..Len(q)
    BY <2>1 DEF q
  <2>5. i > 1 => i - 1 \in 1..Len(q) /\ Len(q) \in Nat
    BY <2>1, <2>4
  <2>6. i > 1 => q[i].seq = q[i - 1].seq + 1
    BY <2>1, <2>2, <2>3, <2>4, <2>5
  <2>7. q[i].by = issued[q[i].seq]
    BY <2>2, <2>4
  <2> QED
    BY <2>6, <2>7 DEF q
<1> QED
  BY <1>1, Invariance, FeedInvariance, PTL

\* Nothing committed is skipped: what a connection reads last is what was
\* broadcast last, the newest number once the lock is free.
THEOREM LiveFeedUpToDate == Spec => []LiveUpToDate
<1>1. IInv /\ QInv => LiveUpToDate
  <2> SUFFICES ASSUME IInv, QInv, NEW c \in Conns, queue[c].events # <<>>
               PROVE  queue[c].events[Len(queue[c].events)].seq = Frontier
    BY DEF LiveUpToDate
  <2> DEFINE q == queue[c].events
  <2>1. q \in Seq(Event) /\ q # <<>>
    BY DEF IInv, TypeOK, Receivers
  <2>2. \A j \in 1..Len(q) : q[j].seq = Frontier - (Len(q) - j)
    BY DEF QInv, Feeds
  <2>3. Frontier \in Int
    BY FrontierTyped
  <2> HIDE DEF q
  <2>4. Len(q) \in 1..Len(q) /\ Len(q) \in Nat
    BY <2>1
  <2>5. q[Len(q)].seq = Frontier
    BY <2>2, <2>3, <2>4
  <2> QED
    BY <2>5 DEF q
<1> QED
  BY <1>1, Invariance, FeedInvariance, PTL

-----------------------------------------------------------------------------
\* The table and the cache it is numbered from, as the run states them together.
THEOREM Sound == Spec => []LogSound
<1>1. TypeOK /\ NoGaps /\ NumbersDurable /\ CacheSound => LogSound
  BY DEF LogSound
<1> QED
  BY <1>1, TypeCorrect, Gapless, Durable, CacheIsSound, PTL

\* A receiver that does not lag holds the log's events up to the last broadcast.
THEOREM LiveFeedIsLog == Spec => []LiveFeed
<1>1. LiveInOrder /\ LiveUpToDate => LiveFeed
  BY DEF LiveFeed
<1> QED
  BY <1>1, LiveFeedInOrder, LiveFeedUpToDate, PTL

-----------------------------------------------------------------------------
(* The pages and their sockets. *)

Tasks == [phase : ServerPhases, after : Positions \cup {NoSeq},
          latest : Positions, sent : Positions]
Pages == [state : ClientStates, last : Positions \cup {NoSeq},
          synced : BOOLEAN, awaiting : BOOLEAN, timer : BOOLEAN,
          refusals : 0..RefusalLimit, checks : SUBSET Checks,
          hidden : BOOLEAN, pings : 0..MaxPings]
Told == [op : {"none", "apply", "reload"}, seq : Positions \cup {NoSeq},
         by : Writers \cup {NoOne}]

\* A receiver that is closed is as it was made.
ClosedIsNew == \A c \in Conns : ~queue[c].open => queue[c] = Closed

-----------------------------------------------------------------------------
(* What a page has been sent.                                               *)

Marks == {"live", "reset"}
Placed == {"event"} \cup Marks

\* An event is the log's, and a mark is a number the log had reached.
Genuine(frame) ==
    /\ frame.type = "event" => frame.seq \in 1..Newest /\ frame.by = issued[frame.seq]
    /\ frame.type \in Marks => frame.seq =< Newest

\* A mark is sent after everything up to it.
Before(frame, later) ==
    frame.type \in Placed /\ later.type \in Marks => frame.seq =< later.seq

\* What is in flight to a page at `last` can all be read there.
InOrder(frames, last) ==
    /\ \A i \in 1..Len(frames) : Genuine(frames[i])
    /\ \A i, j \in 1..Len(frames) : i =< j => Before(frames[i], frames[j])
    /\ \A i \in 1..Len(frames) : frames[i].type \in Marks => last =< frames[i].seq

Under(frames, latest) ==
    \A i \in 1..Len(frames) : frames[i].type \in Placed => frames[i].seq =< latest

\* Where a task is, its page is: a task that replays does it from the page's
\* position, and up to where it will say the page is live.
Follows(task, asked, frames, page) ==
    /\ task.phase = "resume" => asked # <<>> /\ Head(asked) = Resume(page.last)
    /\ task.phase \in {"latest", "earliest"} => task.after = page.last
    /\ task.phase \in {"resume", "latest", "earliest"} => frames = <<>>
    /\ task.phase \in {"earliest", "replay"} => page.last # NoSeq
    /\ task.phase \in {"earliest", "replay", "settle"} =>
           /\ page.last =< task.latest
           /\ task.latest =< Newest
           /\ Under(frames, task.latest)
    /\ task.phase \in {"earliest", "settle"} => task.sent = task.latest

\* A page that has no position is given one before any event.
MarkFirst(task, frames, socket, page) ==
    page.last = NoSeq =>
        /\ ~page.synced
        /\ frames # <<>> => Head(frames).type \in Marks \cup {"close"}
        /\ task.phase = "live" /\ socket = "up" => frames # <<>>

\* A page, its socket and its task agree on what the page has read of the log.
Route(task, asked, frames, socket, page) ==
    /\ page.last =< Newest
    /\ page.state \notin OnSocket => frames = <<>> /\ task.phase = "none"
    /\ InOrder(frames, page.last)
    /\ Follows(task, asked, frames, page)
    /\ MarkFirst(task, frames, socket, page)

\* Pings and refusals stay within their limits: a page that is hidden may still
\* ping, and one that was refused too often does not connect.
WithinLimits(page) ==
    /\ page.hidden => page.pings < MaxPings
    /\ page.refusals = RefusalLimit => page.state \in {"stopped", "outdated", "signed_out"}

\* Whatever says that a page's session has ended is true, if lookups succeed.
SaysEnded(frames, page) ==
    \/ page.state = "signed_out"
    \/ "ended" \in page.checks
    \/ \E i \in 1..Len(frames) : frames[i] = CloseFrame("signed_out")

SaidTruly(frames, page, held) == SaysEnded(frames, page) => LookupsFail \/ ~held

Agree(task, asked, frames, socket, page, held) ==
    /\ Route(task, asked, frames, socket, page)
    /\ WithinLimits(page)
    /\ SaidTruly(frames, page, held)

AgreeAt(c) == Agree(server[c], up[c], down[c], link[c], client[c], session[c])

\* The types of the variables, the log's apart.
Shapes ==
    /\ server \in [Conns -> Tasks]
    /\ up \in [Conns -> Seq(UpFrames)]
    /\ down \in [Conns -> Seq(DownFrames)]
    /\ link \in [Conns -> {"none", "up", "broken", "silent"}]
    /\ client \in [Conns -> Pages]
    /\ app \in [Conns -> Told]
    /\ session \in [Conns -> BOOLEAN]
    /\ faults \in 0..MaxFaults

\* The inductive invariant: it says what is in flight, for what a page is told
\* next is decided by frames sent long before.
StreamInv == Shapes /\ \A c \in Conns : AgreeAt(c)

-----------------------------------------------------------------------------
(* The log behind the sockets.                                              *)

\* A step of one page or its task, on its own page's connection.
OnConnection(c) ==
    GatewayStep(c) \/ PageStep(c) \/ Break(c) \/ DieUnseen(c) \/ Revoke(c) \/ Mangle(c)

\* What a task or a page does to the log is to read it (`EventLog`'s methods
\* are all that `serve` calls).
LEMMA ConnectionReads ==
    ASSUME ClosedIsNew, queue \in [Conns -> Receivers], NEW c \in Conns, OnConnection(c)
    PROVE  Read(c) \/ Latest \/ UNCHANGED vars
<1>1. Ends(c) => Unsubscribe(c) \/ UNCHANGED vars
  <2> SUFFICES ASSUME Ends(c) PROVE Unsubscribe(c) \/ UNCHANGED vars
    OBVIOUS
  <2>1. CASE queue[c].open
    BY <2>1 DEF Ends, Unsubscribe, rowVars, table
  <2>2. CASE ~queue[c].open
    <3>1. queue' = [queue EXCEPT ![c] = queue[c]]
      BY <2>2 DEF Ends, ClosedIsNew
    <3>2. queue' = queue
      BY <3>1
    <3> QED
      BY <3>2 DEF Ends, rowVars, vars
  <2> QED
    BY <2>1, <2>2
<1>2. (UNCHANGED logVars) => UNCHANGED vars
  BY DEF logVars, vars
<1>3. ASSUME Serve(c) PROVE Read(c) \/ Latest \/ UNCHANGED vars
  <2>1. ReadResume(c) => Read(c)
    BY DEF ReadResume, Read
  <2>2. ReadLatest(c) => Latest
    BY DEF ReadLatest
  <2>3. ReadEarliest(c) \/ ReplayOnePage(c) \/ GoLive(c) \/ AnswerPing(c) => UNCHANGED vars
    BY <1>2 DEF ReadEarliest, ReplayOnePage, GoLive, AnswerPing
  <2>4. Forward(c) => Read(c)
    BY DEF Forward, Read
  <2>5. FallBehind(c) => Ends(c)
    BY DEF FallBehind, ClosesWith
  <2> QED
    BY <1>1, <1>3, <2>1, <2>2, <2>3, <2>4, <2>5 DEF Serve, Read
<1>4. ASSUME GatewayStep(c) PROVE Read(c) \/ Latest \/ UNCHANGED vars
  <2>1. CheckSession(c) \/ LookupFails(c) \/ ResumeTimeout(c) \/ TaskFails(c) => Ends(c)
    BY DEF CheckSession, LookupFails, ResumeTimeout, TaskFails, ClosesWith
  <2> QED
    BY <1>1, <1>3, <1>4, <2>1 DEF GatewayStep, Read
<1>5. Keeps(c) => UNCHANGED vars
  BY <1>2 DEF Keeps
<1>6. Detaches(c) => Unsubscribe(c) \/ UNCHANGED vars
  BY <1>1 DEF Detaches
<1>7. ASSUME Hear(c) PROVE Read(c) \/ UNCHANGED vars
  <2>1. PassOn(c) \/ DropDuplicate(c) \/ TurnLive(c) \/ ReloadAll(c) \/ HearPong(c) => Keeps(c)
    BY DEF PassOn, DropDuplicate, TurnLive, ReloadAll, HearPong
  <2>2. GiveUp(c) \/ ToldClosed(c) \/ FindClosed(c) => Detaches(c)
    BY DEF GiveUp, ToldClosed, FindClosed
  <2> QED
    BY <1>5, <1>6, <1>7, <2>1, <2>2 DEF Hear, Read
<1>8. ASSUME PageStep(c) PROVE Read(c) \/ UNCHANGED vars
  <2>1. Connect(c) \/ RetryDue(c) \/ SessionLookup(c) \/ Hide(c) \/ Show(c) => UNCHANGED vars
    BY <1>2 DEF Connect, Opened, NotOpened, RetryDue, SessionLookup, Hide, Show
  <2>2. Start(c) \/ Stop(c) => Detaches(c)
    BY DEF Start, Stop
  <2>3. SessionAnswer(c) => Detaches(c) \/ UNCHANGED vars
    BY <1>2 DEF SessionAnswer, logVars
  <2>4. PongOverdue(c) => Detaches(c) \/ UNCHANGED vars
    BY <1>2 DEF PongOverdue, logVars
  <2> QED
    BY <1>6, <1>7, <1>8, <2>1, <2>2, <2>3, <2>4 DEF PageStep, Read
<1>9. Break(c) \/ DieUnseen(c) \/ Revoke(c) \/ Mangle(c) => UNCHANGED vars
  BY <1>2 DEF Break, DieUnseen, Revoke, Mangle
<1> QED
  BY <1>4, <1>8, <1>9 DEF OnConnection

\* Every step with the sockets is a step of the log.
LEMMA StepOfLog ==
    ASSUME ClosedIsNew, TypeOK, [UntrustedNext]_allVars
    PROVE  [Next]_vars
<1>1. CASE \E w \in Writers : LogStep(w)
  BY <1>1 DEF LogStep, Next
<1>2. CASE OtherReader
  BY <1>2 DEF OtherReader, Next
<1>3. CASE \E c \in Conns : OnConnection(c)
  <2>1. PICK c \in Conns : OnConnection(c)
    BY <1>3
  <2>2. Read(c) \/ Latest \/ UNCHANGED vars
    BY <2>1, ConnectionReads DEF TypeOK
  <2> QED
    BY <2>2 DEF Next
<1>4. CASE GatewayRestarts
  BY <1>4 DEF GatewayRestarts, Next
<1>5. CASE UNCHANGED allVars
  BY <1>5 DEF allVars, vars
<1> QED
  BY <1>1, <1>2, <1>3, <1>4, <1>5 DEF UntrustedNext, StreamNext, OnConnection

\* A receiver is closed by making it new.
LEMMA ClosedStep ==
    ASSUME ClosedIsNew, TypeOK, [Next]_vars
    PROVE  ClosedIsNew'
<1> SUFFICES ASSUME NEW c \in Conns, ~queue'[c].open PROVE queue'[c] = Closed
  BY DEF ClosedIsNew
<1>0. queue \in [Conns -> Receivers] /\ queue[c] \in Receivers
  BY DEF TypeOK
<1>1. ASSUME NEW w \in Writers, Step(w) PROVE queue'[c] = Closed
  <2>1. CASE Broadcast(w)
    <3> DEFINE event == [seq |-> batch[w].sent + 1, by |-> w]
    <3>1. queue'[c] = Offer(queue[c], event)
      BY <2>1 DEF Broadcast
    <3> HIDE DEF event
    <3>2. Offer(queue[c], event).open = queue[c].open
      BY <1>0 DEF Offer, Receivers
    <3>3. Offer(queue[c], event) = queue[c]
      BY <3>1, <3>2 DEF Offer
    <3> QED
      BY <3>1, <3>2, <3>3 DEF ClosedIsNew
  <2>2. CASE ~Broadcast(w)
    <3>1. queue' = queue
      BY <1>1, <2>2 DEF Step, Lock, Open, Emit, Rollback, Commit, Release, Prune, PruneFails
    <3> QED
      BY <3>1 DEF ClosedIsNew
  <2> QED
    BY <2>1, <2>2
<1>2. ASSUME NEW d \in Conns, Read(d) PROVE queue'[c] = Closed
  <2>1. CASE Subscribe(d)
    BY <1>0, <2>1 DEF Subscribe, ClosedIsNew, Closed, TypeOK
  <2>2. CASE Receive(d)
    <3>1. queue'[c].open = queue[c].open
      BY <1>0, <2>2 DEF Receive, Receivers
    <3>2. c # d
      BY <2>2, <3>1 DEF Receive, ClosedIsNew, Closed
    <3> QED
      BY <1>0, <2>2, <3>1, <3>2 DEF Receive, ClosedIsNew
  <2>3. CASE Unsubscribe(d)
    BY <1>0, <2>3 DEF Unsubscribe, ClosedIsNew
  <2> QED
    BY <1>2, <2>1, <2>2, <2>3 DEF Read
<1>3. CASE Latest
  BY <1>3 DEF Latest, ClosedIsNew
<1>4. CASE Restart
  BY <1>4 DEF Restart
<1>5. CASE UNCHANGED vars
  BY <1>5 DEF vars, ClosedIsNew
<1> QED
  BY <1>1, <1>2, <1>3, <1>4, <1>5 DEF Next

\* The sockets use the log as it was meant to be used: what is proved of the
\* log holds with any number of pages connecting, replaying and losing their
\* sockets (`serve` and the pages' snapshots are its only readers).
THEOREM ServesTheLog == UntrustedSpec => Spec
<1>1. StreamInit => Init /\ IInv /\ ClosedIsNew
  <2>1. StreamInit => Init
    BY DEF StreamInit
  <2>2. Init => IInv
    BY InitEstablishes
  <2>3. Init => ClosedIsNew
    BY DEF Init, ClosedIsNew
  <2> QED
    BY <2>1, <2>2, <2>3
<1>2. IInv /\ ClosedIsNew /\ [UntrustedNext]_allVars => [Next]_vars /\ IInv' /\ ClosedIsNew'
  <2> SUFFICES ASSUME IInv, ClosedIsNew, [UntrustedNext]_allVars
               PROVE  [Next]_vars /\ IInv' /\ ClosedIsNew'
    OBVIOUS
  <2>1. TypeOK
    BY DEF IInv
  <2>2. [Next]_vars
    BY <2>1, StepOfLog
  <2> QED
    BY <2>1, <2>2, ClosedStep, StepPreserves
<1> QED
  BY <1>1, <1>2, PTL DEF UntrustedSpec, Spec

-----------------------------------------------------------------------------
(* The end of the log.                                                      *)

\* The newest number and the rows behind it (`UserLog::last`, `latest`).
LEMMA LogEnd ==
    ASSUME IInv
    PROVE  /\ Newest \in 0..MaxSeq
           /\ \A s \in Seqs : issued[s] # NoOne <=> s =< Newest
           /\ \A s \in Stored : s \in 1..Newest /\ s \in Seqs /\ body[s] = issued[s]
           /\ lock = NoOne => LatestValue = Newest
<1>0. PICK lo, hi \in Nat : Run(lo, hi) /\ (lock = NoOne => cached \in {NoSeq, hi})
  BY DEF IInv
<1>1. StoredLast = hi /\ Newest = hi
  BY <1>0, RunEnds
<1>2. hi \in 0..MaxSeq /\ Issued = 1..hi /\ Stored = lo..hi /\ lo \in Nat \ {0} /\ MaxSeq \in Nat
  BY <1>0, LimitsAssumption DEF Run
<1>3. \A s \in Seqs : issued[s] # NoOne <=> s =< hi
  BY <1>2 DEF Issued, Seqs
<1>4. \A s \in Stored : s \in 1..hi /\ s \in Seqs /\ body[s] = issued[s]
  BY <1>0, <1>2 DEF Run, Seqs
<1>5. lock = NoOne => LatestValue = hi
  BY <1>0, <1>1 DEF LatestValue, NoSeq
<1> QED
  BY <1>1, <1>2, <1>3, <1>4, <1>5

\* `LogEnd` in the next state.
LEMMA LogEndNext ==
    IInv' => /\ Newest' \in 0..MaxSeq
             /\ \A s \in Seqs : issued'[s] # NoOne <=> s =< Newest'
<1>1. IInv => /\ Newest \in 0..MaxSeq
              /\ \A s \in Seqs : issued[s] # NoOne <=> s =< Newest
  BY LogEnd
<1>2. (IInv => /\ Newest \in 0..MaxSeq
               /\ \A s \in Seqs : issued[s] # NoOne <=> s =< Newest)'
  BY <1>1, PTL
<1> QED
  BY <1>2

\* The log only grows, and what it has does not change.
LEMMA LogGrows ==
    ASSUME IInv, [Next]_vars
    PROVE  /\ Newest \in 0..MaxSeq /\ Newest' \in 0..MaxSeq /\ Newest =< Newest'
           /\ \A s \in Seqs : s =< Newest => issued'[s] = issued[s]
           /\ Newest' = Newest => issued' = issued
<1>1. IInv'
  BY StepPreserves
<1>2. /\ Newest \in 0..MaxSeq /\ Newest' \in 0..MaxSeq
      /\ \A s \in Seqs : issued[s] # NoOne <=> s =< Newest
      /\ \A s \in Seqs : issued'[s] # NoOne <=> s =< Newest'
  BY <1>1, LogEnd, LogEndNext
<1>3. \A s \in Seqs : s =< Newest => issued'[s] = issued[s]
  <2>1. CASE Next
    BY <1>2, <2>1, IssuedKept
  <2>2. CASE UNCHANGED vars
    BY <2>2 DEF vars
  <2> QED
    BY <2>1, <2>2
<1>4. MaxSeq \in Nat
  BY LimitsAssumption
<1>5. Newest =< Newest'
  <2>1. CASE Newest = 0
    BY <1>2, <2>1
  <2>2. CASE Newest # 0
    <3>1. Newest \in Seqs
      BY <1>2, <1>4, <2>2 DEF Seqs
    <3>2. issued[Newest] # NoOne /\ issued'[Newest] = issued[Newest]
      BY <1>2, <1>3, <3>1
    <3> QED
      BY <1>2, <3>1, <3>2
  <2> QED
    BY <2>1, <2>2
<1>6. Newest' = Newest => issued' = issued
  <2> SUFFICES ASSUME Newest' = Newest PROVE issued' = issued
    OBVIOUS
  <2>1. issued \in [Seqs -> Writers \cup {NoOne}] /\ issued' \in [Seqs -> Writers \cup {NoOne}]
    BY <1>1 DEF IInv, TypeOK
  <2>2. \A s \in Seqs : issued'[s] = issued[s]
    BY <1>2, <1>3
  <2> QED
    BY <2>1, <2>2
<1> QED
  BY <1>2, <1>3, <1>5, <1>6

\* What is genuine stays so.
LEMMA StaysGenuine ==
    ASSUME IInv, [Next]_vars, NEW frame \in DownFrames, Genuine(frame)
    PROVE  Genuine(frame)'
<1>1. /\ Newest \in Nat /\ Newest' \in Nat /\ Newest =< Newest' /\ Newest =< MaxSeq
      /\ \A s \in Seqs : s =< Newest => issued'[s] = issued[s]
  BY LogGrows
<1>2. frame.type \in Marks => frame.seq \in Int
  BY DEF DownFrames, Marks, Positions, CloseFrame, Pong
<1> QED
  BY <1>1, <1>2, LimitsAssumption DEF Genuine, Seqs

-----------------------------------------------------------------------------
(* Frames in flight.                                                        *)

\* Only an event and a mark carry a number.
LEMMA FrameNumbers ==
    \A frame \in DownFrames : frame.type \in Placed => frame.seq \in Nat
BY LimitsAssumption DEF DownFrames, Placed, Marks, Positions, Pong, Seqs

\* Frames are added at the end: events, or one mark that is not before any.
LEMMA AddedInOrder ==
    ASSUME NEW frames \in Seq(DownFrames), NEW more \in Seq(DownFrames), NEW last \in Int,
           InOrder(frames, last),
           \A i \in 1..Len(more) :
               /\ Genuine(more[i])
               /\ more[i].type \in Marks =>
                     Len(more) = 1 /\ last =< more[i].seq /\ Under(frames, more[i].seq)
    PROVE  InOrder(frames \o more, last)
<1> DEFINE all == frames \o more
           n == Len(frames)
           m == Len(more)
<1>1. n \in Nat /\ m \in Nat /\ Len(all) = n + m
  OBVIOUS
<1>2. \A i \in 1..(n + m) :
          \/ i \in 1..n /\ all[i] = frames[i]
          \/ i - n \in 1..m /\ all[i] = more[i - n] /\ i > n
  BY <1>1
<1>3. /\ \A i \in 1..n : frames[i] \in DownFrames
      /\ \A i \in 1..m : more[i] \in DownFrames
  OBVIOUS
<1> HIDE DEF all, n, m
<1>4. \A i \in 1..(n + m) : Genuine(all[i])
  <2>1. /\ \A i \in 1..n : Genuine(frames[i])
        /\ \A i \in 1..m : Genuine(more[i])
    BY DEF InOrder, n, m
  <2> QED
    BY <1>2, <2>1
<1>5. \A i, j \in 1..(n + m) : i =< j => Before(all[i], all[j])
  <2> SUFFICES ASSUME NEW i \in 1..(n + m), NEW j \in 1..(n + m), i =< j
               PROVE  Before(all[i], all[j])
    OBVIOUS
  <2>1. CASE j \in 1..n /\ all[j] = frames[j]
    <3>1. i \in 1..n /\ all[i] = frames[i]
      BY <1>1, <1>2, <2>1
    <3> QED
      BY <2>1, <3>1 DEF InOrder, n
  <2>2. CASE j - n \in 1..m /\ all[j] = more[j - n] /\ i \in 1..n /\ all[i] = frames[i]
    BY <2>2 DEF Before, Under, n, m
  <2>3. CASE /\ j - n \in 1..m /\ all[j] = more[j - n]
             /\ i - n \in 1..m /\ all[i] = more[i - n]
    <3>1. CASE more[j - n].type \in Marks
      <4>1. m = 1
        BY <2>3, <3>1 DEF m
      <4>2. i - n = j - n
        BY <1>1, <2>3, <4>1
      <4>3. more[j - n] \in DownFrames
        BY <1>3, <2>3
      <4>4. more[j - n].type \in Placed
        BY <3>1 DEF Placed
      <4>5. more[j - n].seq \in Nat
        BY <4>3, <4>4, FrameNumbers
      <4> QED
        BY <2>3, <4>2, <4>5 DEF Before
    <3>2. CASE more[j - n].type \notin Marks
      BY <2>3, <3>2 DEF Before
    <3> QED
      BY <3>1, <3>2
  <2> QED
    BY <1>2, <2>1, <2>2, <2>3
<1>6. \A i \in 1..(n + m) : all[i].type \in Marks => last =< all[i].seq
  <2>1. /\ \A i \in 1..n : frames[i].type \in Marks => last =< frames[i].seq
        /\ \A i \in 1..m : more[i].type \in Marks => last =< more[i].seq
    BY DEF InOrder, n, m
  <2> QED
    BY <1>2, <2>1
<1>7. Len(all) = n + m
  BY <1>1
<1> QED
  BY <1>4, <1>5, <1>6, <1>7 DEF InOrder, all

\* So is a bound on their numbers kept.
LEMMA AddedUnder ==
    ASSUME NEW frames \in Seq(DownFrames), NEW more \in Seq(DownFrames), NEW latest,
           Under(frames, latest), Under(more, latest)
    PROVE  Under(frames \o more, latest)
<1> DEFINE all == frames \o more
           n == Len(frames)
           m == Len(more)
<1>1. n \in Nat /\ m \in Nat /\ Len(all) = n + m
  OBVIOUS
<1>2. \A i \in 1..(n + m) :
          \/ i \in 1..n /\ all[i] = frames[i]
          \/ i - n \in 1..m /\ all[i] = more[i - n]
  BY <1>1
<1> HIDE DEF all, n, m
<1>3. /\ \A i \in 1..n : frames[i].type \in Placed => frames[i].seq =< latest
      /\ \A i \in 1..m : more[i].type \in Placed => more[i].seq =< latest
  BY DEF Under, n, m
<1>4. \A i \in 1..(n + m) : all[i].type \in Placed => all[i].seq =< latest
  BY <1>2, <1>3
<1> QED
  BY <1>1, <1>4 DEF Under, all

\* What arrives of what was sent: in the same order, with frames lost or
\* repeated.
Thinned(new, old) ==
    \E at \in [1..Len(new) -> 1..Len(old)] :
        /\ \A i \in 1..Len(new) : new[i] = old[at[i]]
        /\ \A i, j \in 1..Len(new) : i =< j => at[i] =< at[j]

\* What is thinned is in order still.
LEMMA ThinnedInOrder ==
    ASSUME NEW old \in Seq(DownFrames), NEW new \in Seq(DownFrames), NEW last,
           Thinned(new, old)
    PROVE  /\ InOrder(old, last) => InOrder(new, last)
           /\ \A latest : Under(old, latest) => Under(new, latest)
           /\ \A i \in 1..Len(new) : \E k \in 1..Len(old) : new[i] = old[k]
<1>1. PICK at \in [1..Len(new) -> 1..Len(old)] :
          /\ \A i \in 1..Len(new) : new[i] = old[at[i]]
          /\ \A i, j \in 1..Len(new) : i =< j => at[i] =< at[j]
  BY DEF Thinned
<1>2. InOrder(old, last) => InOrder(new, last)
  BY ZenonT(60), <1>1 DEF InOrder
<1>3. \A latest : Under(old, latest) => Under(new, latest)
  BY <1>1 DEF Under
<1> QED
  BY <1>1, <1>2, <1>3

\* A connection that fails cuts what was sent.
LEMMA Cut ==
    ASSUME NEW frames \in Seq(DownFrames), NEW n \in 0..Len(frames)
    PROVE  LET new == SubSeq(frames, 1, n)
           IN  /\ new \in Seq(DownFrames)
               /\ Thinned(new, frames)
               /\ new # <<>> => frames # <<>> /\ Head(new) = Head(frames)
<1> DEFINE new == SubSeq(frames, 1, n)
           at == [i \in 1..n |-> i]
<1>1. new \in Seq(DownFrames) /\ Len(new) = n /\ \A i \in 1..n : new[i] = frames[i]
  <2>1. \A i \in 1..n : frames[i] \in DownFrames
    OBVIOUS
  <2>2. /\ new \in Seq(DownFrames)
        /\ Len(new) = IF 1 =< n THEN n - 1 + 1 ELSE 0
        /\ \A i \in 1..(n - 1 + 1) : new[i] = frames[1 + i - 1]
    BY <2>1, SubSeqProperties
  <2> QED
    BY <2>2
<1>2. Len(frames) \in Nat /\ 1..n \subseteq 1..Len(frames)
  OBVIOUS
<1> HIDE DEF new
<1>3. at \in [1..Len(new) -> 1..Len(frames)]
  BY <1>1, <1>2
<1>4. Thinned(new, frames)
  BY <1>1, <1>3 DEF Thinned
<1>5. new # <<>> => frames # <<>> /\ Head(new) = Head(frames)
  <2> SUFFICES ASSUME new # <<>> PROVE frames # <<>> /\ Head(new) = Head(frames)
    OBVIOUS
  <2>1. n >= 1
    BY <1>1
  <2>2. Head(new) = new[1] /\ new[1] = frames[1] /\ frames # <<>>
    BY <1>1, <2>1
  <2> QED
    BY <2>2
<1> QED
  BY <1>1, <1>4, <1>5 DEF new

\* A frame is lost.
LEMMA OneLost ==
    ASSUME NEW frames \in Seq(DownFrames), NEW k \in 1..Len(frames)
    PROVE  LET new == RemoveAt(frames, k)
           IN  /\ new \in Seq(DownFrames)
               /\ Thinned(new, frames)
               /\ k > 1 => new # <<>> /\ Head(new) = Head(frames)
<1> DEFINE new == RemoveAt(frames, k)
           before == SubSeq(frames, 1, k - 1)
           after == SubSeq(frames, k + 1, Len(frames))
           n == Len(frames)
           at == [i \in 1..(n - 1) |-> IF i < k THEN i ELSE i + 1]
<1>0. n \in Nat /\ k \in Nat /\ k >= 1 /\ k =< n /\ \A i \in 1..n : frames[i] \in DownFrames
  OBVIOUS
<1>1. /\ before \in Seq(DownFrames) /\ Len(before) = k - 1
      /\ \A i \in 1..(k - 1) : before[i] = frames[i]
  <2>1. /\ before \in Seq(DownFrames)
        /\ Len(before) = IF 1 =< k - 1 THEN k - 1 - 1 + 1 ELSE 0
        /\ \A i \in 1..(k - 1 - 1 + 1) : before[i] = frames[1 + i - 1]
    BY <1>0, SubSeqProperties
  <2> HIDE DEF before
  <2> QED
    BY <1>0, <2>1
<1>2. /\ after \in Seq(DownFrames) /\ Len(after) = n - k
      /\ \A i \in 1..(n - k) : after[i] = frames[i + k]
  <2>0. \A i \in (k + 1)..n : frames[i] \in DownFrames
    BY <1>0
  <2>1. /\ after \in Seq(DownFrames)
        /\ Len(after) = IF k + 1 =< n THEN n - (k + 1) + 1 ELSE 0
        /\ \A i \in 1..(n - (k + 1) + 1) : after[i] = frames[(k + 1) + i - 1]
    BY <1>0, <2>0, SubSeqProperties
  <2> HIDE DEF after
  <2> QED
    BY SMTT(30), <1>0, <2>1
<1>3. /\ new \in Seq(DownFrames) /\ Len(new) = n - 1
      /\ \A i \in 1..(n - 1) : new[i] = IF i < k THEN frames[i] ELSE frames[i + 1]
  <2>1. new = before \o after
    BY DEF RemoveAt
  <2> HIDE DEF new, before, after
  <2>2. /\ new \in Seq(DownFrames) /\ Len(new) = Len(before) + Len(after)
        /\ \A i \in 1..(Len(before) + Len(after)) :
               new[i] = IF i =< Len(before) THEN before[i] ELSE after[i - Len(before)]
    BY <1>1, <1>2, <2>1, ConcatProperties
  <2>3. Len(before) + Len(after) = n - 1
    BY <1>0, <1>1, <1>2
  <2>4. ASSUME NEW i \in 1..(n - 1)
        PROVE  new[i] = IF i < k THEN frames[i] ELSE frames[i + 1]
    <3>1. CASE i < k
      BY <1>0, <1>1, <2>2, <2>3, <3>1
    <3>2. CASE ~(i < k)
      <4>1. new[i] = after[i - (k - 1)]
        BY <1>0, <1>1, <2>2, <2>3, <3>2
      <4>2. i - (k - 1) \in 1..(n - k)
        BY <1>0, <3>2
      <4>3. (i - (k - 1)) + k = i + 1
        BY <1>0
      <4> QED
        BY <1>2, <3>2, <4>1, <4>2, <4>3
    <3> QED
      BY <3>1, <3>2
  <2> QED
    BY <2>2, <2>3, <2>4
<1> HIDE DEF new, before, after, n
<1>4. at \in [1..Len(new) -> 1..n]
  BY <1>0, <1>3
<1>5. Thinned(new, frames)
  <2>1. \A i \in 1..Len(new) : new[i] = frames[at[i]]
    BY <1>3
  <2>2. \A i, j \in 1..Len(new) : i =< j => at[i] =< at[j]
    BY <1>0, <1>3
  <2> QED
    BY <1>4, <2>1, <2>2 DEF Thinned, n
<1>6. k > 1 => new # <<>> /\ Head(new) = Head(frames)
  <2> SUFFICES ASSUME k > 1 PROVE new # <<>> /\ Head(new) = Head(frames)
    OBVIOUS
  <2>1. 1 \in 1..(n - 1)
    BY <1>0
  <2>2. new[1] = frames[1]
    BY <1>3, <2>1
  <2>3. new # <<>> /\ Head(new) = new[1]
    BY <1>3, <2>1
  <2> QED
    BY <2>2, <2>3
<1> QED
  BY <1>3, <1>5, <1>6 DEF new

\* A frame is repeated.
LEMMA OneRepeated ==
    ASSUME NEW frames \in Seq(DownFrames), NEW k \in 1..Len(frames)
    PROVE  LET new == InsertAt(frames, k, frames[k])
           IN  /\ new \in Seq(DownFrames)
               /\ Thinned(new, frames)
               /\ new # <<>> /\ Head(new) = Head(frames)
<1> DEFINE new == InsertAt(frames, k, frames[k])
           before == SubSeq(frames, 1, k - 1)
           first == before \o <<frames[k]>>
           after == SubSeq(frames, k, Len(frames))
           n == Len(frames)
           at == [i \in 1..(n + 1) |-> IF i =< k THEN i ELSE i - 1]
<1>0. n \in Nat /\ k \in Nat /\ k >= 1 /\ k =< n /\ \A i \in 1..n : frames[i] \in DownFrames
  OBVIOUS
<1>1. /\ before \in Seq(DownFrames) /\ Len(before) = k - 1
      /\ \A i \in 1..(k - 1) : before[i] = frames[i]
  <2>1. /\ before \in Seq(DownFrames)
        /\ Len(before) = IF 1 =< k - 1 THEN k - 1 - 1 + 1 ELSE 0
        /\ \A i \in 1..(k - 1 - 1 + 1) : before[i] = frames[1 + i - 1]
    BY <1>0, SubSeqProperties
  <2> HIDE DEF before
  <2> QED
    BY <1>0, <2>1
<1>2. /\ after \in Seq(DownFrames) /\ Len(after) = n - k + 1
      /\ \A i \in 1..(n - k + 1) : after[i] = frames[i + k - 1]
  <2>0. \A i \in k..n : frames[i] \in DownFrames
    BY <1>0
  <2>1. /\ after \in Seq(DownFrames)
        /\ Len(after) = IF k =< n THEN n - k + 1 ELSE 0
        /\ \A i \in 1..(n - k + 1) : after[i] = frames[k + i - 1]
    BY <1>0, <2>0, SubSeqProperties
  <2> HIDE DEF after
  <2> QED
    BY <1>0, <2>1
<1>3. /\ first \in Seq(DownFrames) /\ Len(first) = k
      /\ \A i \in 1..k : first[i] = frames[i]
  <2> HIDE DEF before
  <2>1. <<frames[k]>> \in Seq(DownFrames) /\ Len(<<frames[k]>>) = 1 /\ <<frames[k]>>[1] = frames[k]
    BY <1>0
  <2> DEFINE one == <<frames[k]>>
  <2> HIDE DEF one
  <2>2. /\ first \in Seq(DownFrames) /\ Len(first) = Len(before) + Len(one)
        /\ \A i \in 1..(Len(before) + Len(one)) :
               first[i] = IF i =< Len(before) THEN before[i] ELSE one[i - Len(before)]
    BY <1>1, <2>1, ConcatProperties DEF one
  <2> HIDE DEF first
  <2>3. Len(one) = 1 /\ one[1] = frames[k]
    BY <2>1 DEF one
  <2>4. \A i \in 1..k : i =< k - 1 \/ i = k
    BY <1>0
  <2>5. k - (k - 1) = 1 /\ ~(k =< k - 1) /\ k \in 1..k
    BY <1>0
  <2> QED
    BY SMTT(30), <1>0, <1>1, <2>2, <2>3, <2>4, <2>5
<1>4. /\ new \in Seq(DownFrames) /\ Len(new) = n + 1
      /\ \A i \in 1..(n + 1) : new[i] = IF i =< k THEN frames[i] ELSE frames[i - 1]
  <2>1. new = first \o after
    BY DEF InsertAt
  <2> HIDE DEF new, first, after
  <2>2. /\ new \in Seq(DownFrames) /\ Len(new) = Len(first) + Len(after)
        /\ \A i \in 1..(Len(first) + Len(after)) :
               new[i] = IF i =< Len(first) THEN first[i] ELSE after[i - Len(first)]
    BY <1>2, <1>3, <2>1, ConcatProperties
  <2>3. Len(first) + Len(after) = n + 1
    BY <1>0, <1>2, <1>3
  <2>4. ASSUME NEW i \in 1..(n + 1)
        PROVE  new[i] = IF i =< k THEN frames[i] ELSE frames[i - 1]
    <3>1. CASE i =< k
      BY <1>0, <1>3, <2>2, <2>3, <3>1
    <3>2. CASE ~(i =< k)
      <4>1. new[i] = after[i - k]
        BY <1>0, <1>3, <2>2, <2>3, <3>2
      <4>2. i - k \in 1..(n - k + 1)
        BY <1>0, <3>2
      <4>3. (i - k) + k - 1 = i - 1
        BY <1>0
      <4> QED
        BY <1>2, <3>2, <4>1, <4>2, <4>3
    <3> QED
      BY <3>1, <3>2
  <2> QED
    BY <2>2, <2>3, <2>4
<1> HIDE DEF new, before, first, after, n
<1>5. at \in [1..Len(new) -> 1..n]
  BY <1>0, <1>4
<1>6. Thinned(new, frames)
  <2>1. \A i \in 1..Len(new) : new[i] = frames[at[i]]
    BY <1>4
  <2>2. \A i, j \in 1..Len(new) : i =< j => at[i] =< at[j]
    BY <1>0, <1>4
  <2> QED
    BY <1>5, <2>1, <2>2 DEF Thinned, n
<1>7. new # <<>> /\ Head(new) = Head(frames)
  <2>1. 1 \in 1..(n + 1) /\ 1 =< k
    BY <1>0
  <2>2. new[1] = frames[1]
    BY <1>4, <2>1
  <2>3. new # <<>> /\ Head(new) = new[1]
    BY <1>4, <2>1
  <2> QED
    BY <2>2, <2>3
<1> QED
  BY <1>4, <1>6, <1>7 DEF new

\* The page reads the first frame, and may be where that says it is.
LEMMA TakenInOrder ==
    ASSUME NEW frames \in Seq(DownFrames), frames # <<>>,
           NEW last, InOrder(frames, last),
           NEW next, next = last \/ (Head(frames).type \in Placed /\ next = Head(frames).seq)
    PROVE  /\ Tail(frames) \in Seq(DownFrames)
           /\ InOrder(Tail(frames), next)
           /\ \A latest : Under(frames, latest) => Under(Tail(frames), latest)
           /\ \A i \in 1..Len(Tail(frames)) : \E k \in 1..Len(frames) : Tail(frames)[i] = frames[k]
           /\ Head(frames) \in DownFrames /\ Genuine(Head(frames))
           /\ Head(frames).type \in Marks => last =< Head(frames).seq
           /\ \E k \in 1..Len(frames) : Head(frames) = frames[k]
<1> DEFINE rest == Tail(frames)
           n == Len(frames)
<1>1. /\ n \in Nat /\ n >= 1
      /\ rest \in Seq(DownFrames) /\ Len(rest) = n - 1
      /\ \A i \in 1..(n - 1) : rest[i] = frames[i + 1]
      /\ Head(frames) = frames[1] /\ frames[1] \in DownFrames
  OBVIOUS
<1> HIDE DEF rest, n
<1>2. \A i \in 1..(n - 1) : i + 1 \in 1..n /\ 1 =< i + 1 /\ 1 \in 1..n
  BY <1>1
<1>3. 1 \in 1..n
  BY <1>1
<1>4. InOrder(rest, next)
  <2>1. \A i \in 1..(n - 1) : Genuine(rest[i])
    BY <1>1, <1>2 DEF InOrder, n
  <2>2. \A i, j \in 1..(n - 1) : i =< j => Before(rest[i], rest[j])
    <3> SUFFICES ASSUME NEW i \in 1..(n - 1), NEW j \in 1..(n - 1), i =< j
                 PROVE  Before(rest[i], rest[j])
      OBVIOUS
    <3>1. i + 1 =< j + 1
      BY <1>1
    <3>2. Before(frames[i + 1], frames[j + 1])
      BY <1>2, <3>1 DEF InOrder, n
    <3> QED
      BY <1>1, <3>2
  <2>3. ASSUME NEW i \in 1..(n - 1), rest[i].type \in Marks PROVE next =< rest[i].seq
    <3>1. frames[i + 1].type \in Marks /\ rest[i] = frames[i + 1] /\ i + 1 \in 1..n
      BY <1>1, <1>2, <2>3
    <3>2. CASE next = last
      BY <3>1, <3>2 DEF InOrder, n
    <3>3. CASE Head(frames).type \in Placed /\ next = Head(frames).seq
      <4>1. Before(frames[1], frames[i + 1])
        BY <1>2 DEF InOrder, n
      <4> QED
        BY <1>1, <3>1, <3>3, <4>1 DEF Before
    <3> QED
      BY <3>2, <3>3
  <2> QED
    BY <1>1, <2>1, <2>2, <2>3 DEF InOrder
<1>5. \A latest : Under(frames, latest) => Under(rest, latest)
  <2> SUFFICES ASSUME NEW latest, Under(frames, latest) PROVE Under(rest, latest)
    OBVIOUS
  <2>1. \A i \in 1..n : frames[i].type \in Placed => frames[i].seq =< latest
    BY DEF Under, n
  <2>2. \A i \in 1..(n - 1) : rest[i].type \in Placed => rest[i].seq =< latest
    BY <1>1, <1>2, <2>1
  <2> QED
    BY <1>1, <2>2 DEF Under
<1>6. \A i \in 1..Len(rest) : \E k \in 1..n : rest[i] = frames[k]
  BY <1>1, <1>2
<1>7. Genuine(Head(frames)) /\ (Head(frames).type \in Marks => last =< Head(frames).seq)
  BY <1>1, <1>3 DEF InOrder, n
<1> QED
  BY <1>1, <1>3, <1>4, <1>5, <1>6, <1>7 DEF rest, n

-----------------------------------------------------------------------------
(* A page of the replay.                                                    *)

\* The elements of a finite set of numbers, in order, are each found by how
\* many there are up to them (`ORDER BY seq`).
LEMMA EachRankIsTaken ==
    ASSUME NEW n \in Nat, NEW S \in SUBSET (1..n), NEW k \in 1..Cardinality(S)
    PROVE  \E s \in S : Cardinality({t \in S : t =< s}) = k
<1> DEFINE Upto(s) == {t \in S : t =< s}
           rank == [s \in S |-> Cardinality(Upto(s))]
           size == Cardinality(S)
<1>1. IsFiniteSet(1..n)
  BY FS_Interval
<1>2. IsFiniteSet(S) /\ size \in Nat
  BY <1>1, FS_Subset, FS_CardinalityType
<1>3. \A s \in S : IsFiniteSet(Upto(s)) /\ Cardinality(Upto(s)) =< size
  <2> TAKE s \in S
  <2>1. Upto(s) \in SUBSET S
    OBVIOUS
  <2> HIDE DEF Upto
  <2> QED
    BY <1>2, <2>1, FS_Subset
<1>4. \A s \in S : Cardinality(Upto(s)) \in 1..size
  <2> TAKE s \in S
  <2>1. s \in Upto(s)
    OBVIOUS
  <2> HIDE DEF Upto
  <2>2. Cardinality(Upto(s)) \in Nat /\ Cardinality(Upto(s)) # 0
    BY <1>3, <2>1, FS_CardinalityType, FS_EmptySet
  <2> QED
    BY <1>2, <1>3, <2>2
<1>5. \A s, t \in S : s < t => Cardinality(Upto(s)) < Cardinality(Upto(t))
  <2> TAKE s \in S, t \in S
  <2> HAVE s < t
  <2>0. \A x \in S : x \in Int
    OBVIOUS
  <2>1. Upto(s) \in SUBSET Upto(t) /\ t \in Upto(t) /\ t \notin Upto(s)
    <3>1. \A x \in S : x =< s => x =< t
      BY <2>0
    <3>2. ~(t =< s) /\ t =< t
      BY <2>0
    <3> QED
      BY <3>1, <3>2
  <2> HIDE DEF Upto
  <2>2. /\ Cardinality(Upto(s)) =< Cardinality(Upto(t))
        /\ Cardinality(Upto(t)) = Cardinality(Upto(s)) => Upto(t) = Upto(s)
    BY <1>3, <2>1, FS_Subset
  <2> QED
    BY <1>4, <2>1, <2>2
<1>6. rank \in Injection(S, 1..size)
  <2>1. rank \in [S -> 1..size]
    BY <1>4
  <2>2. \A s, t \in S : rank[s] = rank[t] => s = t
    <3> HIDE DEF Upto
    <3> TAKE s \in S, t \in S
    <3> HAVE rank[s] = rank[t]
    <3>1. s < t \/ t < s \/ s = t
      OBVIOUS
    <3> QED
      BY <1>4, <1>5, <3>1
  <2> HIDE DEF rank
  <2> QED
    BY <2>1, <2>2 DEF Injection, IsInjective
<1>7. IsFiniteSet(1..size) /\ Cardinality(1..size) = size
  <2>1. 0 \in Int /\ 1 \in Int /\ size \in Int
    BY <1>2
  <2> HIDE DEF size
  <2> QED
    BY <1>2, <2>1, FS_Interval
<1>8. rank \in Surjection(S, 1..size)
  <2> HIDE DEF rank
  <2> QED
    BY <1>6, <1>7, FS_Injection DEF size
<1>9. \E s \in S : rank[s] = k
  <2> HIDE DEF rank
  <2> QED
    BY <1>8 DEF Surjection
<1> QED
  BY <1>9

\* The frames of a page are rows of the log, none of them behind where the
\* replay ends (`since`).
LEMMA PageFramesAreRows ==
    ASSUME IInv, NEW page \in SUBSET Stored, NEW latest
    PROVE  LET frames == PageFrames(page, latest)
           IN  /\ frames \in Seq(DownFrames)
               /\ \A i \in 1..Len(frames) : frames[i].type = "event" /\ Genuine(frames[i])
               /\ Under(frames, latest)
<1> DEFINE wanted == {s \in page : s =< latest}
           ranked(i) == CHOOSE s \in wanted : Cardinality({t \in wanted : t =< s}) = i
           n == Cardinality(wanted)
           frames == PageFrames(page, latest)
<1>1. CASE wanted = {}
  <2>1. frames = <<>>
    BY <1>1 DEF PageFrames
  <2> HIDE DEF frames
  <2>2. frames \in Seq(DownFrames) /\ Len(frames) = 0
    BY <2>1
  <2> QED
    BY <2>2 DEF Under, frames
<1>2. CASE wanted # {}
  <2>1. frames = [i \in 1..n |-> EventFrame(ranked(i))]
    BY <1>2 DEF PageFrames
  <2>2. MaxSeq \in Nat /\ wanted \in SUBSET (1..MaxSeq)
    BY LimitsAssumption DEF Stored, Seqs
  <2>3. n \in Nat
    <3> HIDE DEF wanted
    <3>1. 1 \in Int /\ MaxSeq \in Int
      BY <2>2
    <3>2. IsFiniteSet(1..MaxSeq)
      BY <3>1, FS_Interval
    <3>3. IsFiniteSet(wanted)
      BY <2>2, <3>2, FS_Subset
    <3> QED
      BY <3>3, FS_CardinalityType DEF n
  <2>4. \A i \in 1..n : ranked(i) \in wanted
    <3> TAKE i \in 1..n
    <3> HIDE DEF wanted
    <3>1. \E s \in wanted : Cardinality({t \in wanted : t =< s}) = i
      BY <2>2, EachRankIsTaken
    <3> QED
      BY <3>1
  <2>5. \A i \in 1..n : /\ ranked(i) \in 1..Newest /\ ranked(i) \in Seqs /\ ranked(i) =< latest
                        /\ body[ranked(i)] = issued[ranked(i)]
                        /\ body[ranked(i)] \in Writers \cup {NoOne}
    <3> TAKE i \in 1..n
    <3>1. ranked(i) \in Stored /\ ranked(i) =< latest
      BY <2>4
    <3> HIDE DEF ranked
    <3>2. ranked(i) \in 1..Newest /\ ranked(i) \in Seqs /\ body[ranked(i)] = issued[ranked(i)]
      BY <3>1, LogEnd
    <3>3. body[ranked(i)] \in Writers \cup {NoOne}
      BY <3>2 DEF IInv, TypeOK
    <3> QED
      BY <3>1, <3>2, <3>3
  <2> HIDE DEF ranked, n
  <2>6. \A i \in 1..n : /\ EventFrame(ranked(i)) \in DownFrames
                        /\ EventFrame(ranked(i)).type = "event"
                        /\ EventFrame(ranked(i)).seq = ranked(i)
                        /\ Genuine(EventFrame(ranked(i)))
    <3> TAKE i \in 1..n
    <3> DEFINE s == ranked(i)
    <3>1. /\ s \in 1..Newest /\ s \in Seqs /\ body[s] = issued[s]
          /\ body[s] \in Writers \cup {NoOne}
      BY <2>5
    <3> HIDE DEF s
    <3>2. /\ EventFrame(s) \in DownFrames /\ EventFrame(s).type = "event"
          /\ EventFrame(s).seq = s /\ EventFrame(s).by = issued[s]
      BY <3>1 DEF EventFrame, DownFrames
    <3>3. Genuine(EventFrame(s))
      BY <3>1, <3>2 DEF Genuine, Marks
    <3> QED
      BY <3>2, <3>3 DEF s
  <2> HIDE DEF frames
  <2>7. /\ frames \in Seq(DownFrames) /\ Len(frames) = n
        /\ \A i \in 1..n : frames[i] = EventFrame(ranked(i))
    <3> HIDE DEF DownFrames, EventFrame
    <3>1. frames \in [1..n -> DownFrames]
      BY <2>1, <2>6
    <3> QED
      BY <2>1, <2>3, <3>1
  <2>8. \A i \in 1..n : frames[i].type = "event" /\ Genuine(frames[i]) /\ frames[i].seq =< latest
    BY <2>5, <2>6, <2>7
  <2> QED
    BY <2>7, <2>8 DEF Under, frames
<1> QED
  BY <1>1, <1>2

-----------------------------------------------------------------------------
(* How what is in flight, and the page it is for, may change.               *)

\* What is in order stays so while the log grows.
LEMMA StaysInOrder ==
    ASSUME IInv, [Next]_vars, NEW frames \in Seq(DownFrames), NEW last, InOrder(frames, last)
    PROVE  InOrder(frames, last)'
<1>1. \A i \in 1..Len(frames) : frames[i] \in DownFrames
  OBVIOUS
<1>2. \A i \in 1..Len(frames) : Genuine(frames[i])'
  <2> TAKE i \in 1..Len(frames)
  <2>1. Genuine(frames[i])
    BY DEF InOrder
  <2> QED
    BY <1>1, <2>1, StaysGenuine
<1> QED
  BY <1>2 DEF InOrder

\* So does a page stay on its route.
LEMMA RouteStays ==
    ASSUME IInv, [Next]_vars, NEW task \in Tasks, NEW asked, NEW frames \in Seq(DownFrames),
           NEW socket, NEW page \in Pages, Route(task, asked, frames, socket, page)
    PROVE  Route(task, asked, frames, socket, page)'
<1>1. Newest \in Int /\ Newest' \in Int /\ Newest =< Newest'
  BY LogGrows
<1>2. page.last \in Int /\ task.latest \in Int
  BY LimitsAssumption DEF Pages, Tasks, Positions, NoSeq
<1>3. InOrder(frames, page.last)'
  BY StaysInOrder DEF Route
<1>4. (page.last =< Newest)'
  BY <1>1, <1>2 DEF Route
<1>5. Follows(task, asked, frames, page)'
  BY <1>1, <1>2 DEF Route, Follows
<1> QED
  BY <1>3, <1>4, <1>5 DEF Route

\* The page has given its socket up (`close_socket`).
LEMMA RouteOfDetached ==
    ASSUME IInv, NEW asked, NEW socket, NEW page \in Pages,
           page.last =< Newest, page.last = NoSeq => ~page.synced
    PROVE  Route(NoServer, asked, <<>>, socket, page)
<1>1. Len(<<>>) = 0
  OBVIOUS
<1>2. InOrder(<<>>, page.last)
  BY <1>1 DEF InOrder
<1> QED
  BY <1>2 DEF Route, Follows, MarkFirst, NoServer

\* The page changes and does not read, or pings on its socket.
LEMMA RouteOfPage ==
    ASSUME NEW task \in Tasks, NEW asked \in Seq(UpFrames), NEW more, NEW frames, NEW socket,
           NEW page \in Pages, NEW new \in Pages, Route(task, asked, frames, socket, page),
           new.last = page.last, new.synced = page.synced,
           new.state \notin OnSocket => page.state \notin OnSocket,
           more = asked \/ more = Append(asked, Ping)
    PROVE  Route(task, more, frames, socket, new)
<1>1. asked # <<>> => more # <<>> /\ Head(more) = Head(asked)
  <2>1. Ping \in UpFrames
    BY DEF UpFrames
  <2> HIDE DEF UpFrames, Ping
  <2> QED
    BY <2>1, HeadTailAppend, AppendProperties
<1> QED
  BY <1>1 DEF Route, Follows, MarkFirst

\* The task ends, and may close the socket with a code.
LEMMA RouteOfEnded ==
    ASSUME IInv, NEW task \in Tasks, NEW asked, NEW frames \in Seq(DownFrames), NEW socket,
           NEW broken, NEW page \in Pages, Route(task, asked, frames, socket, page),
           task.phase # "none", NEW code \in Codes,
           NEW new, new = frames \/ new = frames \o <<CloseFrame(code)>>
    PROVE  Route(NoServer, asked, new, broken, page)
<1>1. page.state \in OnSocket
  BY DEF Route
<1>2. page.last \in Int
  BY LimitsAssumption DEF Pages, Positions, NoSeq
<1> DEFINE more == <<CloseFrame(code)>>
<1>3. /\ CloseFrame(code) \in DownFrames
      /\ CloseFrame(code).type = "close" /\ Genuine(CloseFrame(code))
  BY DEF CloseFrame, DownFrames, Genuine, Marks
<1>4. more \in Seq(DownFrames) /\ Len(more) = 1 /\ more[1] = CloseFrame(code) /\ more # <<>>
  <2> HIDE DEF DownFrames
  <2> QED
    BY <1>3
<1>5. \A i \in 1..Len(more) :
          /\ Genuine(more[i])
          /\ more[i].type \in Marks =>
                Len(more) = 1 /\ page.last =< more[i].seq /\ Under(frames, more[i].seq)
  BY <1>3, <1>4 DEF Marks
<1> HIDE DEF more
<1>6. InOrder(frames \o more, page.last)
  BY <1>2, <1>4, <1>5, AddedInOrder DEF Route
<1>7. InOrder(new, page.last)
  BY <1>6 DEF Route, more
<1>8. page.last = NoSeq /\ new # <<>> => Head(new).type \in Marks \cup {"close"}
  <2> SUFFICES ASSUME page.last = NoSeq, new # <<>>
               PROVE  Head(new).type \in Marks \cup {"close"}
    OBVIOUS
  <2>1. frames # <<>> => Head(frames).type \in Marks \cup {"close"}
    BY DEF Route, MarkFirst
  <2>2. CASE frames = <<>>
    <3>1. new = more
      BY <1>4, <2>2, ConcatEmptySeq DEF more
    <3> QED
      BY <1>3, <1>4, <3>1
  <2>3. CASE frames # <<>>
    <3>1. Head(new) = Head(frames)
      <4>1. Head(frames \o more) = Head(frames)
        <5> HIDE DEF DownFrames
        <5> QED
          BY <1>4, <2>3
      <4> QED
        BY <4>1 DEF more
    <3> QED
      BY <2>1, <2>3, <3>1
  <2> QED
    BY <2>2, <2>3
<1> QED
  BY <1>1, <1>7, <1>8 DEF Route, Follows, MarkFirst, NoServer

\* Part of what was sent arrives.
LEMMA RouteOfThinned ==
    ASSUME NEW task \in Tasks, NEW asked, NEW frames \in Seq(DownFrames), NEW socket,
           NEW page \in Pages, Route(task, asked, frames, socket, page),
           NEW new \in Seq(DownFrames), Thinned(new, frames),
           new # <<>> => frames # <<>>,
           page.last = NoSeq /\ new # <<>> => Head(new) = Head(frames),
           NEW broken,
           broken = "up" => socket = "up" /\ (page.last = NoSeq /\ new = <<>> => frames = <<>>)
    PROVE  Route(task, asked, new, broken, page)
<1>1. /\ InOrder(new, page.last)
      /\ \A latest : Under(frames, latest) => Under(new, latest)
  BY ThinnedInOrder DEF Route
<1> QED
  BY <1>1 DEF Route, Follows, MarkFirst

\* The page reads a frame.
LEMMA RouteOfTaken ==
    ASSUME IInv, NEW task \in Tasks, NEW asked, NEW frames \in Seq(DownFrames), NEW socket,
           NEW page \in Pages, Route(task, asked, frames, socket, page),
           frames # <<>>, NEW new \in Pages, new.state \in OnSocket,
           \/ new.last = page.last /\ Head(frames).type \notin Marks \cup {"close"}
           \/ Head(frames).type \in Placed /\ new.last = Head(frames).seq
    PROVE  Route(task, asked, Tail(frames), socket, new)
<1> DEFINE frame == Head(frames)
<1>0. /\ InOrder(frames, page.last)
      /\ new.last = page.last \/ (Head(frames).type \in Placed /\ new.last = Head(frames).seq)
  BY DEF Route
<1>1. /\ Tail(frames) \in Seq(DownFrames)
      /\ InOrder(Tail(frames), new.last)
      /\ \A latest : Under(frames, latest) => Under(Tail(frames), latest)
      /\ frame \in DownFrames /\ Genuine(frame)
      /\ \E k \in 1..Len(frames) : frame = frames[k]
  BY <1>0, TakenInOrder
<1> HIDE DEF frame
<1>2. frame.type \in Placed => frame.seq \in Nat
  BY <1>1, FrameNumbers
<1>3. Newest \in Nat
  BY LogEnd
<1>4. new.last =< Newest
  <2>1. frame.type \in Placed => frame.seq =< Newest
    BY <1>1, <1>3 DEF Genuine, Placed, Marks
  <2> QED
    BY <2>1 DEF Route, frame
<1>5. new.last # NoSeq
  <2>1. page.last = NoSeq => frame.type \in Marks \cup {"close"}
    BY DEF Route, MarkFirst, frame
  <2>2. frame.type \in Placed => frame.seq # NoSeq
    BY <1>2 DEF NoSeq
  <2> QED
    BY <2>1, <2>2 DEF frame
<1>6. ASSUME task.phase \in {"earliest", "replay", "settle"} PROVE new.last =< task.latest
  <2>1. Under(frames, task.latest) /\ page.last =< task.latest
    BY <1>6 DEF Route, Follows
  <2>2. frame.type \in Placed => frame.seq =< task.latest
    BY <1>1, <2>1 DEF Under
  <2> QED
    BY <2>1, <2>2 DEF frame
<1>7. task.phase \notin {"resume", "latest"}
  BY DEF Route, Follows
<1>8. Follows(task, asked, Tail(frames), new)
  BY <1>1, <1>5, <1>6, <1>7 DEF Route, Follows
<1> QED
  BY <1>1, <1>4, <1>5, <1>8 DEF Route, MarkFirst

-----------------------------------------------------------------------------
(* Each step of a page or its task.                                         *)

\* Everything the proof knows of a state.
StreamHolds == IInv /\ QInv /\ StreamInv

\* What a step is to keep.
StreamKept == Shapes' /\ \A c \in Conns : AgreeAt(c)'

\* A step on one connection leaves the others alone.
Changes(c, task, asked, frames, socket, page, command, held) ==
    /\ server' = [server EXCEPT ![c] = task]
    /\ up' = [up EXCEPT ![c] = asked]
    /\ down' = [down EXCEPT ![c] = frames]
    /\ link' = [link EXCEPT ![c] = socket]
    /\ client' = [client EXCEPT ![c] = page]
    /\ app' = [app EXCEPT ![c] = command]
    /\ session' = [session EXCEPT ![c] = held]

\* The types of one connection's part of the state.
Shaped(task, asked, frames, socket, page, command, held) ==
    /\ task \in Tasks
    /\ asked \in Seq(UpFrames)
    /\ frames \in Seq(DownFrames)
    /\ socket \in {"none", "up", "broken", "silent"}
    /\ page \in Pages
    /\ command \in Told
    /\ held \in BOOLEAN

\* Agreement is kept while the log grows.
LEMMA AgreeStays ==
    ASSUME IInv, [Next]_vars, NEW task \in Tasks, NEW asked, NEW frames \in Seq(DownFrames),
           NEW socket, NEW page \in Pages, NEW held,
           Agree(task, asked, frames, socket, page, held)
    PROVE  Agree(task, asked, frames, socket, page, held)'
<1>1. Route(task, asked, frames, socket, page)'
  BY RouteStays DEF Agree
<1>2. WithinLimits(page)'
  BY DEF Agree, WithinLimits
<1>3. SaidTruly(frames, page, held)'
  BY DEF Agree, SaidTruly, SaysEnded
<1> QED
  BY <1>1, <1>2, <1>3 DEF Agree

\* A connection that is given parts that agree now agrees in the next state.
LEMMA AgreesNext ==
    ASSUME IInv, [Next]_vars, NEW task \in Tasks, NEW asked, NEW frames \in Seq(DownFrames),
           NEW socket, NEW page \in Pages, NEW held,
           Agree(task, asked, frames, socket, page, held),
           NEW d \in Conns,
           server'[d] = task, up'[d] = asked, down'[d] = frames, link'[d] = socket,
           client'[d] = page, session'[d] = held
    PROVE  AgreeAt(d)'
<1>1. Agree(task, asked, frames, socket, page, held)'
  BY AgreeStays
<1> QED
  BY <1>1 DEF AgreeAt

\* The connections that a step leaves alone agree still.
LEMMA OthersAgree ==
    ASSUME StreamHolds, [Next]_vars, NEW d \in Conns,
           server'[d] = server[d], up'[d] = up[d], down'[d] = down[d], link'[d] = link[d],
           client'[d] = client[d], session'[d] = session[d]
    PROVE  AgreeAt(d)'
<1>1. server[d] \in Tasks /\ down[d] \in Seq(DownFrames) /\ client[d] \in Pages
  BY DEF StreamHolds, StreamInv, Shapes
<1>2. Agree(server[d], up[d], down[d], link[d], client[d], session[d])
  BY DEF StreamHolds, StreamInv, AgreeAt
<1>3. IInv
  BY DEF StreamHolds
<1> QED
  BY <1>1, <1>2, <1>3, AgreesNext

\* A step that keeps its own connection in agreement keeps all.
LEMMA ChangeKeeps ==
    ASSUME StreamHolds, [Next]_vars, NEW c \in Conns,
           NEW task, NEW asked, NEW frames, NEW socket, NEW page, NEW command, NEW held,
           Changes(c, task, asked, frames, socket, page, command, held),
           Shaped(task, asked, frames, socket, page, command, held),
           Agree(task, asked, frames, socket, page, held),
           faults' \in 0..MaxFaults
    PROVE  StreamKept
<1> HIDE DEF Tasks, Pages, Told, UpFrames, DownFrames
<1>0. Shapes /\ IInv
  BY DEF StreamHolds, StreamInv
<1>1. Shapes'
  <2> SUFFICES /\ server' \in [Conns -> Tasks] /\ up' \in [Conns -> Seq(UpFrames)]
               /\ down' \in [Conns -> Seq(DownFrames)]
               /\ link' \in [Conns -> {"none", "up", "broken", "silent"}]
               /\ client' \in [Conns -> Pages] /\ app' \in [Conns -> Told]
               /\ session' \in [Conns -> BOOLEAN]
    BY DEF Shapes
  <2> QED
    BY <1>0 DEF Shapes, Changes, Shaped
<1>2. /\ server'[c] = task /\ up'[c] = asked /\ down'[c] = frames /\ link'[c] = socket
      /\ client'[c] = page /\ session'[c] = held
  BY <1>0 DEF Shapes, Changes
<1>3. \A d \in Conns \ {c} :
          /\ server'[d] = server[d] /\ up'[d] = up[d] /\ down'[d] = down[d]
          /\ link'[d] = link[d] /\ client'[d] = client[d] /\ session'[d] = session[d]
  BY <1>0 DEF Shapes, Changes
<1>4. AgreeAt(c)'
  BY <1>0, <1>2, AgreesNext DEF Shaped
<1>5. \A d \in Conns \ {c} : AgreeAt(d)'
  BY <1>3, OthersAgree
<1> QED
  BY <1>1, <1>4, <1>5 DEF StreamKept

\* What is so of each connection before a step; and to leave it alone is to
\* leave its part of the state as it is.
LEMMA Here ==
    ASSUME StreamHolds, NEW c \in Conns
    PROVE  /\ Shaped(server[c], up[c], down[c], link[c], client[c], app[c], session[c])
           /\ Agree(server[c], up[c], down[c], link[c], client[c], session[c])
           /\ server = [server EXCEPT ![c] = server[c]]
           /\ up = [up EXCEPT ![c] = up[c]]
           /\ down = [down EXCEPT ![c] = down[c]]
           /\ link = [link EXCEPT ![c] = link[c]]
           /\ client = [client EXCEPT ![c] = client[c]]
           /\ app = [app EXCEPT ![c] = app[c]]
           /\ session = [session EXCEPT ![c] = session[c]]
<1> HIDE DEF Tasks, Pages, Told, UpFrames, DownFrames
<1>0. Shapes /\ AgreeAt(c)
  BY DEF StreamHolds, StreamInv
<1>1. Shaped(server[c], up[c], down[c], link[c], client[c], app[c], session[c])
  BY <1>0 DEF Shapes, Shaped
<1>2. /\ server = [server EXCEPT ![c] = server[c]] /\ up = [up EXCEPT ![c] = up[c]]
      /\ down = [down EXCEPT ![c] = down[c]] /\ link = [link EXCEPT ![c] = link[c]]
      /\ client = [client EXCEPT ![c] = client[c]] /\ app = [app EXCEPT ![c] = app[c]]
      /\ session = [session EXCEPT ![c] = session[c]]
  BY <1>0 DEF Shapes
<1> QED
  BY <1>0, <1>1, <1>2 DEF AgreeAt

\* The page gives its socket up, being what it was or new.
LEMMA DetachKeeps ==
    ASSUME StreamHolds, [Next]_vars, NEW c \in Conns, Detaches(c),
           NEW page \in Pages, client' = [client EXCEPT ![c] = page], UNCHANGED app,
           NEW held \in BOOLEAN, session' = [session EXCEPT ![c] = held],
           faults' \in 0..MaxFaults,
           \/ page.last = NoSeq /\ ~page.synced
           \/ page.last = client[c].last /\ page.synced = client[c].synced,
           WithinLimits(page),
           page.state = "signed_out" \/ "ended" \in page.checks => LookupsFail \/ ~held
    PROVE  StreamKept
<1>1. Changes(c, NoServer, <<>>, <<>>, "none", page, app[c], held)
  BY Here DEF Detaches, Ends, Changes
<1>2. Shaped(NoServer, <<>>, <<>>, "none", page, app[c], held)
  <2>1. NoServer \in Tasks
    BY LimitsAssumption DEF NoServer, Tasks, ServerPhases, Positions
  <2>2. app[c] \in Told
    BY Here DEF Shaped
  <2> HIDE DEF Tasks, Pages, Told, UpFrames, DownFrames
  <2>3. <<>> \in Seq(UpFrames) /\ <<>> \in Seq(DownFrames)
    OBVIOUS
  <2> QED
    BY <2>1, <2>2, <2>3 DEF Shaped
<1>3. /\ client[c].last =< Newest /\ (client[c].last = NoSeq => ~client[c].synced)
      /\ IInv
  BY Here DEF Agree, Route, MarkFirst, StreamHolds
<1>4. page.last =< Newest /\ (page.last = NoSeq => ~page.synced)
  <2>1. NoSeq =< Newest
    BY <1>3, LogEnd DEF NoSeq
  <2> QED
    BY <1>3, <2>1
<1>5. Route(NoServer, <<>>, <<>>, "none", page)
  BY <1>3, <1>4, RouteOfDetached
<1>6. SaidTruly(<<>>, page, held)
  <2>1. Len(<<>>) = 0
    OBVIOUS
  <2> QED
    BY <2>1 DEF SaidTruly, SaysEnded
<1>7. Agree(NoServer, <<>>, <<>>, "none", page, held)
  BY <1>5, <1>6 DEF Agree
<1> QED
  BY <1>1, <1>2, <1>7, ChangeKeeps

\* The page changes, and reads nothing.
LEMMA PageKeeps ==
    ASSUME StreamHolds, [Next]_vars, NEW c \in Conns,
           UNCHANGED <<server, down, link, app, session>>, faults' \in 0..MaxFaults,
           NEW page \in Pages, client' = [client EXCEPT ![c] = page],
           page.last = client[c].last, page.synced = client[c].synced,
           page.state \notin OnSocket => client[c].state \notin OnSocket,
           UNCHANGED up \/ up' = [up EXCEPT ![c] = Append(@, Ping)],
           WithinLimits(page),
           page.state = "signed_out" \/ "ended" \in page.checks => LookupsFail \/ ~session[c]
    PROVE  StreamKept
<1> DEFINE more == up'[c]
<1>0. /\ Shaped(server[c], up[c], down[c], link[c], client[c], app[c], session[c])
      /\ Agree(server[c], up[c], down[c], link[c], client[c], session[c])
  BY Here
<1>1. more = up[c] \/ more = Append(up[c], Ping)
  BY DEF StreamHolds, StreamInv, Shapes
<1>2. more \in Seq(UpFrames)
  <2>1. Ping \in UpFrames /\ up[c] \in Seq(UpFrames)
    BY <1>0 DEF UpFrames, Shaped
  <2>2. Append(up[c], Ping) \in Seq(UpFrames)
    BY <2>1, AppendProperties
  <2> HIDE DEF UpFrames, Ping, more
  <2> QED
    BY ONLY <1>1, <2>1, <2>2
<1>3. up' = [up EXCEPT ![c] = more]
  BY Here DEF StreamHolds, StreamInv, Shapes
<1>4. Changes(c, server[c], more, down[c], link[c], page, app[c], session[c])
  <2> HIDE DEF more
  <2> QED
    BY <1>3, Here DEF Changes
<1> HIDE DEF more
<1>5. Shaped(server[c], more, down[c], link[c], page, app[c], session[c])
  BY <1>0, <1>2 DEF Shaped
<1>6. Route(server[c], more, down[c], link[c], page)
  BY <1>0, <1>1, RouteOfPage DEF Shaped, Agree
<1>7. SaidTruly(down[c], page, session[c])
  BY <1>0 DEF Agree, SaidTruly, SaysEnded
<1>8. Agree(server[c], more, down[c], link[c], page, session[c])
  BY <1>6, <1>7 DEF Agree
<1> QED
  BY <1>4, <1>5, <1>8, ChangeKeeps

\* The parts of a connection, by name.
LEMMA HereParts ==
    ASSUME StreamHolds, NEW c \in Conns
    PROVE  /\ IInv
           /\ server[c] \in Tasks /\ up[c] \in Seq(UpFrames) /\ down[c] \in Seq(DownFrames)
           /\ link[c] \in {"none", "up", "broken", "silent"}
           /\ client[c] \in Pages /\ app[c] \in Told /\ session[c] \in BOOLEAN
           /\ Route(server[c], up[c], down[c], link[c], client[c])
           /\ WithinLimits(client[c])
           /\ SaidTruly(down[c], client[c], session[c])
           /\ faults \in 0..MaxFaults
BY Here DEF Shaped, Agree, StreamHolds, StreamInv, Shapes

\* What the gateway closed a socket with is why (`close`).
LEMMA CloseCode ==
    \A frame \in DownFrames :
        frame.type = "close" => frame.code \in Codes /\ frame = CloseFrame(frame.code)
BY DEF DownFrames, CloseFrame, Pong

\* The page gives up a socket that misses events (`resume_later`).
LEMMA GiveUpKeeps ==
    ASSUME StreamHolds, [Next]_vars, NEW c \in Conns, GiveUp(c) \/ FindClosed(c),
           UNCHANGED <<session, faults>>
    PROVE  StreamKept
<1>0. client[c] \in Pages /\ WithinLimits(client[c]) /\ SaidTruly(down[c], client[c], session[c])
      /\ session[c] \in BOOLEAN /\ faults' \in 0..MaxFaults
  BY HereParts
<1>1. client[c].state \in OnSocket /\ Detaches(c)
  BY DEF GiveUp, FindClosed, Arrives
<1>2. PICK page \in {[client[c] EXCEPT !.state = "backing_off"],
                     [Heard(c) EXCEPT !.state = "backing_off"]} : Becomes(c, page)
  BY DEF GiveUp, FindClosed
<1>3. /\ page \in Pages /\ page.state = "backing_off" /\ page.checks = client[c].checks
      /\ page.last = client[c].last /\ page.synced = client[c].synced
      /\ page.hidden = client[c].hidden /\ page.pings = client[c].pings
      /\ page.refusals = client[c].refusals
  BY <1>0 DEF Pages, Heard, ClientStates
<1>4. WithinLimits(page)
  BY <1>0, <1>1, <1>3 DEF WithinLimits, OnSocket
<1>5. page.state = "signed_out" \/ "ended" \in page.checks => LookupsFail \/ ~session[c]
  BY <1>0, <1>3 DEF SaidTruly, SaysEnded
<1>6. session' = [session EXCEPT ![c] = session[c]]
  BY Here
<1>7. client' = [client EXCEPT ![c] = page] /\ UNCHANGED app
  BY <1>2 DEF Becomes
<1> QED
  BY <1>0, <1>1, <1>3, <1>4, <1>5, <1>6, <1>7, DetachKeeps

\* The gateway closed the socket and said why.
LEMMA ToldClosedKeeps ==
    ASSUME StreamHolds, [Next]_vars, NEW c \in Conns, ToldClosed(c), UNCHANGED <<session, faults>>
    PROVE  StreamKept
<1>0. client[c] \in Pages /\ WithinLimits(client[c]) /\ SaidTruly(down[c], client[c], session[c])
      /\ session[c] \in BOOLEAN /\ faults' \in 0..MaxFaults /\ down[c] \in Seq(DownFrames)
  BY HereParts
<1> DEFINE frame == Head(down[c])
           code == frame.code
           refusals == client[c].refusals + (IF code = "protocol" THEN 1 ELSE 0)
           next == CASE code = "signed_out" -> "signed_out"
                     [] code = "protocol" /\ refusals >= RefusalLimit -> "outdated"
                     [] OTHER -> "backing_off"
           page == [client[c] EXCEPT !.state = next, !.refusals = refusals]
<1>1. /\ client[c].state \in OnSocket /\ Detaches(c) /\ Becomes(c, page)
      /\ down[c] # <<>> /\ frame.type = "close"
  BY DEF ToldClosed, Arrives
<1>2. frame \in DownFrames /\ Len(down[c]) >= 1 /\ frame = down[c][1] /\ Len(down[c]) \in Nat
  <2> HIDE DEF DownFrames
  <2> QED
    BY <1>0, <1>1
<1>3. code \in Codes /\ frame = CloseFrame(code)
  BY <1>1, <1>2, CloseCode
<1>4. code = "signed_out" => LookupsFail \/ ~session[c]
  <2>1. 1 \in 1..Len(down[c])
    BY <1>2
  <2> HIDE DEF frame
  <2> QED
    BY <1>0, <1>2, <1>3, <2>1 DEF SaidTruly, SaysEnded
<1> HIDE DEF code
<1>5. /\ client[c].refusals \in 0..RefusalLimit /\ client[c].refusals # RefusalLimit
      /\ RefusalLimit \in Nat
  BY <1>0, <1>1, StreamAssumption DEF WithinLimits, OnSocket, Pages
<1>6. /\ refusals \in 0..RefusalLimit
      /\ next \in {"signed_out", "outdated", "backing_off"}
      /\ refusals = RefusalLimit => next \in {"signed_out", "outdated"}
      /\ next = "signed_out" => code = "signed_out"
  <2>1. refusals \in 0..RefusalLimit
    BY <1>5
  <2>2. refusals = RefusalLimit => code = "protocol"
    BY <1>5
  <2> HIDE DEF refusals
  <2> QED
    BY <1>5, <2>1, <2>2
<1> HIDE DEF refusals, next
<1>7. /\ page \in Pages /\ page.state = next /\ page.checks = client[c].checks
      /\ page.last = client[c].last /\ page.synced = client[c].synced
      /\ page.hidden = client[c].hidden /\ page.pings = client[c].pings
      /\ page.refusals = refusals
  BY <1>0, <1>6 DEF Pages, ClientStates
<1> HIDE DEF page
<1>8. WithinLimits(page)
  BY <1>0, <1>6, <1>7 DEF WithinLimits
<1>9. page.state = "signed_out" \/ "ended" \in page.checks => LookupsFail \/ ~session[c]
  BY <1>0, <1>4, <1>6, <1>7 DEF SaidTruly, SaysEnded
<1>10. session' = [session EXCEPT ![c] = session[c]]
  BY Here
<1>11. client' = [client EXCEPT ![c] = page] /\ UNCHANGED app
  BY <1>1 DEF Becomes
<1> QED
  BY <1>0, <1>1, <1>7, <1>8, <1>9, <1>10, <1>11, DetachKeeps

\* The page signs in or out.
LEMMA SignKeeps ==
    ASSUME StreamHolds, [Next]_vars, NEW c \in Conns, Start(c) \/ Stop(c)
    PROVE  StreamKept
<1>0. client[c] \in Pages /\ WithinLimits(client[c]) /\ session[c] \in BOOLEAN
      /\ faults \in 0..MaxFaults
  BY HereParts
<1>1. CASE Start(c)
  <2> DEFINE page == [NewClient EXCEPT !.state = "connecting", !.hidden = client[c].hidden]
  <2>1. /\ page.state = "connecting" /\ page.checks = {} /\ page.last = NoSeq /\ ~page.synced
        /\ page.hidden = client[c].hidden /\ page.pings = 0 /\ page.refusals = 0
        /\ page \in Pages
    <3>1. /\ NewClient \in Pages /\ NewClient.last = NoSeq /\ NewClient.synced = FALSE
          /\ NewClient.checks = {} /\ NewClient.pings = 0 /\ NewClient.refusals = 0
      <4>1. 0 \in 0..RefusalLimit /\ 0 \in 0..MaxPings
        BY StreamAssumption
      <4> QED
        BY <4>1 DEF NewClient, Pages, ClientStates
    <3>2. client[c].hidden \in BOOLEAN
      BY <1>0 DEF Pages
    <3> HIDE DEF NewClient
    <3> QED
      BY <3>1, <3>2 DEF Pages, ClientStates
  <2>2. Detaches(c) /\ client' = [client EXCEPT ![c] = page] /\ UNCHANGED <<app, faults>>
        /\ session' = [session EXCEPT ![c] = TRUE]
    BY <1>1 DEF Start, Becomes
  <2> HIDE DEF page
  <2>3. WithinLimits(page)
    BY <1>0, <2>1, StreamAssumption DEF WithinLimits, Pages
  <2> QED
    BY <1>0, <2>1, <2>2, <2>3, DetachKeeps
<1>2. CASE Stop(c)
  <2> DEFINE page == [client[c] EXCEPT !.state = "stopped", !.timer = FALSE, !.checks = {}]
  <2>1. /\ page.state = "stopped" /\ page.checks = {} /\ page \in Pages
        /\ page.last = client[c].last /\ page.synced = client[c].synced
        /\ page.hidden = client[c].hidden /\ page.pings = client[c].pings
        /\ page.refusals = client[c].refusals
    BY <1>0 DEF Pages, ClientStates, Checks
  <2>2. Detaches(c) /\ client' = [client EXCEPT ![c] = page] /\ UNCHANGED <<app, faults, session>>
    BY <1>2 DEF Stop, Becomes
  <2> HIDE DEF page
  <2>3. WithinLimits(page)
    BY <1>0, <2>1 DEF WithinLimits
  <2>4. session' = [session EXCEPT ![c] = session[c]]
    BY <2>2, Here
  <2> QED
    BY <1>0, <2>1, <2>2, <2>3, <2>4, DetachKeeps
<1> QED
  BY <1>1, <1>2

\* The page is told that its session has ended.
LEMMA AnswerKeeps ==
    ASSUME StreamHolds, [Next]_vars, NEW c \in Conns, SessionAnswer(c)
    PROVE  StreamKept
<1>0. client[c] \in Pages /\ WithinLimits(client[c]) /\ session[c] \in BOOLEAN
      /\ SaidTruly(down[c], client[c], session[c]) /\ faults \in 0..MaxFaults
  BY HereParts
<1>1. LookupsFail \/ ~session[c]
  BY <1>0 DEF SessionAnswer, SaidTruly, SaysEnded
<1>2. CASE client[c].state = "outdated"
  <2> DEFINE page == [client[c] EXCEPT !.checks = @ \ {"ended"}]
  <2>1. /\ page \in Pages /\ page.state = client[c].state
        /\ page.last = client[c].last /\ page.synced = client[c].synced
        /\ page.hidden = client[c].hidden /\ page.pings = client[c].pings
        /\ page.refusals = client[c].refusals
    BY <1>0 DEF Pages
  <2>2. /\ client' = [client EXCEPT ![c] = page]
        /\ UNCHANGED <<server, down, link, app, session, up, faults>>
    BY <1>2 DEF SessionAnswer, Becomes
  <2> HIDE DEF page
  <2>3. WithinLimits(page)
    BY <1>0, <2>1 DEF WithinLimits
  <2> QED
    BY <1>0, <1>1, <2>1, <2>2, <2>3, PageKeeps
<1>3. CASE client[c].state # "outdated"
  <2> DEFINE page == [client[c] EXCEPT !.checks = @ \ {"ended"}, !.state = "signed_out"]
  <2>1. /\ page \in Pages /\ page.state = "signed_out"
        /\ page.last = client[c].last /\ page.synced = client[c].synced
        /\ page.hidden = client[c].hidden /\ page.pings = client[c].pings
        /\ page.refusals = client[c].refusals
    BY <1>0 DEF Pages, ClientStates
  <2>2. /\ client' = [client EXCEPT ![c] = page] /\ Detaches(c)
        /\ UNCHANGED <<app, session, faults>>
    BY <1>3 DEF SessionAnswer, Becomes
  <2> HIDE DEF page
  <2>3. WithinLimits(page)
    BY <1>0, <2>1 DEF WithinLimits
  <2>4. session' = [session EXCEPT ![c] = session[c]]
    BY <2>2, Here
  <2> QED
    BY <1>0, <1>1, <2>1, <2>2, <2>3, <2>4, DetachKeeps
<1> QED
  BY <1>2, <1>3

\* The deadline of a ping.
LEMMA OverdueKeeps ==
    ASSUME StreamHolds, [Next]_vars, NEW c \in Conns, PongOverdue(c)
    PROVE  StreamKept
<1>0. client[c] \in Pages /\ WithinLimits(client[c]) /\ session[c] \in BOOLEAN
      /\ SaidTruly(down[c], client[c], session[c]) /\ faults \in 0..MaxFaults
  BY HereParts
<1>1. client[c].state = "signed_out" \/ "ended" \in client[c].checks => LookupsFail \/ ~session[c]
  BY <1>0 DEF SaidTruly, SaysEnded
<1>2. CASE client[c].state = "live" /\ client[c].awaiting
  <2> DEFINE page == [client[c] EXCEPT !.timer = FALSE, !.awaiting = FALSE,
                                       !.state = "backing_off"]
  <2>1. /\ page \in Pages /\ page.state = "backing_off" /\ page.checks = client[c].checks
        /\ page.last = client[c].last /\ page.synced = client[c].synced
        /\ page.hidden = client[c].hidden /\ page.pings = client[c].pings
        /\ page.refusals = client[c].refusals
    BY <1>0 DEF Pages, ClientStates
  <2>2. /\ client' = [client EXCEPT ![c] = page] /\ Detaches(c)
        /\ UNCHANGED <<app, session, faults>>
    BY <1>2 DEF PongOverdue, Becomes
  <2> HIDE DEF page
  <2>3. WithinLimits(page)
    BY <1>0, <1>2, <2>1 DEF WithinLimits
  <2>4. session' = [session EXCEPT ![c] = session[c]]
    BY <2>2, Here
  <2> QED
    BY <1>0, <1>1, <2>1, <2>2, <2>3, <2>4, DetachKeeps
<1>3. CASE ~(client[c].state = "live" /\ client[c].awaiting)
  <2> DEFINE page == [client[c] EXCEPT !.timer = FALSE]
  <2>1. /\ page \in Pages /\ page.state = client[c].state /\ page.checks = client[c].checks
        /\ page.last = client[c].last /\ page.synced = client[c].synced
        /\ page.hidden = client[c].hidden /\ page.pings = client[c].pings
        /\ page.refusals = client[c].refusals
    BY <1>0 DEF Pages
  <2>2. /\ client' = [client EXCEPT ![c] = page]
        /\ UNCHANGED <<server, down, link, app, session, up, faults>>
    BY <1>3 DEF PongOverdue, Becomes
  <2> HIDE DEF page
  <2>3. WithinLimits(page)
    BY <1>0, <2>1 DEF WithinLimits
  <2> QED
    BY <1>0, <1>1, <2>1, <2>2, <2>3, PageKeeps
<1> QED
  BY <1>2, <1>3

\* A socket does not open, a retry is due, the page is hidden or its session is
\* looked up.
LEMMA QuietKeeps ==
    ASSUME StreamHolds, [Next]_vars, NEW c \in Conns,
           NotOpened(c) \/ RetryDue(c) \/ Hide(c) \/ SessionLookup(c)
    PROVE  StreamKept
<1>0. client[c] \in Pages /\ WithinLimits(client[c]) /\ session[c] \in BOOLEAN
      /\ SaidTruly(down[c], client[c], session[c]) /\ faults \in 0..MaxFaults
  BY HereParts
<1>1. client[c].state = "signed_out" \/ "ended" \in client[c].checks => LookupsFail \/ ~session[c]
  BY <1>0 DEF SaidTruly, SaysEnded
<1>2. faults' \in 0..MaxFaults
  BY <1>0, StreamAssumption DEF NotOpened, RetryDue, Hide, SessionLookup
<1>3. PICK page \in {[client[c] EXCEPT !.state = "backing_off", !.checks = @ \cup {"asked"}],
                     [client[c] EXCEPT !.state = "connecting", !.awaiting = FALSE],
                     [client[c] EXCEPT !.hidden = TRUE],
                     [client[c] EXCEPT !.checks =
                         (@ \ {"asked"}) \cup (IF session[c] THEN {} ELSE {"ended"})]} :
          /\ Becomes(c, page)
          /\ UNCHANGED <<logVars, server, up, down, link, session>>
          /\ page.hidden # client[c].hidden => client[c].pings < MaxPings
          /\ page.state # client[c].state => client[c].state \notin OnSocket
          /\ page.state # client[c].state =>
                client[c].state \notin {"stopped", "outdated", "signed_out"}
          /\ page.state # "signed_out" \/ page.state = client[c].state
          /\ "ended" \in page.checks => "ended" \in client[c].checks \/ ~session[c]
  <2>1. CASE NotOpened(c)
    <3> DEFINE page == [client[c] EXCEPT !.state = "backing_off", !.checks = @ \cup {"asked"}]
    <3>1. /\ page.state = "backing_off" /\ page.hidden = client[c].hidden
          /\ page.checks = client[c].checks \cup {"asked"}
      BY <1>0 DEF Pages
    <3>2. Becomes(c, page) /\ client[c].state = "connecting"
          /\ UNCHANGED <<logVars, server, up, down, link, session>>
      BY <2>1 DEF NotOpened
    <3> QED
      BY <3>1, <3>2 DEF OnSocket
  <2>2. CASE RetryDue(c)
    <3> DEFINE page == [client[c] EXCEPT !.state = "connecting", !.awaiting = FALSE]
    <3>1. /\ page.state = "connecting" /\ page.hidden = client[c].hidden
          /\ page.checks = client[c].checks
      BY <1>0 DEF Pages
    <3>2. Becomes(c, page) /\ client[c].state = "backing_off"
          /\ UNCHANGED <<logVars, server, up, down, link, session>>
      BY <2>2 DEF RetryDue
    <3> QED
      BY <3>1, <3>2 DEF OnSocket
  <2>3. CASE Hide(c)
    <3> DEFINE page == [client[c] EXCEPT !.hidden = TRUE]
    <3>1. page.state = client[c].state /\ page.checks = client[c].checks
      BY <1>0 DEF Pages
    <3>2. Becomes(c, page) /\ client[c].pings < MaxPings
          /\ UNCHANGED <<logVars, server, up, down, link, session>>
      BY <2>3 DEF Hide
    <3> QED
      BY <3>1, <3>2
  <2>4. CASE SessionLookup(c)
    <3> DEFINE new == (client[c].checks \ {"asked"}) \cup (IF session[c] THEN {} ELSE {"ended"})
               page == [client[c] EXCEPT !.checks =
                           (@ \ {"asked"}) \cup (IF session[c] THEN {} ELSE {"ended"})]
    <3>1. /\ page.state = client[c].state /\ page.hidden = client[c].hidden /\ page.checks = new
      BY <1>0 DEF Pages
    <3>2. Becomes(c, page) /\ UNCHANGED <<logVars, server, up, down, link, session>>
      BY <2>4 DEF SessionLookup
    <3>3. "ended" \in new => "ended" \in client[c].checks \/ ~session[c]
      OBVIOUS
    <3> HIDE DEF new
    <3> QED
      BY <3>1, <3>2, <3>3
  <2> QED
    BY <2>1, <2>2, <2>3, <2>4
<1>4. /\ page \in Pages /\ page.last = client[c].last /\ page.synced = client[c].synced
      /\ page.pings = client[c].pings /\ page.refusals = client[c].refusals
  <2>1. CASE page = [client[c] EXCEPT !.state = "backing_off", !.checks = @ \cup {"asked"}]
    BY <1>0, <2>1 DEF Pages, ClientStates, Checks
  <2>2. CASE page = [client[c] EXCEPT !.state = "connecting", !.awaiting = FALSE]
    BY <1>0, <2>2 DEF Pages, ClientStates
  <2>3. CASE page = [client[c] EXCEPT !.hidden = TRUE]
    BY <1>0, <2>3 DEF Pages
  <2>4. CASE page = [client[c] EXCEPT !.checks =
                        (@ \ {"asked"}) \cup (IF session[c] THEN {} ELSE {"ended"})]
    BY <1>0, <2>4 DEF Pages, Checks
  <2> QED
    BY <1>3, <2>1, <2>2, <2>3, <2>4
<1>5. WithinLimits(page)
  BY <1>0, <1>3, <1>4 DEF WithinLimits
<1>6. client' = [client EXCEPT ![c] = page] /\ UNCHANGED <<server, down, link, app, session, up>>
  BY <1>3 DEF Becomes
<1>7. page.state = "signed_out" \/ "ended" \in page.checks => LookupsFail \/ ~session[c]
  BY <1>1, <1>3
<1>8. page.state \notin OnSocket => client[c].state \notin OnSocket
  BY <1>3
<1> QED
  BY <1>2, <1>4, <1>5, <1>6, <1>7, <1>8, PageKeeps

\* The page is shown again, and may ping.
LEMMA ShowKeeps ==
    ASSUME StreamHolds, [Next]_vars, NEW c \in Conns, Show(c)
    PROVE  StreamKept
<1>0. client[c] \in Pages /\ WithinLimits(client[c]) /\ session[c] \in BOOLEAN
      /\ SaidTruly(down[c], client[c], session[c]) /\ faults \in 0..MaxFaults
  BY HereParts
<1>1. client[c].state = "signed_out" \/ "ended" \in client[c].checks => LookupsFail \/ ~session[c]
  BY <1>0 DEF SaidTruly, SaysEnded
<1> DEFINE shown == [client[c] EXCEPT !.hidden = FALSE]
           page == CASE client[c].state = "live" ->
                          [shown EXCEPT !.pings = @ + 1, !.awaiting = TRUE, !.timer = TRUE]
                     [] client[c].state = "backing_off" ->
                          [shown EXCEPT !.state = "connecting", !.awaiting = FALSE]
                     [] OTHER -> shown
<1>2. client[c].hidden /\ Becomes(c, page) /\ UNCHANGED <<server, down, link, session, faults>>
  BY DEF Show
<1>3. UNCHANGED up \/ up' = [up EXCEPT ![c] = Append(@, Ping)]
  BY DEF Show
<1>4. /\ page \in Pages /\ page.last = client[c].last /\ page.synced = client[c].synced
      /\ page.checks = client[c].checks /\ ~page.hidden /\ page.refusals = client[c].refusals
      /\ page.state = client[c].state \/ (client[c].state = "backing_off" /\ page.state = "connecting")
  <2>1. client[c].pings \in 0..MaxPings /\ client[c].pings < MaxPings /\ MaxPings \in Nat
    BY <1>0, <1>2, StreamAssumption DEF WithinLimits, Pages
  <2>2. client[c].pings + 1 \in 0..MaxPings
    BY <2>1
  <2>3. CASE client[c].state = "live"
    <3>1. page = [client[c] EXCEPT !.hidden = FALSE, !.pings = client[c].pings + 1,
                                   !.awaiting = TRUE, !.timer = TRUE]
      BY <1>0, <2>3 DEF Pages
    <3> HIDE DEF page
    <3> QED
      BY <1>0, <2>2, <3>1 DEF Pages
  <2>4. CASE client[c].state = "backing_off"
    <3>1. page = [client[c] EXCEPT !.hidden = FALSE, !.state = "connecting", !.awaiting = FALSE]
      BY <1>0, <2>4 DEF Pages
    <3> HIDE DEF page
    <3> QED
      BY <1>0, <2>4, <3>1 DEF Pages, ClientStates
  <2>5. CASE client[c].state \notin {"live", "backing_off"}
    <3>1. page = shown
      BY <2>5
    <3> HIDE DEF page
    <3> QED
      BY <1>0, <3>1 DEF Pages
  <2> QED
    BY <2>3, <2>4, <2>5
<1> HIDE DEF page
<1>5. WithinLimits(page)
  BY <1>0, <1>4 DEF WithinLimits
<1>6. client' = [client EXCEPT ![c] = page] /\ UNCHANGED <<server, down, link, app, session>>
  BY <1>2 DEF Becomes
<1>7. page.state = "signed_out" \/ "ended" \in page.checks => LookupsFail \/ ~session[c]
  BY <1>1, <1>4
<1>8. page.state \notin OnSocket => client[c].state \notin OnSocket
  BY <1>4 DEF OnSocket
<1> QED
  BY <1>0, <1>2, <1>3, <1>4, <1>5, <1>6, <1>7, <1>8, PageKeeps

\* The page reads a frame and keeps its socket.
LEMMA TakenKeeps ==
    ASSUME StreamHolds, [Next]_vars, NEW c \in Conns,
           UNCHANGED <<server, up, link, session, faults>>,
           down[c] # <<>>, down' = [down EXCEPT ![c] = Tail(@)],
           NEW page \in Pages, client' = [client EXCEPT ![c] = page],
           NEW command \in Told, app' = [app EXCEPT ![c] = command],
           page.state \in OnSocket,
           \/ page.last = client[c].last /\ Head(down[c]).type \notin Marks \cup {"close"}
           \/ Head(down[c]).type \in Placed /\ page.last = Head(down[c]).seq,
           page.checks = client[c].checks, page.hidden = client[c].hidden,
           page.pings = client[c].pings, page.refusals \in {client[c].refusals, 0},
           client[c].state \in OnSocket
    PROVE  StreamKept
<1>0. /\ IInv /\ server[c] \in Tasks /\ up[c] \in Seq(UpFrames) /\ down[c] \in Seq(DownFrames)
      /\ link[c] \in {"none", "up", "broken", "silent"} /\ client[c] \in Pages
      /\ session[c] \in BOOLEAN /\ faults \in 0..MaxFaults
      /\ Route(server[c], up[c], down[c], link[c], client[c])
      /\ WithinLimits(client[c]) /\ SaidTruly(down[c], client[c], session[c])
  BY HereParts
<1>1. Route(server[c], up[c], Tail(down[c]), link[c], page)
  BY <1>0, RouteOfTaken
<1>2. WithinLimits(page)
  BY <1>0, StreamAssumption DEF WithinLimits, OnSocket
<1>3. /\ Tail(down[c]) \in Seq(DownFrames)
      /\ \A i \in 1..Len(Tail(down[c])) : \E k \in 1..Len(down[c]) : Tail(down[c])[i] = down[c][k]
  BY <1>0, TakenInOrder DEF Route
<1>4. SaidTruly(Tail(down[c]), page, session[c])
  <2> SUFFICES ASSUME SaysEnded(Tail(down[c]), page) PROVE LookupsFail \/ ~session[c]
    BY DEF SaidTruly
  <2>1. SaysEnded(down[c], client[c])
    BY <1>3 DEF SaysEnded, OnSocket
  <2> QED
    BY <1>0, <2>1 DEF SaidTruly
<1>5. Changes(c, server[c], up[c], Tail(down[c]), link[c], page, command, session[c])
  BY Here DEF Changes
<1>6. Shaped(server[c], up[c], Tail(down[c]), link[c], page, command, session[c])
  BY <1>0, <1>3 DEF Shaped
<1>7. Agree(server[c], up[c], Tail(down[c]), link[c], page, session[c])
  BY <1>1, <1>2, <1>4 DEF Agree
<1>8. faults' \in 0..MaxFaults
  BY <1>0
<1> QED
  BY <1>5, <1>6, <1>7, <1>8, ChangeKeeps

\* Each frame that is read (`on_frame`).
LEMMA ReadingKeeps ==
    ASSUME StreamHolds, [Next]_vars, NEW c \in Conns,
           PassOn(c) \/ DropDuplicate(c) \/ TurnLive(c) \/ ReloadAll(c) \/ HearPong(c),
           UNCHANGED <<session, faults>>
    PROVE  StreamKept
<1> DEFINE frame == Head(down[c])
<1>0. client[c] \in Pages /\ app[c] \in Told /\ down[c] \in Seq(DownFrames)
  BY HereParts
<1>1. /\ client[c].state \in OnSocket /\ down[c] # <<>>
      /\ down' = [down EXCEPT ![c] = Tail(@)]
      /\ UNCHANGED <<server, up, link, session, faults>>
  BY DEF PassOn, DropDuplicate, TurnLive, ReloadAll, HearPong, Arrives, Taken, Keeps
<1>2. frame \in DownFrames
  <2> HIDE DEF DownFrames
  <2> QED
    BY <1>0, <1>1
<1>3. frame.type \in Placed => frame.seq \in Positions
  BY <1>2, LimitsAssumption DEF DownFrames, Placed, Marks, Positions, Pong, Seqs, CloseFrame
<1>4. /\ Heard(c) \in Pages /\ Heard(c).last = client[c].last /\ Heard(c).state = client[c].state
      /\ Heard(c).checks = client[c].checks /\ Heard(c).hidden = client[c].hidden
      /\ Heard(c).pings = client[c].pings /\ Heard(c).refusals = client[c].refusals
  BY <1>0 DEF Heard, Pages
<1>5. /\ Caught(c) \in Pages /\ Caught(c).state \in OnSocket
      /\ Caught(c).checks = client[c].checks /\ Caught(c).hidden = client[c].hidden
      /\ Caught(c).pings = client[c].pings /\ Caught(c).refusals = client[c].refusals
  <2>1. Caught(c) = [Heard(c) EXCEPT !.state =
                         IF client[c].state = "resuming" THEN "replaying" ELSE client[c].state]
    BY <1>4 DEF Caught
  <2> HIDE DEF Heard
  <2> QED
    BY <1>1, <1>4, <2>1 DEF Pages, OnSocket, ClientStates
<1>6. app = [app EXCEPT ![c] = app[c]]
  BY Here
<1> HIDE DEF frame
<1>7. CASE PassOn(c)
  <2> DEFINE page == [Caught(c) EXCEPT !.last = frame.seq]
             command == [op |-> "apply", seq |-> frame.seq, by |-> frame.by]
  <2>1. /\ client' = [client EXCEPT ![c] = page] /\ app' = [app EXCEPT ![c] = command]
        /\ frame.type = "event"
    BY <1>7 DEF PassOn, Tells, Arrives, frame
  <2>2. frame.seq \in Positions /\ frame.by \in Writers \cup {NoOne}
    BY <1>2, <1>3, <2>1 DEF DownFrames, Placed, CloseFrame, Pong
  <2>3. command \in Told
    BY <2>2 DEF Told
  <2>4. /\ page \in Pages /\ page.last = frame.seq /\ page.state \in OnSocket
        /\ page.checks = client[c].checks /\ page.hidden = client[c].hidden
        /\ page.pings = client[c].pings /\ page.refusals = client[c].refusals
    <3> HIDE DEF Caught
    <3> QED
      BY <1>5, <2>2 DEF Pages
  <2> HIDE DEF page, command
  <2>5. Head(down[c]).type \in Placed /\ page.last = Head(down[c]).seq
    BY <2>1, <2>4 DEF frame, Placed
  <2> QED
    BY <1>1, <2>1, <2>3, <2>4, <2>5, TakenKeeps
<1>8. CASE DropDuplicate(c) \/ HearPong(c)
  <2>1. client' = [client EXCEPT ![c] = Heard(c)] /\ UNCHANGED app
        /\ frame.type \in {"event", "pong"}
    BY <1>8 DEF DropDuplicate, HearPong, Becomes, Arrives, frame
  <2>2. Heard(c).last = client[c].last /\ Head(down[c]).type \notin Marks \cup {"close"}
    BY <1>4, <2>1 DEF frame, Marks
  <2>3. app' = [app EXCEPT ![c] = app[c]]
    BY <1>6, <2>1
  <2> HIDE DEF Heard
  <2> QED
    BY <1>0, <1>1, <1>4, <2>1, <2>2, <2>3, TakenKeeps
<1>9. CASE TurnLive(c)
  <2> DEFINE live == [Heard(c) EXCEPT !.state = "live", !.last = frame.seq, !.refusals = 0]
             synced == [live EXCEPT !.synced = TRUE]
             command == [op |-> "reload", seq |-> frame.seq, by |-> NoOne]
  <2>1. /\ frame.type = "live"
        /\ \/ client' = [client EXCEPT ![c] = live] /\ UNCHANGED app
           \/ client' = [client EXCEPT ![c] = synced] /\ app' = [app EXCEPT ![c] = command]
    BY <1>9 DEF TurnLive, Becomes, Tells, Arrives, frame
  <2>2. frame.seq \in Positions
    BY <1>3, <2>1 DEF Placed, Marks
  <2>3. command \in Told
    BY <2>2 DEF Told
  <2>4. /\ live \in Pages /\ live.last = frame.seq /\ live.state \in OnSocket
        /\ live.checks = client[c].checks /\ live.hidden = client[c].hidden
        /\ live.pings = client[c].pings /\ live.refusals = 0
    <3>1. 0 \in 0..RefusalLimit
      BY StreamAssumption
    <3> HIDE DEF Heard
    <3> QED
      BY <1>4, <2>2, <3>1 DEF Pages, OnSocket, ClientStates
  <2> HIDE DEF live
  <2>5. /\ synced \in Pages /\ synced.last = frame.seq /\ synced.state \in OnSocket
        /\ synced.checks = client[c].checks /\ synced.hidden = client[c].hidden
        /\ synced.pings = client[c].pings /\ synced.refusals = 0
    BY <2>4 DEF Pages
  <2> HIDE DEF synced, command
  <2>6. /\ Head(down[c]).type \in Placed /\ live.last = Head(down[c]).seq
        /\ synced.last = Head(down[c]).seq
    BY <2>1, <2>4, <2>5 DEF frame, Placed, Marks
  <2>7. CASE client' = [client EXCEPT ![c] = live] /\ UNCHANGED app
    <3>1. app' = [app EXCEPT ![c] = app[c]]
      BY <1>6, <2>7
    <3> QED
      BY <1>0, <1>1, <2>4, <2>6, <2>7, <3>1, TakenKeeps
  <2>8. CASE client' = [client EXCEPT ![c] = synced] /\ app' = [app EXCEPT ![c] = command]
    BY <1>1, <2>3, <2>5, <2>6, <2>8, TakenKeeps
  <2> QED
    BY <2>1, <2>7, <2>8
<1>10. CASE ReloadAll(c)
  <2> DEFINE page == [Caught(c) EXCEPT !.last = frame.seq, !.synced = TRUE]
             command == [op |-> "reload", seq |-> frame.seq, by |-> NoOne]
  <2>1. /\ client' = [client EXCEPT ![c] = page] /\ app' = [app EXCEPT ![c] = command]
        /\ frame.type = "reset"
    BY <1>10 DEF ReloadAll, Tells, Arrives, frame
  <2>2. frame.seq \in Positions
    BY <1>3, <2>1 DEF Placed, Marks
  <2>3. command \in Told
    BY <2>2 DEF Told
  <2>4. /\ page \in Pages /\ page.last = frame.seq /\ page.state \in OnSocket
        /\ page.checks = client[c].checks /\ page.hidden = client[c].hidden
        /\ page.pings = client[c].pings /\ page.refusals = client[c].refusals
    <3> HIDE DEF Caught
    <3> QED
      BY <1>5, <2>2 DEF Pages
  <2> HIDE DEF page, command
  <2>5. Head(down[c]).type \in Placed /\ page.last = Head(down[c]).seq
    BY <2>1, <2>4 DEF frame, Placed, Marks
  <2> QED
    BY <1>1, <2>1, <2>3, <2>4, <2>5, TakenKeeps
<1> QED
  BY <1>7, <1>8, <1>9, <1>10

\* What the network does to a connection: frames are lost or repeated.
LEMMA ThinnedKeeps ==
    ASSUME StreamHolds, [Next]_vars, NEW c \in Conns,
           UNCHANGED <<server, up, client, app, session>>, faults' \in 0..MaxFaults,
           NEW new \in Seq(DownFrames), Thinned(new, down[c]),
           down' = [down EXCEPT ![c] = new],
           NEW broken \in {"none", "up", "broken", "silent"}, link' = [link EXCEPT ![c] = broken],
           new # <<>> => down[c] # <<>>,
           client[c].last = NoSeq /\ new # <<>> => Head(new) = Head(down[c]),
           broken = "up" => link[c] = "up" /\ (client[c].last = NoSeq /\ new = <<>> => down[c] = <<>>)
    PROVE  StreamKept
<1>0. /\ server[c] \in Tasks /\ up[c] \in Seq(UpFrames) /\ down[c] \in Seq(DownFrames)
      /\ client[c] \in Pages /\ session[c] \in BOOLEAN /\ app[c] \in Told
      /\ Route(server[c], up[c], down[c], link[c], client[c])
      /\ WithinLimits(client[c]) /\ SaidTruly(down[c], client[c], session[c])
  BY HereParts
<1>1. Route(server[c], up[c], new, broken, client[c])
  BY <1>0, RouteOfThinned
<1>2. SaidTruly(new, client[c], session[c])
  <2>1. \A i \in 1..Len(new) : \E k \in 1..Len(down[c]) : new[i] = down[c][k]
    BY <1>0, ThinnedInOrder
  <2>2. SaysEnded(new, client[c]) => SaysEnded(down[c], client[c])
    BY <2>1 DEF SaysEnded
  <2> QED
    BY <1>0, <2>2 DEF SaidTruly
<1>3. Changes(c, server[c], up[c], new, broken, client[c], app[c], session[c])
  BY Here DEF Changes
<1>4. Shaped(server[c], up[c], new, broken, client[c], app[c], session[c])
  BY <1>0 DEF Shaped
<1>5. Agree(server[c], up[c], new, broken, client[c], session[c])
  BY <1>0, <1>1, <1>2 DEF Agree
<1> QED
  BY <1>3, <1>4, <1>5, ChangeKeeps

\* The connection fails, or dies unseen, or loses or repeats an event.
LEMMA NetworkKeeps ==
    ASSUME StreamHolds, [Next]_vars, NEW c \in Conns, Break(c) \/ DieUnseen(c) \/ Mangle(c)
    PROVE  StreamKept
<1>0. /\ down[c] \in Seq(DownFrames) /\ faults \in 0..MaxFaults
      /\ link[c] \in {"none", "up", "broken", "silent"}
      /\ Route(server[c], up[c], down[c], link[c], client[c])
  BY HereParts
<1>1. faults' \in 0..MaxFaults
  BY <1>0, StreamAssumption DEF Break, DieUnseen, Mangle, Fails
<1>2. CASE Break(c)
  <2>1. PICK n \in 0..Len(down[c]) : down' = [down EXCEPT ![c] = SubSeq(@, 1, n)]
    BY <1>2 DEF Break
  <2> DEFINE new == SubSeq(down[c], 1, n)
  <2>2. /\ new \in Seq(DownFrames) /\ Thinned(new, down[c])
        /\ new # <<>> => down[c] # <<>> /\ Head(new) = Head(down[c])
    BY <1>0, Cut
  <2>3. /\ down' = [down EXCEPT ![c] = new] /\ link' = [link EXCEPT ![c] = "broken"]
        /\ UNCHANGED <<server, up, client, app, session>>
    BY <1>2, <2>1 DEF Break
  <2> HIDE DEF new
  <2> QED
    BY <1>1, <2>2, <2>3, ThinnedKeeps
<1>3. CASE DieUnseen(c)
  <2>1. <<>> \in Seq(DownFrames) /\ Thinned(<<>>, down[c])
    <3> DEFINE at == [i \in 1..0 |-> i]
    <3>1. Len(<<>>) = 0 /\ <<>> \in Seq(DownFrames)
      OBVIOUS
    <3>2. \A i \in 1..Len(<<>>) : FALSE
      BY <3>1
    <3>3. at \in [1..Len(<<>>) -> 1..Len(down[c])]
      BY <3>1
    <3> HIDE DEF at
    <3>4. Thinned(<<>>, down[c])
      BY <3>2, <3>3 DEF Thinned
    <3> QED
      BY <3>1, <3>4
  <2>2. /\ down' = [down EXCEPT ![c] = <<>>] /\ link' = [link EXCEPT ![c] = "silent"]
        /\ UNCHANGED <<server, up, client, app, session>>
    BY <1>3 DEF DieUnseen
  <2> QED
    BY <1>1, <2>1, <2>2, ThinnedKeeps
<1>4. CASE Mangle(c)
  <2>1. PICK k \in DOMAIN down[c] :
            /\ down[c][k].type = "event"
            /\ \/ down' = [down EXCEPT ![c] = RemoveAt(down[c], k)]
               \/ down' = [down EXCEPT ![c] = InsertAt(down[c], k, down[c][k])]
    BY <1>4 DEF Mangle
  <2>2. k \in 1..Len(down[c]) /\ Head(down[c]) = down[c][1] /\ Len(down[c]) \in Nat
        /\ down[c] # <<>>
    <3> HIDE DEF DownFrames
    <3> QED
      BY <1>0
  <2>3. client[c].last = NoSeq => k > 1
    <3> SUFFICES ASSUME client[c].last = NoSeq PROVE k # 1
      BY <2>2
    <3>1. Head(down[c]).type \in Marks \cup {"close"}
      BY <1>0, <2>2 DEF Route, MarkFirst
    <3> QED
      BY <2>1, <2>2, <3>1 DEF Marks
  <2>4. /\ link[c] \in {"none", "up", "broken", "silent"}
        /\ UNCHANGED <<server, up, client, app, session>> /\ link' = [link EXCEPT ![c] = link[c]]
    <3>1. link' = [link EXCEPT ![c] = link[c]] /\ UNCHANGED <<server, up, client, app, session>>
      BY <1>4, Here DEF Mangle
    <3> QED
      BY <1>0, <3>1
  <2>5. CASE down' = [down EXCEPT ![c] = RemoveAt(down[c], k)]
    <3> DEFINE new == RemoveAt(down[c], k)
    <3>1. new \in Seq(DownFrames) /\ Thinned(new, down[c])
          /\ (k > 1 => new # <<>> /\ Head(new) = Head(down[c]))
      BY <1>0, <2>2, OneLost
    <3>2. down' = [down EXCEPT ![c] = new]
      BY <2>5
    <3> HIDE DEF new
    <3> QED
      BY <1>1, <2>2, <2>3, <2>4, <3>1, <3>2, ThinnedKeeps
  <2>6. CASE down' = [down EXCEPT ![c] = InsertAt(down[c], k, down[c][k])]
    <3> DEFINE new == InsertAt(down[c], k, down[c][k])
    <3>1. new \in Seq(DownFrames) /\ Thinned(new, down[c])
          /\ new # <<>> /\ Head(new) = Head(down[c])
      BY <1>0, <2>2, OneRepeated
    <3>2. down' = [down EXCEPT ![c] = new]
      BY <2>6
    <3> HIDE DEF new
    <3> QED
      BY <1>1, <2>2, <2>3, <2>4, <3>1, <3>2, ThinnedKeeps
  <2> QED
    BY <2>1, <2>5, <2>6
<1> QED
  BY <1>2, <1>3, <1>4

\* The upgrade is accepted, and the page resumes.
LEMMA OpenedKeeps ==
    ASSUME StreamHolds, [Next]_vars, NEW c \in Conns, Opened(c)
    PROVE  StreamKept
<1>0. /\ IInv /\ client[c] \in Pages /\ app[c] \in Told /\ session[c] \in BOOLEAN
      /\ faults \in 0..MaxFaults
      /\ Route(server[c], up[c], down[c], link[c], client[c])
      /\ WithinLimits(client[c]) /\ SaidTruly(down[c], client[c], session[c])
  BY HereParts
<1> DEFINE page == [client[c] EXCEPT !.state = "resuming"]
           task == [NoServer EXCEPT !.phase = "resume"]
           asked == <<Resume(client[c].last)>>
<1>1. down[c] = <<>>
  BY <1>0 DEF Opened, Route, OnSocket
<1>2. /\ task \in Tasks /\ task.phase = "resume"
  <2>1. 0 \in Positions
    BY LimitsAssumption DEF Positions
  <2> QED
    BY <2>1 DEF NoServer, Tasks, ServerPhases
<1>3. asked \in Seq(UpFrames) /\ asked # <<>> /\ Head(asked) = Resume(client[c].last)
  <2>1. Resume(client[c].last) \in UpFrames
    BY <1>0 DEF Pages, UpFrames, Resume
  <2> DEFINE frame == Resume(client[c].last)
  <2> HIDE DEF UpFrames, frame
  <2> QED
    BY <2>1 DEF frame
<1>4. /\ page \in Pages /\ page.state = "resuming" /\ page.checks = client[c].checks
      /\ page.last = client[c].last /\ page.synced = client[c].synced
      /\ page.hidden = client[c].hidden /\ page.pings = client[c].pings
      /\ page.refusals = client[c].refusals
  BY <1>0 DEF Pages, ClientStates
<1>5. Changes(c, task, asked, down[c], "up", page, app[c], session[c])
  BY Here DEF Changes, Opened, Becomes
<1> HIDE DEF page, task, asked
<1>6. Shaped(task, asked, down[c], "up", page, app[c], session[c])
  BY <1>0, <1>2, <1>3, <1>4, HereParts DEF Shaped
<1>7. Route(task, asked, down[c], "up", page)
  BY <1>0, <1>1, <1>2, <1>3, <1>4 DEF Route, Follows, MarkFirst, OnSocket
<1>8. WithinLimits(page)
  BY <1>0, <1>4 DEF WithinLimits, Opened
<1>9. SaidTruly(down[c], page, session[c])
  BY <1>0, <1>4 DEF SaidTruly, SaysEnded
<1>10. Agree(task, asked, down[c], "up", page, session[c])
  BY <1>7, <1>8, <1>9 DEF Agree
<1>11. faults' \in 0..MaxFaults
  BY <1>0 DEF Opened
<1> QED
  BY <1>5, <1>6, <1>10, <1>11, ChangeKeeps

\* The session ends elsewhere.
LEMMA RevokeKeeps ==
    ASSUME StreamHolds, [Next]_vars, NEW c \in Conns, Revoke(c)
    PROVE  StreamKept
<1>0. /\ Route(server[c], up[c], down[c], link[c], client[c])
      /\ WithinLimits(client[c]) /\ faults \in 0..MaxFaults
  BY HereParts
<1>1. Changes(c, server[c], up[c], down[c], link[c], client[c], app[c], FALSE)
  BY Here DEF Changes, Revoke
<1>2. Shaped(server[c], up[c], down[c], link[c], client[c], app[c], FALSE)
  BY HereParts DEF Shaped
<1>3. Agree(server[c], up[c], down[c], link[c], client[c], FALSE)
  BY <1>0 DEF Agree, SaidTruly
<1>4. faults' \in 0..MaxFaults
  BY <1>0 DEF Revoke
<1> QED
  BY <1>1, <1>2, <1>3, <1>4, ChangeKeeps

\* Every step of a page keeps the agreement.
LEMMA PageStepKeeps ==
    ASSUME StreamHolds, [Next]_vars, NEW c \in Conns, PageStep(c)
    PROVE  StreamKept
<1>1. CASE Hear(c)
  BY <1>1, GiveUpKeeps, ToldClosedKeeps, ReadingKeeps DEF Hear
<1>2. CASE Connect(c)
  BY <1>2, OpenedKeeps, QuietKeeps DEF Connect
<1>3. CASE ~Hear(c) /\ ~Connect(c)
  BY <1>3, QuietKeeps, AnswerKeeps, OverdueKeeps, ShowKeeps, SignKeeps DEF PageStep
<1> QED
  BY <1>1, <1>2, <1>3

\* Frames are in flight that were, or that are sent.
InFlightAfter(c, more, frames) ==
    /\ frames \in Seq(DownFrames)
    /\ down' = [down EXCEPT ![c] = frames]
    /\ frames \in {down[c], down[c] \o more}
    /\ \A i \in 1..Len(frames) :
           \/ \E k \in 1..Len(down[c]) : frames[i] = down[c][k]
           \/ \E k \in 1..Len(more) : frames[i] = more[k]

\* The task goes on, or ends, on its connection's socket.
Serves(c, task, asked, socket) ==
    /\ server' = [server EXCEPT ![c] = task]
    /\ up' = [up EXCEPT ![c] = asked]
    /\ link' = [link EXCEPT ![c] = socket]
    /\ UNCHANGED <<client, app, session>>
    /\ faults' \in 0..MaxFaults

SendsTruly(c, more) ==
    \A k \in 1..Len(more) : more[k] = CloseFrame("signed_out") => LookupsFail \/ ~session[c]

\* What is in flight once frames are sent.
LEMMA SentFrames ==
    ASSUME StreamHolds, NEW c \in Conns, NEW more \in Seq(DownFrames),
           Sends(c, more) \/ UNCHANGED down
    PROVE  \E frames :
               /\ InFlightAfter(c, more, frames)
               /\ Sends(c, more) /\ link[c] = "up" => frames = down[c] \o more
<1> HIDE DEF DownFrames
<1>0. down[c] \in Seq(DownFrames) /\ down = [down EXCEPT ![c] = down[c]]
  BY HereParts, Here
<1>1. CASE Sends(c, more) /\ link[c] = "up"
  <2>1. down' = [down EXCEPT ![c] = down[c] \o more]
    BY <1>1 DEF Sends
  <2>2. /\ down[c] \o more \in Seq(DownFrames)
        /\ Len(down[c] \o more) = Len(down[c]) + Len(more)
        /\ \A i \in 1..(Len(down[c]) + Len(more)) :
               (down[c] \o more)[i] =
                   IF i =< Len(down[c]) THEN down[c][i] ELSE more[i - Len(down[c])]
    BY <1>0, ConcatProperties
  <2> DEFINE all == down[c] \o more
             n == Len(down[c])
             m == Len(more)
  <2>3. n \in Nat /\ m \in Nat
    BY <1>0
  <2>4. /\ all \in Seq(DownFrames) /\ Len(all) = n + m
        /\ \A i \in 1..(n + m) : all[i] = IF i =< n THEN down[c][i] ELSE more[i - n]
    BY <2>2
  <2> HIDE DEF all, n, m
  <2>5. \A i \in 1..(n + m) : \/ i \in 1..n /\ i =< n
                              \/ i - n \in 1..m /\ ~(i =< n)
    BY <2>3
  <2>6. \A i \in 1..Len(all) : \/ \E k \in 1..n : all[i] = down[c][k]
                               \/ \E k \in 1..m : all[i] = more[k]
    <3> TAKE i \in 1..Len(all)
    <3>1. CASE i \in 1..n /\ i =< n
      BY <2>4, <3>1
    <3>2. CASE i - n \in 1..m /\ ~(i =< n)
      BY <2>4, <3>2
    <3> QED
      BY <2>4, <2>5, <3>1, <3>2
  <2>7. all = down[c] \o more /\ n = Len(down[c]) /\ m = Len(more)
    BY DEF all, n, m
  <2>8. InFlightAfter(c, more, all)
    BY <2>1, <2>4, <2>6, <2>7 DEF InFlightAfter
  <2> QED
    BY <2>7, <2>8
<1>2. CASE ~(Sends(c, more) /\ link[c] = "up")
  <2>1. down' = down
    BY <1>2 DEF Sends
  <2>2. InFlightAfter(c, more, down[c])
    BY <1>0, <2>1 DEF InFlightAfter
  <2> QED
    BY <1>2, <2>2
<1> QED
  BY <1>1, <1>2

\* The task goes on, and may send.
LEMMA ServingKeeps ==
    ASSUME StreamHolds, [Next]_vars, NEW c \in Conns,
           NEW more, NEW frames, InFlightAfter(c, more, frames),
           NEW task \in Tasks, NEW asked \in Seq(UpFrames),
           NEW socket \in {"none", "up", "broken", "silent"}, Serves(c, task, asked, socket),
           Route(task, asked, frames, socket, client[c]), SendsTruly(c, more)
    PROVE  StreamKept
<1>0. /\ client[c] \in Pages /\ app[c] \in Told /\ session[c] \in BOOLEAN
      /\ WithinLimits(client[c]) /\ SaidTruly(down[c], client[c], session[c])
      /\ down \in [Conns -> Seq(DownFrames)]
  BY HereParts DEF StreamHolds, StreamInv, Shapes
<1>1. /\ frames \in Seq(DownFrames) /\ down' = [down EXCEPT ![c] = frames]
      /\ \A i \in 1..Len(frames) : \/ \E k \in 1..Len(down[c]) : frames[i] = down[c][k]
                                   \/ \E k \in 1..Len(more) : frames[i] = more[k]
  BY DEF InFlightAfter
<1>2. SaidTruly(frames, client[c], session[c])
  <2> SUFFICES ASSUME SaysEnded(frames, client[c]) PROVE LookupsFail \/ ~session[c]
    BY DEF SaidTruly
  <2>1. \/ SaysEnded(down[c], client[c])
        \/ \E k \in 1..Len(more) : more[k] = CloseFrame("signed_out")
    BY <1>1 DEF SaysEnded
  <2> QED
    BY <1>0, <2>1 DEF SaidTruly, SendsTruly
<1>3. Changes(c, task, asked, frames, socket, client[c], app[c], session[c])
  BY <1>1, Here DEF Changes, Serves
<1>4. Shaped(task, asked, frames, socket, client[c], app[c], session[c])
  BY <1>0, <1>1 DEF Shaped, Serves
<1>5. Agree(task, asked, frames, socket, client[c], session[c])
  BY <1>0, <1>2 DEF Agree
<1> QED
  BY <1>3, <1>4, <1>5, ChangeKeeps DEF Serves

\* A close frame sent alone.
LEMMA CloseAlone ==
    ASSUME NEW code \in Codes
    PROVE  /\ <<CloseFrame(code)>> \in Seq(DownFrames)
           /\ \A k \in 1..Len(<<CloseFrame(code)>>) :
                  <<CloseFrame(code)>>[k] = CloseFrame("signed_out") => code = "signed_out"
<1> DEFINE frame == CloseFrame(code)
<1>1. frame \in DownFrames /\ (frame = CloseFrame("signed_out") => code = "signed_out")
  BY DEF CloseFrame, DownFrames
<1>2. /\ <<frame>> \in Seq(DownFrames) /\ Len(<<frame>>) = 1 /\ <<frame>>[1] = frame
  <2> HIDE DEF frame, DownFrames
  <2> QED
    BY <1>1
<1> QED
  <2> HIDE DEF frame
  <2>1. \A k \in 1..Len(<<frame>>) :
            <<frame>>[k] = CloseFrame("signed_out") => code = "signed_out"
    BY <1>1, <1>2
  <2> QED
    BY <1>2, <2>1 DEF frame

\* The task has ended, and frames may have been sent: a close frame at most.
LEMMA EndedWith ==
    ASSUME StreamHolds, [Next]_vars, NEW c \in Conns, server[c].phase # "none",
           NEW socket \in {"none", "up", "broken", "silent"},
           Serves(c, NoServer, up[c], socket),
           NEW more, SendsTruly(c, more), NEW frames, InFlightAfter(c, more, frames),
           NEW code \in Codes, frames = down[c] \/ frames = down[c] \o <<CloseFrame(code)>>
    PROVE  StreamKept
<1>1. /\ IInv /\ server[c] \in Tasks /\ down[c] \in Seq(DownFrames) /\ client[c] \in Pages
      /\ up[c] \in Seq(UpFrames) /\ Route(server[c], up[c], down[c], link[c], client[c])
  BY HereParts
<1>2. Route(NoServer, up[c], frames, socket, client[c])
  BY <1>1, RouteOfEnded
<1>3. NoServer \in Tasks
  BY LimitsAssumption DEF NoServer, Tasks, ServerPhases, Positions
<1> QED
  BY <1>1, <1>2, <1>3, ServingKeeps

\* The task ends, with a code or none.
LEMMA EndedKeeps ==
    ASSUME StreamHolds, [Next]_vars, NEW c \in Conns, server[c].phase # "none",
           NEW socket \in {"none", "up", "broken", "silent"},
           Serves(c, NoServer, up[c], socket), NEW code \in Codes,
           code = "signed_out" => LookupsFail \/ ~session[c],
           Sends(c, <<CloseFrame(code)>>) \/ UNCHANGED down
    PROVE  StreamKept
<1>1. <<CloseFrame(code)>> \in Seq(DownFrames) /\ SendsTruly(c, <<CloseFrame(code)>>)
  BY CloseAlone DEF SendsTruly
<1>2. PICK frames : InFlightAfter(c, <<CloseFrame(code)>>, frames)
  BY <1>1, SentFrames
<1>3. frames = down[c] \/ frames = down[c] \o <<CloseFrame(code)>>
  BY <1>2 DEF InFlightAfter
<1> QED
  BY <1>1, <1>2, <1>3, EndedWith

\* Each way a task ends (`serve`).
LEMMA EndingKeeps ==
    ASSUME StreamHolds, [Next]_vars, NEW c \in Conns,
           FallBehind(c) \/ CheckSession(c) \/ LookupFails(c) \/ ResumeTimeout(c) \/ TaskFails(c)
    PROVE  StreamKept
<1>0. faults \in 0..MaxFaults /\ link[c] \in {"none", "up", "broken", "silent"}
  BY HereParts
<1>1. faults' \in 0..MaxFaults
  BY <1>0, StreamAssumption
     DEF FallBehind, CheckSession, LookupFails, ResumeTimeout, TaskFails, ClosesWith
<1>2. CASE FallBehind(c) \/ CheckSession(c) \/ LookupFails(c) \/ ResumeTimeout(c)
  <2>1. PICK code \in Codes :
            /\ Sends(c, <<CloseFrame(code)>>)
            /\ code = "signed_out" => LookupsFail \/ ~session[c]
            /\ server[c].phase # "none" /\ Ends(c)
            /\ UNCHANGED <<up, link, client, app, session>>
    BY <1>2 DEF FallBehind, CheckSession, LookupFails, ResumeTimeout, ClosesWith, Codes
  <2>2. Serves(c, NoServer, up[c], link[c])
    BY <1>1, <2>1, Here DEF Serves, Ends
  <2> QED
    BY <1>0, <2>1, <2>2, EndedKeeps
<1>3. CASE TaskFails(c)
  <2> DEFINE socket == IF link[c] = "up" THEN "broken" ELSE link[c]
  <2>1. server[c].phase # "none" /\ Serves(c, NoServer, up[c], socket) /\ UNCHANGED down
    BY <1>1, <1>3, Here DEF TaskFails, Ends, Serves
  <2>2. socket \in {"none", "up", "broken", "silent"}
    BY <1>0
  <2>3. "lagged" \in Codes /\ "lagged" # "signed_out"
    BY DEF Codes
  <2> HIDE DEF socket
  <2> QED
    BY <2>1, <2>2, <2>3, EndedKeeps
<1> QED
  BY <1>2, <1>3


\* Whoever has a task has its page on the socket.
LEMMA ServedHere ==
    ASSUME StreamHolds, NEW c \in Conns, server[c].phase # "none"
    PROVE  /\ client[c].state \in OnSocket
           /\ InOrder(down[c], client[c].last) /\ client[c].last =< Newest
           /\ Follows(server[c], up[c], down[c], client[c])
           /\ MarkFirst(server[c], down[c], link[c], client[c])
           /\ client[c].last \in Int
<1>1. Route(server[c], up[c], down[c], link[c], client[c]) /\ client[c] \in Pages
  BY HereParts
<1>2. client[c].last \in Int
  BY <1>1, LimitsAssumption DEF Pages, Positions, NoSeq
<1> QED
  BY <1>1, <1>2 DEF Route

\* The task goes on, and sends nothing.
LEMMA QuietServes ==
    ASSUME StreamHolds, [Next]_vars, NEW c \in Conns, server[c].phase # "none", UNCHANGED down,
           NEW task \in Tasks, NEW asked \in Seq(UpFrames), Serves(c, task, asked, link[c]),
           Follows(task, asked, down[c], client[c]),
           task.phase = "live" => server[c].phase = "live"
    PROVE  StreamKept
<1>0. /\ down[c] \in Seq(DownFrames) /\ link[c] \in {"none", "up", "broken", "silent"}
      /\ down = [down EXCEPT ![c] = down[c]]
  BY HereParts, Here
<1>1. Route(task, asked, down[c], link[c], client[c])
  BY ServedHere DEF Route, MarkFirst
<1>2. InFlightAfter(c, <<>>, down[c])
  <2>1. \A i \in 1..Len(down[c]) : down[c][i] = down[c][i]
    OBVIOUS
  <2> QED
    BY <1>0, <2>1 DEF InFlightAfter
<1>3. SendsTruly(c, <<>>)
  <2>1. Len(<<>>) = 0
    OBVIOUS
  <2> QED
    BY <2>1 DEF SendsTruly
<1> QED
  BY <1>0, <1>1, <1>2, <1>3, ServingKeeps

\* Frames that may be sent now: events, or a mark on its own that is not before
\* what was sent.
MaySend(c, more) ==
    \A i \in 1..Len(more) :
        /\ Genuine(more[i])
        /\ more[i] # CloseFrame("signed_out")
        /\ more[i].type \in Marks =>
              Len(more) = 1 /\ client[c].last =< more[i].seq /\ Under(down[c], more[i].seq)

\* The task goes on, and sends frames.
LEMMA SendingServes ==
    ASSUME StreamHolds, [Next]_vars, NEW c \in Conns, server[c].phase # "none",
           NEW more \in Seq(DownFrames), Sends(c, more), MaySend(c, more),
           NEW task \in Tasks, NEW asked \in Seq(UpFrames), Serves(c, task, asked, link[c]),
           task.phase \in {"replay", "settle", "live"},
           Follows(task, asked, down[c], client[c]),
           task.phase # "live" => Under(more, task.latest),
           link[c] = "up" /\ client[c].last = NoSeq =>
               down[c] # <<>> \/ (more # <<>> /\ Head(more).type \in Marks)
    PROVE  StreamKept
<1>0. /\ down[c] \in Seq(DownFrames) /\ link[c] \in {"none", "up", "broken", "silent"}
      /\ client[c] \in Pages /\ client[c].last \in Int
  BY HereParts, ServedHere
<1>1. PICK frames : /\ InFlightAfter(c, more, frames)
                    /\ Sends(c, more) /\ link[c] = "up" => frames = down[c] \o more
  BY SentFrames
<1>2. frames = down[c] \/ frames = down[c] \o more
  BY <1>1 DEF InFlightAfter
<1>3. SendsTruly(c, more)
  BY DEF SendsTruly, MaySend
<1>4. InOrder(frames, client[c].last)
  <2>1. \A i \in 1..Len(more) :
            /\ Genuine(more[i])
            /\ more[i].type \in Marks =>
                  Len(more) = 1 /\ client[c].last =< more[i].seq /\ Under(down[c], more[i].seq)
    BY DEF MaySend
  <2>2. InOrder(down[c] \o more, client[c].last)
    BY <1>0, <2>1, ServedHere, AddedInOrder
  <2> QED
    BY <1>2, <2>2, ServedHere
<1>5. Follows(task, asked, frames, client[c])
  <2>1. task.phase # "live" => Under(down[c], task.latest)
    BY DEF Follows
  <2>2. task.phase # "live" => Under(down[c] \o more, task.latest)
    BY <1>0, <2>1, AddedUnder
  <2> QED
    BY <1>2, <2>2 DEF Follows
<1>6. MarkFirst(task, frames, link[c], client[c])
  <2> SUFFICES ASSUME client[c].last = NoSeq
               PROVE  /\ ~client[c].synced
                      /\ frames # <<>> => Head(frames).type \in Marks \cup {"close"}
                      /\ task.phase = "live" /\ link[c] = "up" => frames # <<>>
    BY DEF MarkFirst
  <2>0. /\ ~client[c].synced
        /\ down[c] # <<>> => Head(down[c]).type \in Marks \cup {"close"}
    BY ServedHere DEF MarkFirst
  <2>1. CASE link[c] = "up"
    <3> HIDE DEF DownFrames
    <3>1. frames = down[c] \o more
      BY <1>1, <2>1
    <3>2. down[c] # <<>> => frames # <<>> /\ Head(frames) = Head(down[c])
      BY <1>0, <3>1
    <3>3. down[c] = <<>> => frames = more
      BY <1>0, <3>1, ConcatEmptySeq
    <3> QED
      BY <2>0, <2>1, <3>2, <3>3
  <2>2. CASE link[c] # "up"
    <3>1. frames = down[c]
      <4>1. down' = down /\ down' = [down EXCEPT ![c] = frames]
        BY <1>1, <2>2 DEF Sends, InFlightAfter
      <4>2. down \in [Conns -> Seq(DownFrames)]
        BY DEF StreamHolds, StreamInv, Shapes
      <4> HIDE DEF DownFrames
      <4> QED
        BY <4>1, <4>2
    <3> QED
      BY <2>0, <2>2, <3>1
  <2> QED
    BY <2>1, <2>2
<1>7. Route(task, asked, frames, link[c], client[c])
  BY <1>4, <1>5, <1>6, ServedHere DEF Route
<1> QED
  BY <1>0, <1>1, <1>3, <1>7, ServingKeeps


\* The page's first frame says where it is (`read_resume`), and is there still.
LEMMA ResumeReadKeeps ==
    ASSUME StreamHolds, [Next]_vars, NEW c \in Conns, ReadResume(c)
    PROVE  StreamKept
<1>0. /\ server[c] \in Tasks /\ up[c] \in Seq(UpFrames) /\ client[c] \in Pages
      /\ server[c].phase = "resume" /\ faults \in 0..MaxFaults
  BY HereParts DEF ReadResume
<1>1. up[c] # <<>> /\ Head(up[c]) = Resume(client[c].last) /\ down[c] = <<>>
  BY <1>0, ServedHere DEF Follows
<1> DEFINE task == [server[c] EXCEPT !.phase = "latest", !.after = client[c].last]
<1>2. Head(up[c]).after = client[c].last
  BY <1>1 DEF Resume
<1>3. task \in Tasks /\ task.phase = "latest" /\ task.after = client[c].last
  BY <1>0 DEF Tasks, Pages, ServerPhases
<1>4. server' = [server EXCEPT ![c] = task]
  BY <1>2 DEF ReadResume
<1>5. Tail(up[c]) \in Seq(UpFrames)
  <2> HIDE DEF UpFrames
  <2> QED
    BY <1>0, <1>1
<1> HIDE DEF task
<1>6. Serves(c, task, Tail(up[c]), link[c])
  BY <1>0, <1>4, Here DEF Serves, ReadResume
<1>7. Follows(task, Tail(up[c]), down[c], client[c])
  BY <1>1, <1>3 DEF Follows
<1>8. server[c].phase # "none" /\ task.phase # "live" /\ UNCHANGED down
  BY <1>0, <1>3 DEF ReadResume
<1> QED
  BY <1>3, <1>5, <1>6, <1>7, <1>8, QuietServes

\* The log's end is read, and the page is not past it (`latest`).
LEMMA LatestReadKeeps ==
    ASSUME StreamHolds, [Next]_vars, NEW c \in Conns, ReadLatest(c)
    PROVE  StreamKept
<1>0. /\ IInv /\ server[c] \in Tasks /\ up[c] \in Seq(UpFrames)
      /\ server[c].phase = "latest" /\ faults \in 0..MaxFaults
  BY HereParts DEF ReadLatest
<1>1. down[c] = <<>> /\ server[c].after = client[c].last /\ client[c].last =< Newest
  BY <1>0, ServedHere DEF Follows
<1>2. LatestValue = Newest /\ Newest \in Positions
  BY <1>0, LogEnd DEF ReadLatest, Latest, Positions
<1> DEFINE task == [server[c] EXCEPT
                       !.latest = Newest, !.sent = Newest,
                       !.phase = IF server[c].after = NoSeq THEN "settle" ELSE "earliest"]
<1>3. /\ task \in Tasks /\ task.latest = Newest /\ task.sent = Newest
      /\ task.after = client[c].last /\ task.phase \in {"settle", "earliest"}
      /\ task.phase = "earliest" => client[c].last # NoSeq
  BY <1>0, <1>1, <1>2 DEF Tasks, ServerPhases
<1>4. server' = [server EXCEPT ![c] = task]
  BY <1>2 DEF ReadLatest
<1> HIDE DEF task
<1>5. Serves(c, task, up[c], link[c])
  BY <1>0, <1>4, Here DEF Serves, ReadLatest
<1>6. Under(down[c], task.latest)
  <2>1. Len(down[c]) = 0
    BY <1>1
  <2> QED
    BY <2>1 DEF Under
<1>7. Newest =< Newest
  BY <1>2, LimitsAssumption DEF Positions
<1>8. Follows(task, up[c], down[c], client[c])
  BY <1>1, <1>3, <1>6, <1>7 DEF Follows
<1>9. server[c].phase # "none" /\ task.phase # "live" /\ UNCHANGED down
  BY <1>0, <1>3 DEF ReadLatest
<1> QED
  BY <1>0, <1>3, <1>5, <1>8, <1>9, QuietServes

\* One mark that may be sent: it is what the log had reached, and neither the
\* page nor a frame in flight is past it.
LEMMA MarkMaySend ==
    ASSUME NEW c \in Conns, NEW mark \in DownFrames, mark.type \in Marks,
           mark.seq =< Newest, client[c].last =< mark.seq, Under(down[c], mark.seq)
    PROVE  /\ <<mark>> \in Seq(DownFrames) /\ <<mark>> # <<>> /\ Head(<<mark>>) = mark
           /\ MaySend(c, <<mark>>)
           /\ Under(<<mark>>, mark.seq)
<1>1. /\ <<mark>> \in Seq(DownFrames) /\ <<mark>> # <<>> /\ Head(<<mark>>) = mark
      /\ Len(<<mark>>) = 1 /\ <<mark>>[1] = mark
  <2> HIDE DEF DownFrames
  <2> QED
    OBVIOUS
<1>2. mark.type # "event" /\ mark # CloseFrame("signed_out") /\ Genuine(mark)
  BY DEF Marks, CloseFrame, Genuine
<1>3. mark.seq =< mark.seq
  BY FrameNumbers DEF Placed
<1>4. MaySend(c, <<mark>>)
  BY <1>1, <1>2 DEF MaySend
<1>5. Under(<<mark>>, mark.seq)
  BY <1>1, <1>3 DEF Under
<1> QED
  BY <1>1, <1>4, <1>5

\* One frame that is no mark may be sent at any time.
LEMMA OneMaySend ==
    ASSUME NEW c \in Conns, NEW frame \in DownFrames, frame.type \in {"event", "pong"},
           Genuine(frame)
    PROVE  <<frame>> \in Seq(DownFrames) /\ MaySend(c, <<frame>>)
<1>1. <<frame>> \in Seq(DownFrames) /\ Len(<<frame>>) = 1 /\ <<frame>>[1] = frame
  <2> HIDE DEF DownFrames
  <2> QED
    OBVIOUS
<1>2. frame.type \notin Marks /\ frame # CloseFrame("signed_out")
  BY DEF Marks, CloseFrame
<1> QED
  BY <1>1, <1>2 DEF MaySend

\* The marks are frames.
LEMMA MarkFrames ==
    \A s \in Positions :
        /\ LiveFrame(s) \in DownFrames /\ ResetFrame(s) \in DownFrames
        /\ LiveFrame(s).type \in Marks /\ ResetFrame(s).type \in Marks
        /\ LiveFrame(s).seq = s /\ ResetFrame(s).seq = s
BY DEF LiveFrame, ResetFrame, DownFrames, Marks


\* The log can be replayed from the page's position, or it is told to reload
\* (`replay`'s check).
LEMMA EarliestReadKeeps ==
    ASSUME StreamHolds, [Next]_vars, NEW c \in Conns, ReadEarliest(c)
    PROVE  StreamKept
<1>0. /\ server[c] \in Tasks /\ up[c] \in Seq(UpFrames)
      /\ server[c].phase = "earliest" /\ faults \in 0..MaxFaults
  BY HereParts DEF ReadEarliest
<1>1. /\ server[c].after = client[c].last /\ client[c].last # NoSeq
      /\ client[c].last =< server[c].latest /\ server[c].latest =< Newest
      /\ server[c].sent = server[c].latest /\ Under(down[c], server[c].latest)
  BY <1>0, ServedHere DEF Follows
<1>2. server[c].after \in Positions /\ server[c].latest \in Positions
  BY <1>0, <1>1 DEF Tasks
<1>3. CASE server[c].after > server[c].latest \/ Dropped(server[c])
  <2> DEFINE task == [server[c] EXCEPT !.phase = "settle"]
             mark == ResetFrame(server[c].latest)
  <2>1. /\ task \in Tasks /\ task.phase = "settle" /\ task.latest = server[c].latest
        /\ task.sent = server[c].latest
    BY <1>0, <1>1 DEF Tasks, ServerPhases
  <2>2. server' = [server EXCEPT ![c] = task]
    BY <1>3 DEF ReadEarliest
  <2>3. Sends(c, <<mark>>)
    BY <1>3 DEF ReadEarliest
  <2>4. mark \in DownFrames /\ mark.type \in Marks /\ mark.seq = server[c].latest
    BY <1>2, MarkFrames
  <2> HIDE DEF task, mark
  <2>5. Serves(c, task, up[c], link[c])
    BY <1>0, <2>2, Here DEF Serves, ReadEarliest
  <2>6. /\ <<mark>> \in Seq(DownFrames) /\ MaySend(c, <<mark>>)
        /\ Under(<<mark>>, task.latest)
    BY <1>1, <2>1, <2>4, MarkMaySend
  <2>7. Follows(task, up[c], down[c], client[c])
    BY <1>1, <2>1 DEF Follows
  <2>8. server[c].phase # "none" /\ task.phase \in {"replay", "settle", "live"}
    BY <1>0, <2>1
  <2> QED
    BY <1>0, <1>1, <2>1, <2>3, <2>5, <2>6, <2>7, <2>8, SendingServes
<1>4. CASE ~(server[c].after > server[c].latest \/ Dropped(server[c]))
  <2> DEFINE task == [server[c] EXCEPT !.phase = "replay", !.sent = server[c].after]
  <2>1. task \in Tasks /\ task.phase = "replay" /\ task.latest = server[c].latest
    BY <1>0, <1>2 DEF Tasks, ServerPhases
  <2>2. server' = [server EXCEPT ![c] = task] /\ UNCHANGED down
    BY <1>4 DEF ReadEarliest
  <2> HIDE DEF task
  <2>3. Serves(c, task, up[c], link[c])
    BY <1>0, <2>2, Here DEF Serves, ReadEarliest
  <2>4. Follows(task, up[c], down[c], client[c])
    BY <1>1, <2>1 DEF Follows
  <2>5. server[c].phase # "none" /\ task.phase # "live"
    BY <1>0, <2>1
  <2> QED
    BY <1>0, <2>1, <2>2, <2>3, <2>4, <2>5, QuietServes
<1> QED
  BY <1>3, <1>4

\* A page of the replay is sent, or it ends (`replay`).
LEMMA ReplayKeeps ==
    ASSUME StreamHolds, [Next]_vars, NEW c \in Conns, ReplayOnePage(c)
    PROVE  StreamKept
<1> DEFINE s == server[c]
           page == Since(s.sent, ReplayPage)
           settled == [s EXCEPT !.phase = "settle", !.sent = s.latest]
           until == IF Max(page) < s.latest THEN Max(page) ELSE s.latest
           onward == [s EXCEPT !.sent = until]
           mark == ResetFrame(s.latest)
           frames == PageFrames(page, s.latest)
           over == s.sent >= s.latest \/ page = {}
           hole == Min(page) # s.sent + 1
<1>0. /\ IInv /\ s \in Tasks /\ up[c] \in Seq(UpFrames)
      /\ s.phase = "replay" /\ s.phase # "none" /\ faults \in 0..MaxFaults
  BY HereParts DEF ReplayOnePage
<1>1. /\ client[c].last # NoSeq /\ client[c].last =< s.latest /\ s.latest =< Newest
      /\ Under(down[c], s.latest)
  BY <1>0, ServedHere DEF Follows
<1>2. s.latest \in Positions
  BY <1>0 DEF Tasks
<1>3. /\ settled \in Tasks /\ settled.phase = "settle"
      /\ settled.latest = s.latest /\ settled.sent = s.latest
  BY <1>0, <1>2 DEF Tasks, ServerPhases
<1>4. \/ over /\ server' = [server EXCEPT ![c] = settled] /\ UNCHANGED down
      \/ ~over /\ server' = [server EXCEPT ![c] = settled] /\ Sends(c, <<mark>>)
      \/ ~over /\ server' = [server EXCEPT ![c].sent = until] /\ Sends(c, frames)
  BY DEF ReplayOnePage
<1>5. UNCHANGED <<up, link, client, app, session, faults>>
  BY DEF ReplayOnePage
<1>6. page \in SUBSET Stored
  BY DEF Since
<1>7. mark \in DownFrames /\ mark.type \in Marks /\ mark.seq = s.latest
  BY <1>2, MarkFrames
<1>8. [server EXCEPT ![c].sent = until] = [server EXCEPT ![c] = onward]
  OBVIOUS
<1>9. page # {} => until \in Positions
  <2> HIDE DEF page
  <2>1. MaxSeq \in Nat /\ page \in SUBSET (0..MaxSeq)
    BY <1>6, LimitsAssumption DEF Stored, Seqs
  <2> QED
    BY <1>2, <2>1, MaxIsLargest DEF Positions
<1>10. frames \in Seq(DownFrames) /\ MaySend(c, frames) /\ Under(frames, s.latest)
  <2>1. /\ frames \in Seq(DownFrames) /\ Under(frames, s.latest)
        /\ \A i \in 1..Len(frames) : frames[i].type = "event" /\ Genuine(frames[i])
    <3> HIDE DEF page
    <3> QED
      BY <1>0, <1>6, PageFramesAreRows
  <2> HIDE DEF frames
  <2>2. \A i \in 1..Len(frames) :
            frames[i].type \notin Marks /\ frames[i] # CloseFrame("signed_out")
    BY <2>1 DEF Marks, CloseFrame
  <2> QED
    BY <2>1, <2>2 DEF MaySend
<1>11. page # {} => /\ onward \in Tasks /\ onward.phase = "replay"
                    /\ onward.latest = s.latest
  <2> HIDE DEF until, page
  <2> QED
    BY <1>0, <1>9 DEF Tasks
<1>12. Follows(settled, up[c], down[c], client[c])
  <2> HIDE DEF settled
  <2> QED
    BY <1>1, <1>3 DEF Follows
<1> HIDE DEF s, page, settled, until, onward, mark, frames, hole
<1>13. ASSUME UNCHANGED down, server' = [server EXCEPT ![c] = settled] PROVE StreamKept
  <2>1. Serves(c, settled, up[c], link[c])
    BY <1>0, <1>5, <1>13, Here DEF Serves
  <2>2. server[c].phase # "none" /\ settled.phase # "live"
    BY <1>0, <1>3 DEF s
  <2> QED
    BY <1>0, <1>3, <1>12, <1>13, <2>1, <2>2, QuietServes
<1>14. ASSUME Sends(c, <<mark>>), server' = [server EXCEPT ![c] = settled] PROVE StreamKept
  <2>1. Serves(c, settled, up[c], link[c])
    BY <1>0, <1>5, <1>14, Here DEF Serves
  <2>2. server[c].phase # "none" /\ settled.phase \in {"replay", "settle", "live"}
    BY <1>0, <1>3 DEF s
  <2>3. /\ <<mark>> \in Seq(DownFrames) /\ MaySend(c, <<mark>>)
        /\ Under(<<mark>>, settled.latest)
    BY <1>1, <1>3, <1>7, MarkMaySend
  <2> QED
    BY <1>0, <1>1, <1>3, <1>12, <1>14, <2>1, <2>2, <2>3, SendingServes
<1>15. ASSUME page # {}, Sends(c, frames), server' = [server EXCEPT ![c] = onward]
       PROVE  StreamKept
  <2>1. Serves(c, onward, up[c], link[c])
    BY <1>0, <1>5, <1>15, Here DEF Serves
  <2>2. server[c].phase # "none" /\ onward.phase \in {"replay", "settle", "live"}
    BY <1>0, <1>11, <1>15 DEF s
  <2>3. Follows(onward, up[c], down[c], client[c])
    BY <1>1, <1>11, <1>15 DEF Follows
  <2>4. Under(frames, onward.latest)
    BY <1>10, <1>11, <1>15
  <2> QED
    BY <1>0, <1>1, <1>10, <1>11, <1>15, <2>1, <2>2, <2>3, <2>4, SendingServes
<1> QED
  BY <1>4, <1>8, <1>13, <1>14, <1>15


\* The replay is over, and the page is told (`serve`).
LEMMA GoLiveKeeps ==
    ASSUME StreamHolds, [Next]_vars, NEW c \in Conns, GoLive(c)
    PROVE  StreamKept
<1>0. /\ server[c] \in Tasks /\ up[c] \in Seq(UpFrames)
      /\ server[c].phase = "settle" /\ faults \in 0..MaxFaults
  BY HereParts DEF GoLive
<1>1. /\ client[c].last =< server[c].latest /\ server[c].latest =< Newest
      /\ server[c].sent = server[c].latest /\ Under(down[c], server[c].latest)
  BY <1>0, ServedHere DEF Follows
<1>2. server[c].latest \in Positions
  BY <1>0 DEF Tasks
<1> DEFINE task == [server[c] EXCEPT !.phase = "live"]
           mark == LiveFrame(server[c].latest)
<1>3. task \in Tasks /\ task.phase = "live"
  BY <1>0 DEF Tasks, ServerPhases
<1>4. server' = [server EXCEPT ![c] = task] /\ Sends(c, <<mark>>)
  BY <1>1 DEF GoLive
<1>5. mark \in DownFrames /\ mark.type \in Marks /\ mark.seq = server[c].latest
  BY <1>2, MarkFrames
<1> HIDE DEF task, mark
<1>6. Serves(c, task, up[c], link[c])
  BY <1>0, <1>4, Here DEF Serves, GoLive
<1>7. /\ <<mark>> \in Seq(DownFrames) /\ MaySend(c, <<mark>>)
      /\ <<mark>> # <<>> /\ Head(<<mark>>).type \in Marks
  BY <1>1, <1>5, MarkMaySend
<1>8. Follows(task, up[c], down[c], client[c])
  BY <1>3 DEF Follows
<1>9. server[c].phase # "none" /\ task.phase \in {"replay", "settle", "live"}
  BY <1>0, <1>3
<1> QED
  BY <1>0, <1>3, <1>4, <1>6, <1>7, <1>8, <1>9, SendingServes

\* The live task forwards what the log broadcast, which is the log's.
LEMMA HeadIsGenuine ==
    ASSUME IInv, QInv, NEW c \in Conns, queue[c].events # <<>>
    PROVE  LET event == Head(queue[c].events)
           IN  event.seq \in 1..Newest /\ event.seq \in Seqs /\ event.by \in Writers
               /\ event.by = issued[event.seq]
<1> DEFINE q == queue[c].events
           event == Head(q)
           n == Len(q)
<1>1. q \in Seq(Event)
  BY DEF IInv, TypeOK, Receivers
<1>2. n \in Nat /\ n > 0 /\ event = q[1] /\ event \in Event /\ 1 \in 1..n
  <2> HIDE DEF Event
  <2> QED
    BY <1>1
<1>3. q[1].seq = Frontier - (n - 1) /\ q[1].by = issued[q[1].seq]
  BY <1>2 DEF QInv, Feeds
<1>4. Frontier \in Nat /\ Frontier =< Newest /\ Newest \in Nat
  <2>0. PICK lo, hi \in Nat : Run(lo, hi) /\ \A w \in Writers : Numbered(w, hi)
    BY DEF IInv
  <2>1. StoredLast = hi /\ Newest = hi
    BY <2>0, RunEnds
  <2>2. Frontier \in Nat
    BY FrontierTyped, LimitsAssumption
  <2>3. lock # NoOne => lock \in Writers
    BY DEF IInv, TypeOK
  <2>4. lock # NoOne /\ batch[lock].phase = "committed" => batch[lock].sent =< hi
    BY <2>0, <2>3 DEF Numbered
  <2> QED
    BY <2>1, <2>2, <2>4 DEF Frontier
<1>5. event.seq \in Seqs /\ event.by \in Writers
  BY <1>2 DEF Event
<1> HIDE DEF q, event, n
<1>6. event.seq \in 1..Newest
  BY <1>2, <1>3, <1>4, <1>5 DEF Seqs
<1>7. event.by = issued[event.seq]
  BY <1>2, <1>3
<1> QED
  BY <1>5, <1>6, <1>7 DEF event, q

\* A live event is forwarded, or was replayed already.
LEMMA ForwardKeeps ==
    ASSUME StreamHolds, [Next]_vars, NEW c \in Conns, Forward(c)
    PROVE  StreamKept
<1> DEFINE event == Head(queue[c].events)
           frame == [type |-> "event", seq |-> event.seq, by |-> event.by]
           task == [server[c] EXCEPT !.sent = event.seq]
<1>0. /\ IInv /\ QInv /\ server[c] \in Tasks /\ up[c] \in Seq(UpFrames)
      /\ server[c].phase = "live" /\ faults \in 0..MaxFaults
  BY HereParts DEF Forward, StreamHolds
<1>1. /\ event.seq \in 1..Newest /\ event.seq \in Seqs /\ event.by \in Writers
      /\ event.by = issued[event.seq]
  BY <1>0, HeadIsGenuine DEF Forward
<1>2. \/ UNCHANGED <<server, down>>
      \/ server' = [server EXCEPT ![c].sent = event.seq] /\ Sends(c, <<frame>>)
  BY DEF Forward
<1>3. UNCHANGED <<up, link, client, app, session, faults>>
  BY DEF Forward
<1> HIDE DEF event
<1>4. CASE UNCHANGED <<server, down>>
  <2>1. Serves(c, server[c], up[c], link[c])
    BY <1>0, <1>3, <1>4, Here DEF Serves
  <2>2. Follows(server[c], up[c], down[c], client[c]) /\ server[c].phase # "none"
    BY <1>0, ServedHere
  <2> QED
    BY <1>0, <1>4, <2>1, <2>2, QuietServes
<1>5. CASE server' = [server EXCEPT ![c].sent = event.seq] /\ Sends(c, <<frame>>)
  <2>1. task \in Tasks /\ task.phase = "live"
    <3>1. event.seq \in Positions
      BY <1>1, LimitsAssumption DEF Positions, Seqs
    <3> QED
      BY <1>0, <3>1 DEF Tasks
  <2>2. server' = [server EXCEPT ![c] = task]
    BY <1>5
  <2>3. frame \in DownFrames /\ frame.type \in {"event", "pong"} /\ Genuine(frame)
    BY <1>1 DEF DownFrames, Genuine, Marks
  <2>4. Sends(c, <<frame>>)
    BY <1>5
  <2> HIDE DEF task, frame
  <2>5. Serves(c, task, up[c], link[c])
    BY <1>0, <1>3, <2>2, Here DEF Serves
  <2>6. <<frame>> \in Seq(DownFrames) /\ MaySend(c, <<frame>>)
    BY <2>3, OneMaySend
  <2>7. Follows(task, up[c], down[c], client[c])
    BY <2>1 DEF Follows
  <2>8. server[c].phase # "none" /\ task.phase \in {"replay", "settle", "live"}
    BY <1>0, <2>1
  <2>9. link[c] = "up" /\ client[c].last = NoSeq => down[c] # <<>>
    BY <1>0, ServedHere DEF MarkFirst
  <2> QED
    BY <1>0, <2>1, <2>4, <2>5, <2>6, <2>7, <2>8, <2>9, SendingServes
<1> QED
  BY <1>2, <1>4, <1>5

\* A ping is answered.
LEMMA AnswerPingKeeps ==
    ASSUME StreamHolds, [Next]_vars, NEW c \in Conns, AnswerPing(c)
    PROVE  StreamKept
<1>0. /\ server[c] \in Tasks /\ up[c] \in Seq(UpFrames)
      /\ server[c].phase = "live" /\ faults \in 0..MaxFaults
  BY HereParts DEF AnswerPing
<1>1. Tail(up[c]) \in Seq(UpFrames)
  <2>1. up[c] # <<>>
    BY DEF AnswerPing
  <2> HIDE DEF UpFrames
  <2> QED
    BY <1>0, <2>1
<1>2. Pong \in DownFrames /\ Pong.type \in {"event", "pong"} /\ Genuine(Pong)
  BY DEF Pong, DownFrames, Genuine, Marks
<1>3. <<Pong>> \in Seq(DownFrames) /\ MaySend(c, <<Pong>>)
  BY <1>2, OneMaySend
<1>4. Sends(c, <<Pong>>) /\ Serves(c, server[c], Tail(up[c]), link[c])
  BY <1>0, Here DEF AnswerPing, Serves
<1>5. Follows(server[c], Tail(up[c]), down[c], client[c])
  BY <1>0 DEF Follows
<1>6. server[c].phase # "none" /\ server[c].phase \in {"replay", "settle", "live"}
  BY <1>0
<1>7. link[c] = "up" /\ client[c].last = NoSeq => down[c] # <<>>
  BY <1>0, ServedHere DEF MarkFirst
<1> QED
  BY <1>0, <1>1, <1>3, <1>4, <1>5, <1>6, <1>7, SendingServes

\* Every step of a task keeps the agreement.
LEMMA GatewayStepKeeps ==
    ASSUME StreamHolds, [Next]_vars, NEW c \in Conns, GatewayStep(c)
    PROVE  StreamKept
BY EndingKeeps, ResumeReadKeeps, LatestReadKeeps, EarliestReadKeeps, ReplayKeeps, GoLiveKeeps,
   ForwardKeeps, AnswerPingKeeps DEF GatewayStep, Serve


\* A restart of the gateway ends every task, and every socket will be found
\* broken; what was in flight may still arrive.
LEMMA RestartKeeps ==
    ASSUME StreamHolds, [Next]_vars, GatewayRestarts
    PROVE  StreamKept
<1> HIDE DEF Tasks, Pages, Told, UpFrames, DownFrames
<1>0. Shapes /\ IInv
  BY DEF StreamHolds, StreamInv
<1>1. NoServer \in Tasks
  BY LimitsAssumption DEF NoServer, Tasks, ServerPhases, Positions
<1>2. faults' \in 0..MaxFaults
  BY <1>0, StreamAssumption DEF GatewayRestarts, Fails, Shapes
<1> DEFINE broken(c) == IF link[c] = "up" THEN "broken" ELSE link[c]
<1>3. /\ server' = [c \in Conns |-> NoServer] /\ link' = [c \in Conns |-> broken(c)]
      /\ UNCHANGED <<up, down, client, app, session>>
  BY DEF GatewayRestarts
<1>4. \A c \in Conns : broken(c) \in {"none", "up", "broken", "silent"}
  BY <1>0 DEF Shapes
<1> HIDE DEF broken
<1>5. Shapes'
  BY <1>0, <1>1, <1>2, <1>3, <1>4 DEF Shapes
<1>6. ASSUME NEW c \in Conns PROVE AgreeAt(c)'
  <2>0. /\ server[c] \in Tasks /\ down[c] \in Seq(DownFrames) /\ client[c] \in Pages
        /\ Route(server[c], up[c], down[c], link[c], client[c])
        /\ WithinLimits(client[c]) /\ SaidTruly(down[c], client[c], session[c])
    BY HereParts
  <2>1. Route(NoServer, up[c], down[c], broken(c), client[c])
    <3>1. CASE server[c].phase # "none"
      <4>1. "lagged" \in Codes
        BY DEF Codes
      <4> QED
        BY <1>0, <2>0, <3>1, <4>1, RouteOfEnded
    <3>2. CASE server[c].phase = "none"
      <4>1. Follows(NoServer, up[c], down[c], client[c])
        BY DEF Follows, NoServer
      <4>2. MarkFirst(NoServer, down[c], broken(c), client[c])
        BY <2>0 DEF Route, MarkFirst, NoServer
      <4> QED
        BY <2>0, <4>1, <4>2 DEF Route, NoServer
    <3> QED
      BY <3>1, <3>2
  <2>2. Agree(NoServer, up[c], down[c], broken(c), client[c], session[c])
    BY <2>0, <2>1 DEF Agree
  <2>3. /\ server'[c] = NoServer /\ up'[c] = up[c] /\ down'[c] = down[c]
        /\ link'[c] = broken(c) /\ client'[c] = client[c] /\ session'[c] = session[c]
    BY <1>3
  <2> QED
    BY <1>0, <1>1, <2>0, <2>2, <2>3, AgreesNext
<1> QED
  BY <1>5, <1>6 DEF StreamKept

\* A step that is not of the sockets leaves them in agreement.
LEMMA AsideKeeps ==
    ASSUME StreamHolds, [Next]_vars, UNCHANGED streamVars
    PROVE  StreamKept
<1>1. UNCHANGED <<server, up, down, link, client, app, session, faults>>
  BY DEF streamVars
<1>2. Shapes'
  BY <1>1 DEF StreamHolds, StreamInv, Shapes
<1>3. \A c \in Conns : AgreeAt(c)'
  BY <1>1, OthersAgree
<1> QED
  BY <1>2, <1>3 DEF StreamKept

\* Every step keeps the agreement.
LEMMA StreamStep ==
    ASSUME StreamHolds, ClosedIsNew, [UntrustedNext]_allVars
    PROVE  StreamHolds' /\ ClosedIsNew' /\ [Next]_vars
<1>1. IInv /\ QInv /\ TypeOK
  BY DEF StreamHolds, IInv
<1>2. [Next]_vars
  BY <1>1, StepOfLog
<1>3. IInv' /\ QInv' /\ ClosedIsNew'
  BY <1>1, <1>2, StepPreserves, FeedStep, ClosedStep
<1>4. StreamKept
  <2>1. ASSUME NEW w \in Writers, LogStep(w) PROVE StreamKept
    BY <1>2, <2>1, AsideKeeps DEF LogStep
  <2>2. CASE OtherReader
    BY <1>2, <2>2, AsideKeeps DEF OtherReader
  <2>3. CASE UNCHANGED allVars
    BY <1>2, <2>3, AsideKeeps DEF allVars, streamVars
  <2>4. CASE GatewayRestarts
    BY <1>2, <2>4, RestartKeeps
  <2>5. ASSUME NEW c \in Conns, GatewayStep(c) \/ PageStep(c) PROVE StreamKept
    BY <1>2, <2>5, GatewayStepKeeps, PageStepKeeps
  <2>6. ASSUME NEW c \in Conns, Break(c) \/ DieUnseen(c) \/ Mangle(c) \/ Revoke(c)
        PROVE  StreamKept
    BY <1>2, <2>6, NetworkKeeps, RevokeKeeps
  <2> QED
    BY <2>1, <2>2, <2>3, <2>4, <2>5, <2>6 DEF UntrustedNext, StreamNext
<1> QED
  BY <1>2, <1>3, <1>4 DEF StreamHolds, StreamInv, StreamKept

\* Before any page has signed in, all agree.
LEMMA StreamStarts == StreamInit => StreamHolds /\ ClosedIsNew
<1> SUFFICES ASSUME StreamInit PROVE StreamHolds /\ ClosedIsNew
  OBVIOUS
<1>1. IInv /\ QInv /\ ClosedIsNew
  <2>1. Init
    BY DEF StreamInit
  <2>2. QInv
    <3>1. Len(<<>>) = 0
      OBVIOUS
    <3> QED
      BY <2>1, <3>1 DEF Init, QInv, Feeds, Closed
  <2> QED
    BY <2>1, <2>2, InitEstablishes DEF Init, ClosedIsNew
<1>2. NoServer \in Tasks /\ NewClient \in Pages /\ NoCommand \in Told /\ 0 \in 0..MaxFaults
  BY LimitsAssumption, StreamAssumption
     DEF NoServer, Tasks, ServerPhases, Positions, NewClient, Pages, ClientStates, NoCommand, Told
<1>3. <<>> \in Seq(UpFrames) /\ <<>> \in Seq(DownFrames) /\ Len(<<>>) = 0
  <2> HIDE DEF UpFrames, DownFrames
  <2> QED
    OBVIOUS
<1>4. NewClient.last = NoSeq /\ ~NewClient.synced /\ NewClient.state = "stopped"
      /\ NewClient.refusals = 0 /\ NewClient.checks = {} /\ ~NewClient.hidden
  BY DEF NewClient
<1>5. Shapes
  BY <1>2, <1>3 DEF Shapes, StreamInit
<1>6. ASSUME NEW c \in Conns PROVE AgreeAt(c)
  <2>1. /\ server[c] = NoServer /\ down[c] = <<>> /\ client[c] = NewClient
    BY DEF StreamInit
  <2>2. NewClient.last =< Newest
    BY <1>1, <1>4, LogEnd DEF NoSeq
  <2>3. Route(NoServer, up[c], <<>>, link[c], NewClient)
    BY <1>1, <1>2, <1>4, <2>2, RouteOfDetached
  <2>4. WithinLimits(NewClient)
    BY <1>4 DEF WithinLimits
  <2>5. SaidTruly(<<>>, NewClient, session[c])
    BY <1>3, <1>4 DEF SaidTruly, SaysEnded
  <2> QED
    BY <2>1, <2>3, <2>4, <2>5 DEF AgreeAt, Agree
<1> QED
  BY <1>1, <1>5, <1>6 DEF StreamHolds, StreamInv

\* The pages and their tasks agree in every state.
LEMMA StreamInvariance == UntrustedSpec => [](StreamHolds /\ ClosedIsNew)
<1>1. StreamHolds /\ ClosedIsNew /\ [UntrustedNext]_allVars => (StreamHolds /\ ClosedIsNew)'
  BY StreamStep
<1> QED
  BY <1>1, StreamStarts, PTL DEF UntrustedSpec


-----------------------------------------------------------------------------
(* What is promised.                                                        *)

\* The variables keep their types: no position leaves the log, no page pings or
\* is refused more often than its limits let it.
THEOREM StreamTypeCorrect == UntrustedSpec => []StreamTypeOK
<1>1. StreamHolds => StreamTypeOK
  BY DEF StreamHolds, StreamInv, Shapes, IInv, StreamTypeOK, Tasks, Pages, Told
<1> QED
  BY <1>1, StreamInvariance, PTL

\* A page is told that its session has ended only if it has: by no answer to a
\* question it asked before it signed in again, and by no close frame of an
\* earlier socket (`SessionAnswer`, `close_socket`), while lookups succeed.
THEOREM SignOutsAreTrue ==
    ~LookupsFail => (UntrustedSpec => []SignedOutOnlyIfEnded)
<1> SUFFICES ASSUME ~LookupsFail PROVE UntrustedSpec => []SignedOutOnlyIfEnded
  OBVIOUS
<1>1. StreamHolds => SignedOutOnlyIfEnded
  <2> SUFFICES ASSUME StreamHolds, NEW c \in Conns, client[c].state = "signed_out"
               PROVE  ~session[c]
    BY DEF SignedOutOnlyIfEnded
  <2> QED
    BY HereParts DEF SaidTruly, SaysEnded
<1> QED
  BY <1>1, StreamInvariance, PTL

\* The feed's view of a step: the log's end, what it holds, and one page.
Unmoved(d) == client'[d].last = client[d].last /\ app'[d] = app[d]

\* A step of a connection reads the log, and does not add to it.
LEMMA LogUnmoved ==
    ASSUME StreamHolds, ClosedIsNew, NEW c \in Conns, OnConnection(c)
    PROVE  issued' = issued /\ Newest' = Newest
<1>1. queue \in [Conns -> Receivers]
  BY DEF StreamHolds, IInv, TypeOK
<1>2. Read(c) \/ Latest \/ UNCHANGED vars
  BY <1>1, ConnectionReads
<1>3. issued' = issued
  BY <1>2 DEF Read, Subscribe, Receive, Unsubscribe, Latest, table, vars
<1> QED
  BY <1>3 DEF Newest, Issued

\* What a page does is no other page's business.
LEMMA OthersUnmoved ==
    ASSUME StreamHolds, NEW c \in Conns, OnConnection(c), NEW d \in Conns, d # c
    PROVE  Unmoved(d)
<1>0. client \in [Conns -> Pages] /\ app \in [Conns -> Told]
  BY DEF StreamHolds, StreamInv, Shapes
<1>1. \/ UNCHANGED <<client, app>>
      \/ \E page : Becomes(c, page)
      \/ \E page, command : Tells(c, page, command)
  <2>1. CASE GatewayStep(c) \/ Break(c) \/ DieUnseen(c) \/ Revoke(c) \/ Mangle(c)
    BY <2>1 DEF GatewayStep, Serve, ReadResume, ReadLatest, ReadEarliest, ReplayOnePage, GoLive,
                Forward, FallBehind, AnswerPing, CheckSession, LookupFails, ResumeTimeout,
                TaskFails, ClosesWith, Break, DieUnseen, Revoke, Mangle
  <2>2. CASE Hear(c)
    <3> HIDE DEF Becomes, Tells
    <3> QED
      BY <2>2 DEF Hear, PassOn, DropDuplicate, GiveUp, TurnLive, ReloadAll, HearPong, ToldClosed,
                  FindClosed
  <2>3. CASE PageStep(c) /\ ~Hear(c)
    <3> HIDE DEF Becomes, Tells
    <3> QED
      BY <2>3 DEF PageStep, Connect, Opened, NotOpened, RetryDue, SessionLookup, SessionAnswer,
                  PongOverdue, Hide, Show, Start, Stop
  <2> QED
    BY <2>1, <2>2, <2>3 DEF OnConnection
<1>2. client'[d] = client[d] /\ app'[d] = app[d]
  BY <1>0, <1>1 DEF Becomes, Tells
<1> QED
  BY <1>2 DEF Unmoved


\* The frame a page reads next.
LEMMA HeadFrame ==
    ASSUME StreamHolds, NEW c \in Conns, down[c] # <<>>
    PROVE  LET frame == Head(down[c])
           IN  /\ frame \in DownFrames /\ Genuine(frame)
               /\ frame.type \in Placed => frame.seq \in Positions
               /\ frame.type \in Marks => client[c].last =< frame.seq
               /\ client[c].last = NoSeq => frame.type # "event"
<1> DEFINE frame == Head(down[c])
<1>1. down[c] \in Seq(DownFrames) /\ Route(server[c], up[c], down[c], link[c], client[c])
  BY HereParts
<1>2. frame \in DownFrames /\ frame = down[c][1] /\ 1 \in 1..Len(down[c])
  <2> HIDE DEF DownFrames
  <2> QED
    BY <1>1
<1>3. /\ Genuine(frame)
      /\ frame.type \in Marks => client[c].last =< frame.seq
      /\ client[c].last = NoSeq => frame.type \in Marks \cup {"close"}
  BY <1>1, <1>2 DEF Route, InOrder, MarkFirst
<1>4. frame.type \in Placed => frame.seq \in Positions
  BY <1>2, LimitsAssumption DEF DownFrames, Placed, Marks, Positions, Pong, Seqs, CloseFrame
<1> QED
  BY <1>2, <1>3, <1>4 DEF Marks

\* A page that hears from its task keeps its position until it is given one.
LEMMA HeardKeeps ==
    ASSUME StreamHolds, NEW c \in Conns
    PROVE  /\ client[c] \in Pages /\ client \in [Conns -> Pages] /\ app \in [Conns -> Told]
           /\ Heard(c) \in Pages /\ Heard(c).last = client[c].last
           /\ Caught(c) \in Pages /\ Caught(c).last = client[c].last
<1>0. client[c] \in Pages /\ client \in [Conns -> Pages] /\ app \in [Conns -> Told]
  BY DEF StreamHolds, StreamInv, Shapes
<1>1. Heard(c) \in Pages /\ Heard(c).last = client[c].last
  BY <1>0 DEF Heard, Pages
<1>2. Caught(c) \in Pages /\ Caught(c).last = client[c].last
  <2>1. PICK s \in ClientStates : Caught(c) = [Heard(c) EXCEPT !.state = s]
    <3>1. Heard(c).state \in ClientStates /\ "replaying" \in ClientStates
      BY <1>1 DEF Pages, ClientStates
    <3> QED
      BY <1>1, <3>1 DEF Caught
  <2> HIDE DEF Heard
  <2> QED
    BY <1>1, <2>1 DEF Pages
<1> QED
  BY <1>0, <1>1, <1>2

\* The feed's steps, as a page takes them.
Delivered(c) ==
    /\ client[c].last # NoSeq
    /\ client[c].last + 1 =< Newest
    /\ client'[c].last = client[c].last + 1
    /\ app'[c] = [op |-> "apply", seq |-> client[c].last + 1, by |-> issued[client[c].last + 1]]

Rebased(c) ==
    /\ client'[c].last =< Newest
    /\ client[c].last # NoSeq => client'[c].last >= client[c].last
    /\ client'[c].last # NoSeq
    /\ app'[c].op = "reload" /\ app'[c].seq = client'[c].last

Left(c) == client'[c].last = NoSeq /\ app'[c] = app[c]

\* An event is passed on: it is the one after the page's position, and the
\* log's own.
LEMMA PassOnDelivers ==
    ASSUME StreamHolds, NEW c \in Conns, PassOn(c)
    PROVE  Delivered(c)
<1> DEFINE frame == Head(down[c])
           page == [Caught(c) EXCEPT !.last = frame.seq]
           command == [op |-> "apply", seq |-> frame.seq, by |-> frame.by]
<1>1. /\ down[c] # <<>> /\ frame.type = "event" /\ client[c].last \in {NoSeq, frame.seq - 1}
      /\ client' = [client EXCEPT ![c] = page] /\ app' = [app EXCEPT ![c] = command]
  BY DEF PassOn, Arrives, Tells
<1>2. frame.seq \in 1..Newest /\ frame.by = issued[frame.seq] /\ client[c].last # NoSeq
  BY <1>1, HeadFrame DEF Genuine
<1>3. client[c].last = frame.seq - 1
  BY <1>1, <1>2
<1>4. Newest \in Int
  BY LogEnd DEF StreamHolds
<1> HIDE DEF frame
<1>5. client[c].last + 1 = frame.seq /\ frame.seq =< Newest
  BY <1>2, <1>3, <1>4
<1>6. client'[c].last = frame.seq
  <2>1. page.last = frame.seq
    <3> HIDE DEF Caught
    <3> QED
      BY HeardKeeps DEF Pages
  <2> HIDE DEF page
  <2> QED
    BY <1>1, <2>1, HeardKeeps
<1>7. app'[c] = command
  <2> HIDE DEF command
  <2> QED
    BY <1>1, HeardKeeps
<1> QED
  BY <1>2, <1>5, <1>6, <1>7 DEF Delivered

\* A page told to reload is told where the log stands: not behind it.
LEMMA MarkRebases ==
    ASSUME StreamHolds, NEW c \in Conns, TurnLive(c) \/ ReloadAll(c)
    PROVE  Rebased(c) \/ Unmoved(c)
<1> DEFINE frame == Head(down[c])
           live == [Heard(c) EXCEPT !.state = "live", !.last = frame.seq, !.refusals = 0]
           command == [op |-> "reload", seq |-> frame.seq, by |-> NoOne]
<1>1. down[c] # <<>> /\ frame.type \in Marks
  BY DEF TurnLive, ReloadAll, Arrives, Marks
<1>2. /\ frame.seq \in Positions /\ frame.seq =< Newest /\ client[c].last =< frame.seq
      /\ frame.seq # NoSeq /\ client[c].last \in Int /\ frame.seq \in Int
  <2>1. frame.type \in Placed
    BY <1>1 DEF Placed
  <2>2. frame.seq \in Positions /\ frame.seq =< Newest /\ client[c].last =< frame.seq
    BY <1>1, <2>1, HeadFrame DEF Genuine
  <2>3. client[c].last \in Int
    BY HeardKeeps, LimitsAssumption DEF Pages, Positions, NoSeq
  <2> HIDE DEF frame
  <2> QED
    BY <2>2, <2>3, LimitsAssumption DEF Positions, NoSeq
<1> HIDE DEF frame
<1>3. live \in Pages /\ live.last = frame.seq
  <2>1. 0 \in 0..RefusalLimit /\ "live" \in ClientStates
    BY StreamAssumption DEF ClientStates
  <2> HIDE DEF Heard
  <2> QED
    BY ZenonT(40), <1>2, <2>1, HeardKeeps DEF Pages
<1>4. \/ \E page \in Pages : page.last = frame.seq /\ Tells(c, page, command)
      \/ Becomes(c, live) /\ client[c].last = frame.seq
  <2>1. CASE TurnLive(c)
    <3> HIDE DEF live, command, Becomes, Tells
    <3>0. client[c].last = NoSeq => ~client[c].synced
      BY HereParts DEF Route, MarkFirst
    <3> DEFINE synced == [live EXCEPT !.synced = TRUE]
    <3>1. /\ client[c].last = NoSeq \/ client[c].last >= frame.seq
          /\ IF ~client[c].synced \/ client[c].last > frame.seq
             THEN Tells(c, synced, command)
             ELSE Becomes(c, live)
      BY <2>1 DEF TurnLive, frame, live, command
    <3>2. synced \in Pages /\ synced.last = frame.seq
      BY <1>3 DEF Pages
    <3> HIDE DEF synced
    <3>3. CASE ~client[c].synced \/ client[c].last > frame.seq
      BY <3>1, <3>2, <3>3
    <3>4. CASE ~(~client[c].synced \/ client[c].last > frame.seq)
      <4>1. client[c].last = frame.seq
        BY <1>2, <3>0, <3>1, <3>4
      <4> QED
        BY <3>1, <3>4, <4>1
    <3> QED
      BY <3>3, <3>4
  <2>2. CASE ReloadAll(c)
    <3> HIDE DEF Becomes, Tells
    <3> DEFINE page == [Caught(c) EXCEPT !.last = frame.seq, !.synced = TRUE]
    <3>1. Tells(c, page, command)
      BY <2>2 DEF ReloadAll, frame
    <3>2. page \in Pages /\ page.last = frame.seq
      <4> HIDE DEF Caught
      <4> QED
        BY ZenonT(40), <1>2, HeardKeeps DEF Pages
    <3> HIDE DEF page
    <3> QED
      BY <3>1, <3>2
  <2> QED
    BY <2>1, <2>2
<1>5. command.op = "reload" /\ command.seq = frame.seq
  OBVIOUS
<1> HIDE DEF live, command
<1>6. ASSUME NEW page \in Pages, page.last = frame.seq, Tells(c, page, command)
      PROVE  Rebased(c)
  <2>1. client'[c] = page /\ app'[c] = command
    BY <1>6, HeardKeeps DEF Tells
  <2> QED
    BY <1>2, <1>5, <1>6, <2>1 DEF Rebased
<1>7. ASSUME Becomes(c, live), client[c].last = frame.seq PROVE Unmoved(c)
  BY <1>3, <1>7, HeardKeeps DEF Becomes, Unmoved
<1> QED
  BY <1>4, <1>6, <1>7


\* Whatever else a page does, it stays where it is and tells its application
\* nothing; to sign in is to start from nothing.
LEMMA RestUnmoved ==
    ASSUME StreamHolds, NEW c \in Conns, PageStep(c),
           ~PassOn(c), ~TurnLive(c), ~ReloadAll(c)
    PROVE  Unmoved(c) \/ Left(c)
<1>0. /\ client[c] \in Pages /\ client \in [Conns -> Pages] /\ app \in [Conns -> Told]
      /\ Heard(c) \in Pages /\ Heard(c).last = client[c].last
  BY HeardKeeps
<1>1. ASSUME NEW page, Becomes(c, page), page.last = client[c].last
      PROVE  Unmoved(c)
  BY <1>0, <1>1 DEF Becomes, Unmoved
<1>2. CASE DropDuplicate(c) \/ HearPong(c)
  <2>1. Becomes(c, Heard(c))
    BY <1>2 DEF DropDuplicate, HearPong
  <2> QED
    BY <1>0, <1>1, <2>1
<1>3. CASE GiveUp(c)
  <2> DEFINE page == [Heard(c) EXCEPT !.state = "backing_off"]
  <2>1. Becomes(c, page)
    BY <1>3 DEF GiveUp
  <2>2. page.last = client[c].last
    <3> HIDE DEF Heard
    <3> QED
      BY <1>0 DEF Pages
  <2> HIDE DEF page
  <2> QED
    BY <1>1, <2>1, <2>2
<1>4. CASE ToldClosed(c)
  <2> DEFINE code == Head(down[c]).code
             refusals == client[c].refusals + (IF code = "protocol" THEN 1 ELSE 0)
             next == CASE code = "signed_out" -> "signed_out"
                       [] code = "protocol" /\ refusals >= RefusalLimit -> "outdated"
                       [] OTHER -> "backing_off"
             page == [client[c] EXCEPT !.state = next, !.refusals = refusals]
  <2>1. Becomes(c, page)
    BY <1>4 DEF ToldClosed
  <2> HIDE DEF next, refusals
  <2>2. page.last = client[c].last
    BY <1>0 DEF Pages
  <2> HIDE DEF page
  <2> QED
    BY <1>1, <2>1, <2>2
<1>5. CASE FindClosed(c) \/ NotOpened(c) \/ Opened(c) \/ RetryDue(c)
  <2> DEFINE closed == [client[c] EXCEPT !.state = "backing_off"]
             refused == [client[c] EXCEPT !.state = "backing_off", !.checks = @ \cup {"asked"}]
             open == [client[c] EXCEPT !.state = "resuming"]
             again == [client[c] EXCEPT !.state = "connecting", !.awaiting = FALSE]
  <2>1. Becomes(c, closed) \/ Becomes(c, refused) \/ Becomes(c, open) \/ Becomes(c, again)
    BY <1>5 DEF FindClosed, NotOpened, Opened, RetryDue
  <2>2. /\ closed.last = client[c].last /\ refused.last = client[c].last
        /\ open.last = client[c].last /\ again.last = client[c].last
    BY <1>0 DEF Pages
  <2> HIDE DEF closed, refused, open, again
  <2> QED
    BY <1>1, <2>1, <2>2
<1>6. CASE SessionLookup(c) \/ SessionAnswer(c) \/ Hide(c) \/ Stop(c)
  <2> DEFINE asked == [client[c] EXCEPT
                 !.checks = (@ \ {"asked"}) \cup (IF session[c] THEN {} ELSE {"ended"})]
             dropped == [client[c] EXCEPT !.checks = @ \ {"ended"}]
             ended == [client[c] EXCEPT !.checks = @ \ {"ended"}, !.state = "signed_out"]
             hidden == [client[c] EXCEPT !.hidden = TRUE]
             stopped == [client[c] EXCEPT !.state = "stopped", !.timer = FALSE, !.checks = {}]
  <2>1. \/ Becomes(c, asked) \/ Becomes(c, dropped) \/ Becomes(c, ended)
        \/ Becomes(c, hidden) \/ Becomes(c, stopped)
    BY <1>6 DEF SessionLookup, SessionAnswer, Hide, Stop
  <2>2. /\ asked.last = client[c].last /\ dropped.last = client[c].last
        /\ ended.last = client[c].last /\ hidden.last = client[c].last
        /\ stopped.last = client[c].last
    BY <1>0 DEF Pages
  <2> HIDE DEF asked, dropped, ended, hidden, stopped
  <2> QED
    BY <1>1, <2>1, <2>2
<1>7. CASE Show(c)
  <2> DEFINE shown == [client[c] EXCEPT !.hidden = FALSE]
             pinging == [shown EXCEPT !.pings = @ + 1, !.awaiting = TRUE, !.timer = TRUE]
             connecting == [shown EXCEPT !.state = "connecting", !.awaiting = FALSE]
  <2>1. Becomes(c, pinging) \/ Becomes(c, connecting) \/ Becomes(c, shown)
    BY <1>7 DEF Show
  <2>2. /\ pinging.last = client[c].last /\ connecting.last = client[c].last
        /\ shown.last = client[c].last
    BY <1>0 DEF Pages
  <2> HIDE DEF shown, pinging, connecting
  <2> QED
    BY <1>1, <2>1, <2>2
<1>8. CASE PongOverdue(c)
  <2> DEFINE overdue == [client[c] EXCEPT !.timer = FALSE, !.awaiting = FALSE,
                                          !.state = "backing_off"]
             late == [client[c] EXCEPT !.timer = FALSE]
  <2>1. Becomes(c, overdue) \/ Becomes(c, late)
    BY <1>8 DEF PongOverdue
  <2>2. overdue.last = client[c].last /\ late.last = client[c].last
    BY <1>0 DEF Pages
  <2> HIDE DEF overdue, late
  <2> QED
    BY <1>1, <2>1, <2>2
<1>9. CASE Start(c)
  <2> DEFINE page == [NewClient EXCEPT !.state = "connecting", !.hidden = client[c].hidden]
  <2>1. Becomes(c, page)
    BY <1>9 DEF Start
  <2>2. page.last = NoSeq
    BY DEF NewClient
  <2> HIDE DEF page
  <2> QED
    BY <1>0, <2>1, <2>2 DEF Becomes, Left
<1> QED
  BY <1>2, <1>3, <1>4, <1>5, <1>6, <1>7, <1>8, <1>9 DEF PageStep, Hear, Connect

\* What a step of its connection is to a page: a step of the feed, or none.
LEMMA PageMoves ==
    ASSUME StreamHolds, NEW c \in Conns, OnConnection(c)
    PROVE  Unmoved(c) \/ Delivered(c) \/ Rebased(c) \/ Left(c)
<1>1. CASE GatewayStep(c) \/ Break(c) \/ DieUnseen(c) \/ Revoke(c) \/ Mangle(c)
  <2>1. UNCHANGED <<client, app>>
    BY <1>1 DEF GatewayStep, Serve, ReadResume, ReadLatest, ReadEarliest, ReplayOnePage, GoLive,
                Forward, FallBehind, AnswerPing, CheckSession, LookupFails, ResumeTimeout,
                TaskFails, ClosesWith, Break, DieUnseen, Revoke, Mangle
  <2> QED
    BY <2>1 DEF Unmoved
<1>2. CASE PageStep(c)
  BY <1>2, PassOnDelivers, MarkRebases, RestUnmoved
<1> QED
  BY <1>1, <1>2 DEF OnConnection

\* Any page is one of the pages.
LEMMA PageIsOne == Page \in Conns
<1>1. \E c \in Conns : TRUE
  BY StreamAssumption
<1> QED
  BY <1>1 DEF Page

\* The feed before any page has signed in.
LEMMA FeedStarts ==
    StreamInit => Newest = 0 /\ client[Page].last = NoSeq /\ app[Page].op = "none"
<1> SUFFICES ASSUME StreamInit
             PROVE  Newest = 0 /\ client[Page].last = NoSeq /\ app[Page].op = "none"
  OBVIOUS
<1>1. Issued = {}
  BY DEF StreamInit, Init, Issued
<1>2. client[Page] = NewClient /\ app[Page] = NoCommand
  BY PageIsOne DEF StreamInit
<1> QED
  BY <1>1, <1>2 DEF Newest, NewClient, NoCommand

\* Every step is one of the feed's, or none.
LEMMA FeedMoves ==
    ASSUME StreamHolds, ClosedIsNew, [UntrustedNext]_allVars
    PROVE  [Feed!Next]_(Feed!vars)
<1>1. Page \in Conns /\ IInv
  BY PageIsOne DEF StreamHolds
<1>2. ASSUME issued' = issued, Newest' = Newest,
             Unmoved(Page) \/ Delivered(Page) \/ Rebased(Page) \/ Left(Page)
      PROVE  [Feed!Next]_(Feed!vars)
  <2>1. CASE Unmoved(Page)
    BY <1>2, <2>1 DEF Unmoved, Feed!vars
  <2>2. CASE Delivered(Page)
    BY <1>2, <2>2 DEF Delivered, Feed!Deliver, Feed!Next
  <2>3. CASE Rebased(Page)
    BY <1>2, <2>3 DEF Rebased, Feed!Rebase, Feed!Next
  <2>4. CASE Left(Page)
    BY <1>2, <2>4 DEF Left, Feed!Leave, Feed!Next
  <2> QED
    BY <1>2, <2>1, <2>2, <2>3, <2>4
<1>3. ASSUME UNCHANGED <<client, app>> PROVE [Feed!Next]_(Feed!vars)
  <2>1. [Next]_vars
    BY StreamStep
  <2>2. /\ Newest \in Int /\ Newest' \in Int /\ Newest =< Newest'
        /\ \A s \in Seqs : s =< Newest => issued'[s] = issued[s]
        /\ Newest' = Newest => issued' = issued
    BY <1>1, <2>1, LogGrows
  <2>3. CASE Newest' = Newest
    BY <1>3, <2>2, <2>3 DEF Feed!vars
  <2>4. CASE Newest' # Newest
    <3>1. Newest' > Newest
      BY <2>2, <2>4
    <3> QED
      BY <1>3, <2>2, <3>1 DEF Feed!Grow, Feed!Next
  <2> QED
    BY <2>3, <2>4
<1>4. CASE \E c \in Conns : OnConnection(c)
  <2>1. PICK c \in Conns : OnConnection(c)
    BY <1>4
  <2>2. issued' = issued /\ Newest' = Newest
    BY <2>1, LogUnmoved
  <2>3. Unmoved(Page) \/ Delivered(Page) \/ Rebased(Page) \/ Left(Page)
    BY <1>1, <2>1, PageMoves, OthersUnmoved
  <2> QED
    BY <1>2, <2>2, <2>3
<1>5. CASE ~\E c \in Conns : OnConnection(c)
  <2>1. \/ \E w \in Writers : LogStep(w)
        \/ OtherReader \/ GatewayRestarts \/ UNCHANGED allVars
    BY <1>5 DEF UntrustedNext, StreamNext, OnConnection
  <2>2. UNCHANGED <<client, app>>
    BY <2>1 DEF LogStep, OtherReader, streamVars, GatewayRestarts, allVars
  <2> QED
    BY <1>3, <2>2
<1> QED
  BY <1>4, <1>5

\* What a page's application is given is the feed, for any number of pages and
\* any log: each event once, in order and as it was committed, or a reload at a
\* position that it has not passed (`Connection::transition`).
THEOREM PagesFollowTheFeed == UntrustedSpec => FollowsFeed
<1>1. StreamInit => Feed!Init
  BY FeedStarts DEF Feed!Init
<1>2. StreamHolds /\ ClosedIsNew /\ [UntrustedNext]_allVars => [Feed!Next]_(Feed!vars)
  BY FeedMoves
<1> QED
  BY <1>1, <1>2, StreamInvariance, PTL DEF UntrustedSpec, FollowsFeed, Feed!Spec

=============================================================================
