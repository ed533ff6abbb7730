---------------------------- MODULE LoginLimiter ----------------------------
(***************************************************************************)
(* The limit on attempts at passwords and invitation codes                 *)
(* (crates/bokkie-gateway/src/auth.rs): every attempt counts as a failure  *)
(* from its start, under one lock, and is taken back if it succeeds.  The  *)
(* counts live in memory; each change is journalled under the lock, and a  *)
(* task writes the journal to the table `login_failures`, from which a     *)
(* restart starts.                                                         *)
(*                                                                         *)
(* Names either name an account throughout or never do.  The time of an    *)
(* attempt is read when its request comes, before the lock is taken.       *)
(***************************************************************************)
EXTENDS Integers, Sequences, FiniteSets, SequencesExt

CONSTANTS
    Members,      \* usernames that name an account
    Unknown,      \* usernames that do not
    Addresses,
    Window,       \* WINDOW_MS
    PerAccount, PerAddress, MaxKeys,
    MaxTime, MaxAttempts, MaxFaults   \* bounds; faults: restarts, failed writes

VARIABLES
    now,
    failures,   \* the keys tracked, and the times of their attempts
    journal,    \* the changes not yet written
    stored,     \* the rows of `login_failures`
    attempts,   \* the attempts counted; `counts` are the keys it should still count for
    faults,
    exact       \* no code keeps it: no write failed since the last restart

vars == <<now, failures, journal, stored, attempts, faults, exact>>

Init ==
    /\ now = 0
    /\ failures = <<>> /\ journal = <<>> /\ stored = <<>> /\ attempts = <<>>
    /\ faults = 0 /\ exact = TRUE

\* What an attempt is limited by (`Attempting`).
Attempting ==
    {[kind |-> "signIn", name |-> n, address |-> a] : n \in Members \cup Unknown, a \in Addresses}
    \cup {[kind |-> "invitation", name |-> "", address |-> a] : a \in Addresses}
    \cup {[kind |-> "password", name |-> n, address |-> ""] : n \in Members}

\* A key: whether success clears it entirely, or takes one attempt back, and
\* whether its count is stored.
KeyOf(what, of, limit) ==
    [name |-> <<what, of>>, limit |-> limit, clear |-> what # "a", stored |-> of \notin Unknown]

KeysOf(t) ==
    CASE t.kind = "signIn" -> {KeyOf("u", t.name, PerAccount), KeyOf("a", t.address, PerAddress)}
      [] t.kind = "invitation" -> {KeyOf("a", t.address, PerAddress)}
      [] t.kind = "password" -> {KeyOf("p", t.name, PerAccount)}

Expired(at, time) == time - at >= Window

\* The times left once those that expired are popped from the front.
Popped(times, time) ==
    LET live == {i \in DOMAIN times : ~Expired(times[i], time)}
    IN  IF live = {} THEN <<>> ELSE SubSeq(times, Min(live), Len(times))

TimesOf(f, key) == IF key \in DOMAIN f THEN f[key] ELSE <<>>

Without(f, keys) == [k \in DOMAIN f \ keys |-> f[k]]

AtLimit(f, key, time) == Len(Popped(TimesOf(f, key.name), time)) >= key.limit

\* The keys that may make room for `n` more, once the expired are gone: the
\* oldest, in any order of those that are as old.
Latest(f, k) == IF f[k] = <<>> THEN -1 ELSE Last(f[k])
Evictable(f, n) ==
    {ks \in SUBSET DOMAIN f :
        /\ Cardinality(ks) = Max({0, Cardinality(DOMAIN f) + n - MaxKeys})
        /\ \A k \in ks, l \in DOMAIN f \ ks : Latest(f, k) =< Latest(f, l)}

Tracked(f, n, time) ==
    IF Cardinality(DOMAIN f) + n =< MaxKeys THEN DOMAIN f
    ELSE {k \in DOMAIN f : f[k] # <<>> /\ ~Expired(Last(f[k]), time)}

\* Mutant: the keys that make room are not journalled.
ClearsUnsaid(keys) == <<>>

Clears(keys) == [i \in 1..Cardinality(keys) |-> [change |-> "cleared", key |-> SetToSeq(keys)[i]]]

\* The attempts once they no longer count for the keys.
Uncounted(keys) == [i \in DOMAIN attempts |-> [attempts[i] EXCEPT !.counts = @ \ keys]]

\* The times tracked, those of the keys looked at without what expired.
PoppedOf(keys, at) ==
    [k \in DOMAIN failures |-> IF k \in keys THEN Popped(failures[k], at) ELSE failures[k]]

\* An attempt is refused, as one of its keys is at its limit: the account's is
\* looked at before the address's.
Refuse(t, at) ==
    LET own == {k \in KeysOf(t) : k.clear}
        looked == IF \E k \in own : AtLimit(failures, k, at) THEN own ELSE KeysOf(t)
    IN  /\ \E k \in KeysOf(t) : AtLimit(failures, k, at)
        /\ failures' = PoppedOf({k.name : k \in looked}, at)
        /\ UNCHANGED <<now, journal, stored, attempts, faults, exact>>

\* An attempt whose clock was read at `at` is counted (`begin`). One that
\* fails changes nothing, and stays open here.
Begin(t, at) ==
    LET keys == KeysOf(t)
        names == {k.name : k \in keys}
        popped == PoppedOf(names, at)
        kept == [k \in Tracked(popped, Cardinality(keys), at) |-> popped[k]]
    IN  /\ Len(attempts) < MaxAttempts
        /\ \A k \in keys : ~AtLimit(failures, k, at)
        /\ \E evicted \in Evictable(kept, Cardinality(keys)) :
              /\ attempts' = Append(Uncounted(evicted),
                                    [t |-> t, at |-> at, state |-> "open", counts |-> names])
              /\ failures' = [k \in (DOMAIN kept \ evicted) \cup names |->
                                 IF k \in names THEN Append(TimesOf(Without(kept, evicted), k), at)
                                 ELSE kept[k]]
              /\ journal' = journal \o Clears(evicted) \o
                    <<[change |-> "counted", at |-> at,
                       keys |-> {k.name : k \in {l \in keys : l.stored}}]>>
        /\ UNCHANGED <<now, stored, faults, exact>>

FirstAt(times, at) == CHOOSE j \in DOMAIN times : times[j] = at /\ \A l \in 1..(j - 1) : times[l] # at

\* What the journal is told of a shared key's success.
TakesBack(k, at) == IF k.stored THEN <<[change |-> "takenBack", key |-> k.name, at |-> at]>> ELSE <<>>

\* A success takes its attempt back: an account's own key forgets all its
\* failures, an address's only this one (`succeeded`).
Succeeds(i) ==
    LET a == attempts[i]
        keys == KeysOf(a.t)
        cleared == {k \in keys : k.clear}
        back == {k \in keys \ cleared : \E j \in DOMAIN TimesOf(failures, k.name) :
                                            failures[k.name][j] = a.at}
    IN  /\ a.state = "open" /\ a.t.name \notin Unknown
        /\ attempts' = [Uncounted({k.name : k \in cleared}) EXCEPT
                           ![i].state = "succeeded", ![i].counts = {}]
        /\ failures' = [k \in DOMAIN failures \ {c.name : c \in cleared} |->
                           IF k \in {b.name : b \in back}
                           THEN RemoveAt(failures[k], FirstAt(failures[k], a.at))
                           ELSE failures[k]]
        /\ journal' = journal \o Clears({k.name : k \in cleared})
                          \o FlattenSeq([j \in 1..Cardinality(back) |-> TakesBack(SetToSeq(back)[j], a.at)])
        /\ UNCHANGED <<now, stored, faults, exact>>

-----------------------------------------------------------------------------
(* The journal *)

\* The table once a change was written (`record`).
Recorded(rows, c) ==
    CASE c.change = "counted" /\ c.keys # {} ->
             SelectSeq(rows \o SetToSeq({[key |-> k, at |-> c.at] : k \in c.keys}),
                       LAMBDA r : r.at > c.at - Window)
      [] c.change = "counted" /\ c.keys = {} -> rows
      [] c.change = "cleared" -> SelectSeq(rows, LAMBDA r : r.key # c.key)
      [] c.change = "takenBack" ->
             LET mine == {j \in DOMAIN rows : rows[j] = [key |-> c.key, at |-> c.at]}
             IN  IF mine = {} THEN rows
                 ELSE RemoveAt(rows, CHOOSE j \in mine : \A l \in mine : j =< l)

\* The journal's next change is written, or the write fails and is left out.
Write(ok) ==
    /\ journal # <<>>
    /\ journal' = Tail(journal)
    /\ stored' = IF ok THEN Recorded(stored, Head(journal)) ELSE stored
    /\ exact' = (exact /\ ok)
    /\ IF ok THEN UNCHANGED faults ELSE faults < MaxFaults /\ faults' = faults + 1
    /\ UNCHANGED <<now, failures, attempts>>

\* The gateway restarts: what is stored and in the window is counted, and
\* what was not written, or not stored, is gone (`persistent`).
Restart ==
    LET rows == SelectSeq(stored, LAMBDA r : r.at > now - Window)
        kept == IF exact /\ journal = <<>> THEN {r.key : r \in Range(rows)} ELSE {}
    IN  /\ faults < MaxFaults /\ faults' = faults + 1
        /\ stored' = rows
        /\ failures' = [k \in {r.key : r \in Range(rows)} |->
                           LET mine == SelectSeq(rows, LAMBDA r : r.key = k)
                           IN  SortSeq([j \in DOMAIN mine |-> mine[j].at], <)]
        /\ journal' = <<>> /\ exact' = TRUE
        /\ attempts' = [j \in DOMAIN attempts |->
                           [attempts[j] EXCEPT !.counts = @ \cap kept,
                                !.state = IF @ = "open" THEN "gone" ELSE @]]
        /\ UNCHANGED now

Clock == now < MaxTime /\ now' = now + 1
         /\ UNCHANGED <<failures, journal, stored, attempts, faults, exact>>

Next ==
    \/ \E t \in Attempting, at \in {now - 1, now} \cap Nat : Begin(t, at) \/ Refuse(t, at)
    \/ \E i \in DOMAIN attempts : Succeeds(i)
    \/ \E ok \in BOOLEAN : Write(ok)
    \/ Restart
    \/ Clock

Spec == Init /\ [][Next]_vars

-----------------------------------------------------------------------------
(* Correctness *)

\* However many attempts run at once, no key has more of them within the
\* window, open or failed, than its limit, those aside that a success or
\* the bound on keys forgot; a restart that lost nothing forgets none that is
\* stored (`begin`).
LimitKept ==
    \A t \in Attempting : \A k \in KeysOf(t) :
        Cardinality({i \in DOMAIN attempts : k.name \in attempts[i].counts
                                             /\ attempts[i].at > now - Window}) =< k.limit

\* Once the journal is written out, what is stored of the window is what is
\* counted, so that a restart changes no limit: the order of the changes is
\* that of the counts (`LoginLimiter`).
StoredAsCounted ==
    exact /\ journal = <<>> =>
        \A t \in Attempting : \A k \in {l \in KeysOf(t) : l.stored} : \A at \in (now - Window + 1)..now :
            Len(SelectSeq(TimesOf(failures, k.name), LAMBDA x : x = at))
                = Len(SelectSeq(stored, LAMBDA r : r = [key |-> k.name, at |-> at]))

=============================================================================
