---------------------------- MODULE PushProofs ----------------------------
(***************************************************************************)
(* What the notifications' pushes guarantee for any number of runs, turns, *)
(* devices and subscriptions, any hourly limit and any page of the sender. *)
(***************************************************************************)
EXTENDS Push, Extrema, FiniteSetTheorems

States == {"queued", "merged", "expired", "disabled", "shown", "unsubscribed", "limited",
           "sending", "sent", "failed", "deleted"}
Causes == {"notify", "run", "pause", "failure", "miss"}
Hows == {"succeeded", "failed", "paused", "stopped", "interrupted"}

Rows == [cause : Causes, note : Nat, state : States, created : Nat, sent : Nat]
Notes == [turn : Nat, run : 0..MaxRuns, kind : Kinds, created : Nat]
RunRows == [state : {"waiting", "running", "ended"}, turn : Nat, over : Hows \cup {"no"}]
Claims == [push : Nat, note : Nat, at : Nat]

TypeOK ==
    /\ now \in Nat
    /\ account \in [disabled : BOOLEAN, bot : BOOLEAN]
    /\ run \in [RunIds -> RunRows]
    /\ turn \in [open : Nat, last : Nat]
    /\ calls \in SUBSET Nat
    /\ notes \in Seq(Notes)
    /\ pushes \in Seq(Rows)
    /\ sender \in [on : BOOLEAN, page : SUBSET Nat, after : Nat]
    /\ claims \in Seq(Claims)

\* The sender holds rows; turns are numbered from 1.
InRange ==
    /\ sender.page \subseteq DOMAIN pushes
    /\ turn.open =< turn.last
    /\ \A t \in calls : t \in 1..turn.last
    /\ \A n \in DOMAIN notes : notes[n].turn \in 1..turn.last

\* A notification's run is recorded in its turn.
RunsOwnNotes ==
    \A n \in DOMAIN notes, r \in RunIds :
        notes[n].run = r => run[r].turn = notes[n].turn /\ run[r].state # "waiting"

\* The notifications of a turn whose run goes on are younger than a day.
Young ==
    \A n \in DOMAIN notes, r \in RunIds :
        run[r].turn = notes[n].turn /\ run[r].state # "ended" => now - notes[n].created < Day

\* Only a day later is a row deleted while its Bot is there, and all are with it.
Deleted ==
    \A p \in DOMAIN pushes :
        /\ ~account.bot => pushes[p].state = "deleted"
        /\ account.bot /\ pushes[p].state = "deleted" => pushes[p].created =< now - Day

\* A push of a notification's own is as old as it, and the push of a run that
\* carries a notification is that of its run, which ended.
Carries ==
    \A p \in DOMAIN pushes :
        /\ pushes[p].note \in 0..Len(notes)
        /\ pushes[p].cause = "notify" =>
               pushes[p].note # None /\ pushes[p].created = notes[pushes[p].note].created
        /\ pushes[p].cause # "notify" /\ pushes[p].note # None =>
               \E r \in RunIds : notes[pushes[p].note].run = r /\ run[r].state = "ended"

\* The push that was sent is in its row until that is deleted.
ClaimsAreRows ==
    \A i \in DOMAIN claims :
        /\ claims[i].push \in DOMAIN pushes
        /\ claims[i].at =< now
        /\ LET push == pushes[claims[i].push]
           IN  /\ push.state \in {"sending", "sent", "failed", "deleted"}
               /\ push.note = claims[i].note
               /\ push.sent = claims[i].at
               /\ claims[i].at - push.created < Hour

\* A row is claimed once.
ClaimedOnce ==
    \A i, j \in DOMAIN claims : i # j => claims[i].push # claims[j].push

\* Of two rows with one notification, one is the notification's own and was
\* left to the other before it was claimed.
LeftTo(p) ==
    /\ pushes[p].cause = "notify"
    /\ pushes[p].state \in {"merged", "deleted"}
    /\ \A i \in DOMAIN claims : claims[i].push # p

Apart ==
    \A p, q \in DOMAIN pushes :
        p # q /\ pushes[p].note = pushes[q].note /\ pushes[p].note # None =>
            LeftTo(p) \/ LeftTo(q)

IInv ==
    /\ TypeOK /\ InRange
    /\ RunsOwnNotes /\ Young
    /\ Deleted /\ Carries
    /\ ClaimsAreRows /\ ClaimedOnce /\ Apart
    /\ NoneStranded /\ HourlyLimitKept

-----------------------------------------------------------------------------

\* What becomes of a row when a run ends or the gateway restarts: nothing but
\* its state changes, if it was queued or being delivered.
RowStep(x, y) ==
    /\ y.cause = x.cause /\ y.note = x.note /\ y.created = x.created /\ y.sent = x.sent
    /\ \/ y.state = x.state
       \/ x.state = "queued" /\ y.state = "merged"
       \/ x.state = "sending" /\ y.state = "failed"

\* The rows `qs` are `ps` once run r ended, whose notifications are in `ns`:
\* there is one more at most, which carries one of them that no push of its own
\* was sent for.
EndedFrom(r, ps, ns, qs) ==
    /\ qs \in Seq(Rows)
    /\ Len(qs) \in {Len(ps), Len(ps) + 1}
    /\ \A p \in 1..Len(ps) : RowStep(ps[p], qs[p])
    /\ Len(qs) = Len(ps) + 1 =>
          LET new == qs[Len(qs)]
          IN  /\ account.bot
              /\ new.state = "queued" /\ new.created = now /\ new.cause # "notify"
              /\ new.note \in 0..Len(ns)
              /\ new.note # None =>
                    /\ ns[new.note].run = r
                    /\ \A p \in 1..Len(ps) :
                          qs[p].cause = "notify" /\ qs[p].note = new.note =>
                              qs[p].state \in {"merged", "deleted"}

\* Marking the run's queued notifications keeps the rows otherwise.
LEMMA MergedKeeps ==
    ASSUME NEW r \in RunIds, NEW ps \in Seq(Rows), NEW ns \in Seq(Notes)
    PROVE  /\ Merged(r, ps, ns) \in Seq(Rows)
           /\ Len(Merged(r, ps, ns)) = Len(ps)
           /\ \A p \in 1..Len(ps) : RowStep(ps[p], Merged(r, ps, ns)[p])
<1> DEFINE M == Merged(r, ps, ns)
<1>1. /\ DOMAIN ps = 1..Len(ps) /\ Len(ps) \in Nat
      /\ \A p \in 1..Len(ps) : ps[p] \in Rows
    OBVIOUS
<1>2. \A p \in 1..Len(ps) : RowStep(ps[p], M[p])
    <2> SUFFICES ASSUME NEW p \in 1..Len(ps) PROVE RowStep(ps[p], M[p])
        OBVIOUS
    <2>1. \/ M[p] = ps[p]
          \/ /\ ps[p].state = "queued" /\ ps[p].cause = "notify"
             /\ M[p] = [ps[p] EXCEPT !.state = "merged"]
        BY <1>1, Zenon DEF Merged
    <2>2. ps[p] \in Rows
        BY <1>1
    <2> HIDE DEF M
    <2> QED BY <2>1, <2>2 DEF Rows, RowStep
<1>3. \A p \in 1..Len(ps) : M[p] \in Rows
    <2> SUFFICES ASSUME NEW p \in 1..Len(ps) PROVE M[p] \in Rows
        OBVIOUS
    <2>1. \/ M[p] = ps[p]
          \/ M[p] = [ps[p] EXCEPT !.state = "merged"]
        BY <1>1, Zenon DEF Merged
    <2>2. ps[p] \in Rows
        BY <1>1
    <2> HIDE DEF M
    <2> QED BY <2>1, <2>2 DEF Rows, States
<1>4. M = [p \in 1..Len(ps) |-> M[p]]
    BY <1>1 DEF Merged
<1>5. M \in Seq(Rows) /\ Len(M) = Len(ps)
    <2> HIDE DEF M
    <2> QED BY <1>1, <1>3, <1>4
<1> QED BY <1>2, <1>5

\* The notification a run's push carries is one of its own, or none.
LEMMA RunNotificationIsOwn ==
    ASSUME NEW r \in RunIds, NEW ns \in Seq(Notes)
    PROVE  /\ RunNotification(r, ns) \in 0..Len(ns)
           /\ RunNotification(r, ns) # None => ns[RunNotification(r, ns)].run = r
<1> DEFINE mine == {n \in DOMAIN ns : ns[n].run = r}
           asks == {n \in mine : ns[n].kind = "question"}
           S == (IF asks # {} THEN asks ELSE mine) \cup {None}
<1>1. Len(ns) \in Nat /\ DOMAIN ns = 1..Len(ns)
    OBVIOUS
<1>2. S \in SUBSET (0..Len(ns)) /\ S # {}
    BY <1>1 DEF None
<1>3. RunNotification(r, ns) = Max(S)
    BY DEF RunNotification
<1>4. Max(S) \in S
    <2> HIDE DEF S
    <2> QED BY <1>1, <1>2, MaxIsLargest
<1> QED BY <1>2, <1>3, <1>4

\* Queueing adds one row, or none.
LEMMA QueuedShape ==
    ASSUME NEW ps \in Seq(Rows), NEW cause \in Causes, NEW note \in Nat, now \in Nat
    PROVE  \/ Queued(ps, cause, note) = ps
           \/ /\ account.bot
              /\ Queued(ps, cause, note) \in Seq(Rows)
              /\ Len(Queued(ps, cause, note)) = Len(ps) + 1
              /\ \A p \in 1..Len(ps) : Queued(ps, cause, note)[p] = ps[p]
              /\ Queued(ps, cause, note)[Len(ps) + 1]
                     = [cause |-> cause, note |-> note, state |-> "queued",
                        created |-> now, sent |-> 0]
<1> DEFINE new == [cause |-> cause, note |-> note, state |-> "queued",
                   created |-> now, sent |-> 0]
<1>1. new \in Rows
    BY DEF Rows, States
<1>2. CASE account.disabled \/ ~account.bot
    BY <1>2 DEF Queued
<1>3. CASE ~(account.disabled \/ ~account.bot)
    <2>1. Queued(ps, cause, note) = Append(ps, new)
        BY <1>3 DEF Queued
    <2> HIDE DEF new
    <2>2. /\ Append(ps, new) \in Seq(Rows)
          /\ Len(Append(ps, new)) = Len(ps) + 1
          /\ \A p \in 1..Len(ps) : Append(ps, new)[p] = ps[p]
          /\ Append(ps, new)[Len(ps) + 1] = new
        BY <1>1
    <2> QED BY <2>1, <2>2, <1>3 DEF new
<1> QED BY <1>2, <1>3

\* What `run_ended` does to the rows.
LEMMA RunEndedShape ==
    ASSUME NEW r \in RunIds, NEW state \in Hows \cup {"missed", "disabled"},
           NEW every \in BOOLEAN, NEW ps \in Seq(Rows), NEW ns \in Seq(Notes), now \in Nat
    PROVE  EndedFrom(r, ps, ns, RunEnded(r, state, every, ps, ns))
<1> DEFINE M == Merged(r, ps, ns)
           note == RunNotification(r, ns)
           carried == IF note # None /\ ~SentAlone(note, M) THEN note ELSE None
           qs == RunEnded(r, state, every, ps, ns)
<1>1. /\ M \in Seq(Rows) /\ Len(M) = Len(ps)
      /\ \A p \in 1..Len(ps) : RowStep(ps[p], M[p])
    BY MergedKeeps
<1>2. note \in 0..Len(ns) /\ (note # None => ns[note].run = r)
    BY RunNotificationIsOwn
<1>3. \/ qs = M
      \/ \E cause \in Causes \ {"notify"}, n \in {carried, None} : qs = Queued(M, cause, n)
    BY DEF RunEnded, Hows, Causes
<1>4. carried \in 0..Len(ns) /\ carried \in Nat
    BY <1>2 DEF None
<1>5. carried # None => ns[carried].run = r /\ ~SentAlone(carried, M)
    BY <1>2
<1> HIDE DEF M, carried, qs, note
<1>6. CASE qs = M
    BY <1>1, <1>6 DEF EndedFrom, qs
<1>7. ASSUME NEW cause \in Causes \ {"notify"}, NEW n \in {carried, None}, qs = Queued(M, cause, n)
      PROVE  EndedFrom(r, ps, ns, qs)
    <2>1. n \in 0..Len(ns) /\ n \in Nat /\ 0 \in 0..Len(ns)
        BY <1>4 DEF None
    <2>2. \/ qs = M
          \/ /\ account.bot
             /\ qs \in Seq(Rows)
             /\ Len(qs) = Len(ps) + 1
             /\ \A p \in 1..Len(ps) : qs[p] = M[p]
             /\ qs[Len(ps) + 1] = [cause |-> cause, note |-> n, state |-> "queued",
                                   created |-> now, sent |-> 0]
        BY <1>1, <1>7, <2>1, QueuedShape
    <2>3. CASE qs = M
        BY <1>1, <2>3 DEF EndedFrom
    <2>4. CASE qs # M
        <3>1. n # None => \A p \in 1..Len(ps) :
                  qs[p].cause = "notify" /\ qs[p].note = n => qs[p].state \in {"merged", "deleted"}
            <4>1. DOMAIN M = 1..Len(ps)
                BY <1>1
            <4> QED BY SMTT(30), <4>1, <1>5, <2>2, <2>4 DEF SentAlone
        <3>2. n # None => ns[n].run = r
            BY <1>5
        <3> QED BY <1>1, <2>1, <2>2, <2>4, <3>1, <3>2 DEF EndedFrom
    <2> QED BY <2>3, <2>4
<1> QED BY <1>3, <1>6, <1>7 DEF qs

\* Taking what a stopped gateway delivered for failed keeps the rows otherwise.
LEMMA RecoveredKeeps ==
    ASSUME NEW ps \in Seq(Rows)
    PROVE  /\ Recovered(ps) \in Seq(Rows)
           /\ Len(Recovered(ps)) = Len(ps)
           /\ \A p \in 1..Len(ps) : /\ RowStep(ps[p], Recovered(ps)[p])
                                    /\ Recovered(ps)[p].state # "sending"
<1> DEFINE R == Recovered(ps)
<1>1. /\ DOMAIN ps = 1..Len(ps) /\ Len(ps) \in Nat
      /\ \A p \in 1..Len(ps) : ps[p] \in Rows
    OBVIOUS
<1>2. ASSUME NEW p \in 1..Len(ps)
      PROVE  R[p] \in Rows /\ RowStep(ps[p], R[p]) /\ R[p].state # "sending"
    <2>1. \/ R[p] = ps[p] /\ ps[p].state # "sending"
          \/ ps[p].state = "sending" /\ R[p] = [ps[p] EXCEPT !.state = "failed"]
        BY <1>1, Zenon DEF Recovered
    <2>2. ps[p] \in Rows
        BY <1>1
    <2> HIDE DEF R
    <2> QED BY <2>1, <2>2 DEF Rows, States, RowStep
<1>3. R = [p \in 1..Len(ps) |-> R[p]]
    BY <1>1 DEF Recovered
<1>4. R \in Seq(Rows) /\ Len(R) = Len(ps)
    <2> HIDE DEF R
    <2> QED BY <1>1, <1>2, <1>3
<1> QED BY <1>2, <1>4

-----------------------------------------------------------------------------

\* What most steps do to what the invariant is about: the rows and the
\* notifications change at most as they do when run r ends, which then is
\* recorded in its turn if it was not.
Ending(r) ==
    /\ now' = now /\ account'.bot = account.bot /\ claims' = claims
    /\ Len(notes') = Len(notes)
    /\ \A n \in 1..Len(notes) :
          /\ notes'[n].turn = notes[n].turn /\ notes'[n].created = notes[n].created
          /\ notes'[n].run # notes[n].run =>
                notes[n].run = None /\ notes'[n].run = r /\ run[r].turn = notes[n].turn
    /\ \A q \in RunIds : run[q].state = "ended" => run'[q].state = "ended"
    /\ EndedFrom(r, pushes, notes', pushes')
    /\ Len(pushes') # Len(pushes) =>
          r \in RunIds /\ run[r].state # "ended" /\ run'[r].state = "ended"

\* Such a step keeps what a row says of its notification and of its claim.
LEMMA EndingKeeps ==
    ASSUME TypeOK, Deleted, Carries, ClaimsAreRows,
           NEW r \in 0..MaxRuns, Ending(r), notes' \in Seq(Notes)
    PROVE  Deleted' /\ Carries' /\ ClaimsAreRows'
<1>1. /\ Len(pushes) \in Nat /\ DOMAIN pushes = 1..Len(pushes)
      /\ Len(notes) \in Nat /\ DOMAIN notes = 1..Len(notes)
      /\ DOMAIN claims = 1..Len(claims) /\ now \in Nat
      /\ \A p \in 1..Len(pushes) : pushes[p] \in Rows
      /\ \A n \in 1..Len(notes) : notes[n] \in Notes
    <2> HIDE DEF Rows, Notes, Claims
    <2> QED BY DEF TypeOK
<1>2. /\ Len(pushes') \in Nat /\ DOMAIN pushes' = 1..Len(pushes')
      /\ DOMAIN notes' = 1..Len(notes)
      /\ \A p \in 1..Len(pushes') : pushes'[p] \in Rows
    BY DEF Ending, EndedFrom
<1>0. Day \in Nat /\ Day > 0
    BY SMTT(30), PushAssumption
<1>3. \A p \in 1..Len(pushes) : RowStep(pushes[p], pushes'[p])
    BY DEF Ending, EndedFrom
<1>7. Len(pushes) \in Nat /\ Len(pushes') \in Nat
    BY <1>1, <1>2
<1>8. Len(pushes') \in {Len(pushes), Len(pushes) + 1}
    BY DEF Ending, EndedFrom
<1>4. Deleted'
    <2> SUFFICES ASSUME NEW p \in 1..Len(pushes')
                 PROVE  /\ ~account'.bot => pushes'[p].state = "deleted"
                        /\ account'.bot /\ pushes'[p].state = "deleted"
                              => pushes'[p].created =< now' - Day
        BY <1>2 DEF Deleted
    <2>1. CASE p \in 1..Len(pushes)
        BY SMTT(30), <1>1, <1>3, <2>1 DEF Deleted, Ending, RowStep
    <2>2. CASE p \notin 1..Len(pushes)
        <3>1. p = Len(pushes') /\ Len(pushes') = Len(pushes) + 1
            BY <1>7, <1>8, <2>2
        <3>2. account.bot /\ pushes'[p].state = "queued"
            BY <3>1 DEF Ending, EndedFrom
        <3> QED BY <3>2 DEF Ending
    <2> QED BY <2>1, <2>2
<1>5. Carries'
    <2> SUFFICES ASSUME NEW p \in 1..Len(pushes')
                 PROVE  /\ pushes'[p].note \in 0..Len(notes')
                        /\ pushes'[p].cause = "notify" =>
                              /\ pushes'[p].note # None
                              /\ pushes'[p].created = notes'[pushes'[p].note].created
                        /\ pushes'[p].cause # "notify" /\ pushes'[p].note # None =>
                              \E q \in RunIds : /\ notes'[pushes'[p].note].run = q
                                                /\ run'[q].state = "ended"
        BY <1>2 DEF Carries
    <2>1. CASE p \in 1..Len(pushes)
        <3> DEFINE n == pushes[p].note
        <3>1. /\ n \in 0..Len(notes)
              /\ pushes[p].cause = "notify" =>
                     n # None /\ pushes[p].created = notes[n].created
              /\ pushes[p].cause # "notify" /\ n # None =>
                     \E q \in RunIds : notes[n].run = q /\ run[q].state = "ended"
            BY <1>1, <2>1 DEF Carries
        <3>2. /\ pushes'[p].note = n /\ pushes'[p].cause = pushes[p].cause
              /\ pushes'[p].created = pushes[p].created
            BY <1>3, <2>1 DEF RowStep
        <3>3. n # None => n \in 1..Len(notes)
            BY <3>1, <1>1 DEF None
        <3>4. \A q \in RunIds : q # None
            BY DEF RunIds, None
        <3> HIDE DEF n
        <3> QED BY <3>1, <3>2, <3>3, <3>4 DEF Ending
    <2>2. CASE p \notin 1..Len(pushes)
        <3>1. p = Len(pushes') /\ Len(pushes') = Len(pushes) + 1 /\ Len(pushes') # Len(pushes)
            BY <1>7, <1>8, <2>2
        <3>2. /\ pushes'[p].cause # "notify"
              /\ pushes'[p].note \in 0..Len(notes')
              /\ pushes'[p].note # None => notes'[pushes'[p].note].run = r
              /\ r \in RunIds /\ run'[r].state = "ended"
            BY <3>1 DEF Ending, EndedFrom
        <3> QED BY <3>2
    <2> QED BY <2>1, <2>2
<1>6. ClaimsAreRows'
    <2> SUFFICES ASSUME NEW i \in 1..Len(claims)
                 PROVE  LET p == claims[i].push
                        IN  /\ p \in DOMAIN pushes' /\ claims[i].at =< now
                            /\ pushes'[p].state \in {"sending", "sent", "failed", "deleted"}
                            /\ pushes'[p].note = claims[i].note
                            /\ pushes'[p].sent = claims[i].at
                            /\ claims[i].at - pushes'[p].created < Hour
        BY <1>1 DEF Ending, ClaimsAreRows
    <2> DEFINE p == claims[i].push
    <2>1. /\ p \in 1..Len(pushes) /\ claims[i].at =< now
          /\ pushes[p].state \in {"sending", "sent", "failed", "deleted"}
          /\ pushes[p].note = claims[i].note /\ pushes[p].sent = claims[i].at
          /\ claims[i].at - pushes[p].created < Hour
        BY <1>1 DEF ClaimsAreRows
    <2>2. RowStep(pushes[p], pushes'[p])
        BY <1>3, <2>1
    <2>3. p \in DOMAIN pushes'
        <3> HIDE DEF p
        <3>1. p \in 1..Len(pushes')
            BY <1>7, <1>8, <2>1
        <3> QED BY <1>2, <3>1
    <2> HIDE DEF p
    <2> QED BY <2>1, <2>2, <2>3 DEF RowStep, p
<1> QED BY <1>4, <1>5, <1>6

\* The new row of a run carries a notification that no other row will be sent
\* for: its own push, if it has one, was left to this row, since it was neither
\* sent before nor, being younger than a day, deleted after that.
LEMMA EndingApart ==
    ASSUME TypeOK, RunsOwnNotes, Young, Deleted, Carries, ClaimsAreRows, Apart,
           NEW r \in 0..MaxRuns, Ending(r), notes' \in Seq(Notes)
    PROVE  Apart'
<1>1. /\ Len(pushes) \in Nat /\ DOMAIN pushes = 1..Len(pushes)
      /\ Len(notes) \in Nat /\ DOMAIN notes = 1..Len(notes)
      /\ DOMAIN claims = 1..Len(claims) /\ now \in Nat
    BY DEF TypeOK
<1>2. /\ \A p \in 1..Len(pushes) : pushes[p] \in Rows
      /\ \A n \in 1..Len(notes) : notes[n] \in Notes
    <2> HIDE DEF Rows, Notes, Claims
    <2> QED BY SMTT(30) DEF TypeOK
<1>3. /\ Len(pushes') \in Nat /\ DOMAIN pushes' = 1..Len(pushes')
      /\ Len(pushes') \in {Len(pushes), Len(pushes) + 1}
    BY DEF Ending, EndedFrom
<1>4. \A p \in 1..Len(pushes) : RowStep(pushes[p], pushes'[p])
    BY DEF Ending, EndedFrom
<1>12. /\ Len(pushes) \in Nat /\ Len(pushes') \in Nat
       /\ Len(pushes') \in {Len(pushes), Len(pushes) + 1}
    BY <1>1, <1>3
<1>5. \A p \in 1..Len(pushes) : LeftTo(p) => LeftTo(p)'
    BY <1>4 DEF LeftTo, RowStep, Ending
<1>6. ASSUME NEW p \in 1..Len(pushes), Len(pushes') = Len(pushes) + 1,
             pushes'[p].note = pushes'[Len(pushes')].note, pushes'[p].note # None
      PROVE  LeftTo(p)'
    <2> DEFINE n == pushes[p].note
    <2>1. /\ account.bot /\ n # None /\ n = pushes'[Len(pushes')].note
          /\ notes'[n].run = r
          /\ pushes'[p].cause = "notify" => pushes'[p].state \in {"merged", "deleted"}
          /\ r \in RunIds /\ run[r].state # "ended"
        <3>1. pushes'[p].note = n
            BY <1>4, <1>6 DEF RowStep
        <3>2. Len(pushes') # Len(pushes)
            BY <1>12, <1>6
        <3> QED BY <1>6, <3>1, <3>2 DEF Ending, EndedFrom
    <2>2. n \in 1..Len(notes)
        BY SMTT(30), <2>1, <1>1 DEF Carries, None
    <2>3. r # None
        BY <2>1 DEF RunIds, None
    <2>4. \/ notes[n].run = r
          \/ notes[n].run = None /\ run[r].turn = notes[n].turn
        BY <2>1, <2>2 DEF Ending
    <2>5. run[r].turn = notes[n].turn
        BY <1>1, <2>1, <2>2, <2>4 DEF RunsOwnNotes
    <2>6. now - notes[n].created < Day
        BY <1>1, <2>1, <2>2, <2>5 DEF Young
    <2>7. pushes[p].cause = "notify"
        <3>1. SUFFICES ASSUME pushes[p].cause # "notify" PROVE FALSE
            OBVIOUS
        <3>2. PICK q \in RunIds : notes[n].run = q /\ run[q].state = "ended"
            BY <1>1, <2>1, <3>1 DEF Carries
        <3>3. q = r
            BY <2>4, <3>2 DEF RunIds, None
        <3> QED BY <2>1, <3>2, <3>3
    <2>8. pushes'[p].cause = "notify" /\ pushes'[p].state \in {"merged", "deleted"}
        BY <1>4, <2>1, <2>7 DEF RowStep
    <2>9. pushes[p].state # "deleted"
        <3>1. pushes[p].created = notes[n].created
            BY <1>1, <2>7 DEF Carries
        <3>2. pushes[p].state = "deleted" => notes[n].created =< now - Day
            BY <1>1, <2>1, <3>1 DEF Deleted
        <3>3. notes[n].created \in Nat /\ now \in Nat /\ Day \in Nat
            BY <1>1, <1>2, <2>2, PushAssumption DEF Notes
        <3> HIDE DEF n
        <3> QED BY <2>6, <3>2, <3>3
    <2>10. pushes[p].state \in {"queued", "merged"}
        BY <1>4, <2>8, <2>9 DEF RowStep
    <2>11. \A i \in DOMAIN claims : claims[i].push # p
        BY SMTT(30), <2>10 DEF ClaimsAreRows
    <2> QED BY <2>8, <2>11 DEF LeftTo, Ending
<1>7. SUFFICES ASSUME NEW p \in 1..Len(pushes'), NEW q \in 1..Len(pushes'), p # q,
                      pushes'[p].note = pushes'[q].note, pushes'[p].note # None
               PROVE  LeftTo(p)' \/ LeftTo(q)'
    BY <1>3 DEF Apart
<1>8. CASE p \in 1..Len(pushes) /\ q \in 1..Len(pushes)
    <2>1. pushes[p].note = pushes[q].note /\ pushes[p].note # None
        BY <1>4, <1>7, <1>8 DEF RowStep
    <2>2. LeftTo(p) \/ LeftTo(q)
        BY <1>1, <1>7, <1>8, <2>1 DEF Apart
    <2> QED BY <1>5, <1>8, <2>2
<1>9. CASE p \in 1..Len(pushes) /\ q \notin 1..Len(pushes)
    <2>1. q = Len(pushes') /\ Len(pushes') = Len(pushes) + 1
        BY <1>12, <1>7, <1>9
    <2> QED BY <1>6, <1>7, <1>9, <2>1
<1>10. CASE p \notin 1..Len(pushes) /\ q \in 1..Len(pushes)
    <2>1. p = Len(pushes') /\ Len(pushes') = Len(pushes) + 1
        BY <1>12, <1>7, <1>10
    <2> QED BY <1>6, <1>7, <1>10, <2>1
<1>11. CASE p \notin 1..Len(pushes) /\ q \notin 1..Len(pushes)
    BY <1>12, <1>7, <1>11
<1> QED BY <1>8, <1>9, <1>10, <1>11

-----------------------------------------------------------------------------

\* What the rows, the runs and the notifications are is all that the
\* invariant is about.
rowVars == <<now, account, run, turn, calls, notes, pushes, sender, flight, claims>>

\* What devices, push services and admins do changes none of these.
LEMMA Elsewhere ==
    ASSUME \/ Deliver
           \/ \E c \in Connections : Show(c)
           \/ \E s \in Sessions : \/ \E e \in Endpoints : Subscribe(s, e)
                                  \/ Unsubscribe(s)
                                  \/ \E revoked \in BOOLEAN : EndSession(s, revoked)
           \/ \E e \in Endpoints : EndpointGone(e)
           \/ UNCHANGED vars
    PROVE  UNCHANGED rowVars
<1>1. CASE Deliver
    BY <1>1 DEF Deliver, Taken, Gone, NotTaken, TriedAgain, rowVars, deviceVars, turnVars
<1>2. ASSUME NEW c \in Connections, Show(c) PROVE UNCHANGED rowVars
    BY <1>2 DEF Show, rowVars, turnVars, sendVars
<1>3. ASSUME NEW s \in Sessions, NEW e \in Endpoints, Subscribe(s, e) PROVE UNCHANGED rowVars
    BY <1>3 DEF Subscribe, rowVars, turnVars, sendVars
<1>4. ASSUME NEW s \in Sessions, Unsubscribe(s) PROVE UNCHANGED rowVars
    BY <1>4 DEF Unsubscribe, rowVars, turnVars, sendVars
<1>5. ASSUME NEW s \in Sessions, NEW revoked \in BOOLEAN, EndSession(s, revoked)
      PROVE  UNCHANGED rowVars
    BY <1>5 DEF EndSession, rowVars, turnVars, sendVars
<1>6. ASSUME NEW e \in Endpoints, EndpointGone(e) PROVE UNCHANGED rowVars
    BY <1>6 DEF EndpointGone, rowVars, turnVars, sendVars
<1>7. CASE UNCHANGED vars
    BY <1>7 DEF vars, rowVars, turnVars, sendVars
<1> QED BY <1>1, <1>2, <1>3, <1>4, <1>5, <1>6, <1>7

\* The runs' rows stay of their type, whatever becomes of one run.
LEMMA RunTypes ==
    ASSUME TypeOK, NEW r \in RunIds
    PROVE  /\ [run EXCEPT ![r].state = "ended"]
                  \in [RunIds -> RunRows]
           /\ [run EXCEPT ![r].state = "running"]
                  \in [RunIds -> RunRows]
           /\ [run EXCEPT ![r].state = "ended", ![r].turn = None]
                  \in [RunIds -> RunRows]
           /\ \A t \in Nat : [run EXCEPT ![r].turn = t]
                  \in [RunIds -> RunRows]
<1>1. run \in [RunIds -> RunRows]
    BY DEF TypeOK
<1> QED BY ZenonT(40), <1>1 DEF None, RunRows

\* Attributing a turn's notifications to its run changes no more than their run.
LEMMA AttributedKeeps ==
    ASSUME TypeOK, NEW r \in RunIds
    PROVE  /\ Attributed(r) \in Seq(Notes)
           /\ Len(Attributed(r)) = Len(notes)
           /\ \A n \in 1..Len(notes) :
                 LET new == Attributed(r)[n]
                 IN  /\ new.turn = notes[n].turn /\ new.created = notes[n].created
                     /\ new.run # notes[n].run =>
                           notes[n].run = None /\ new.run = r /\ run[r].turn = notes[n].turn
<1> DEFINE A == Attributed(r)
<1>1. notes \in Seq(Notes)
    BY DEF TypeOK
<1>2. /\ DOMAIN notes = 1..Len(notes) /\ Len(notes) \in Nat
      /\ \A n \in 1..Len(notes) : notes[n] \in Notes
    BY <1>1
<1>3. ASSUME NEW n \in 1..Len(notes)
      PROVE  /\ A[n] \in Notes
             /\ A[n].turn = notes[n].turn /\ A[n].created = notes[n].created
             /\ A[n].run # notes[n].run =>
                   notes[n].run = None /\ A[n].run = r /\ run[r].turn = notes[n].turn
    <2>1. \/ A[n] = notes[n]
          \/ /\ notes[n].turn = run[r].turn /\ notes[n].run = None
             /\ A[n] = [notes[n] EXCEPT !.run = r]
        BY <1>2, Zenon DEF Attributed
    <2>2. notes[n] \in Notes
        BY <1>2
    <2>3. r \in 0..MaxRuns
        BY PushAssumption DEF RunIds
    <2> HIDE DEF A
    <2> QED BY <2>1, <2>2, <2>3 DEF Notes
<1>4. A = [n \in 1..Len(notes) |-> A[n]]
    BY <1>2 DEF Attributed
<1>5. A \in Seq(Notes) /\ Len(A) = Len(notes)
    <2> HIDE DEF A
    <2> QED BY <1>2, <1>3, <1>4
<1> QED BY <1>3, <1>5

\* A page the sender reads is of rows.
LEMMA PageIsOfRows == FirstOf(Pending, Page) \subseteq DOMAIN pushes
BY DEF FirstOf, Pending

\* The push the sender claims is one it holds.
LEMMA ClaimsOfPage ==
    ASSUME TypeOK, InRange, sender.page # {}
    PROVE  Min(sender.page) \in sender.page /\ Min(sender.page) \in DOMAIN pushes
<1>1. sender.page \in SUBSET Nat
    BY DEF TypeOK
<1> QED BY <1>1, MinIsSmallest DEF InRange

\* A row whose state alone changes is a row, and the rows stay a sequence.
LEMMA RowsStay ==
    ASSUME NEW ps \in Seq(Rows), NEW qs,
           qs = [p \in DOMAIN ps |-> qs[p]], \A p \in 1..Len(ps) : qs[p] \in Rows
    PROVE  qs \in Seq(Rows) /\ Len(qs) = Len(ps)
<1> HIDE DEF Rows
<1>1. DOMAIN ps = 1..Len(ps) /\ Len(ps) \in Nat
    OBVIOUS
<1> QED BY <1>1

\* A row takes another state; the other rows stay.
LEMMA RowTakesState ==
    ASSUME NEW ps \in Seq(Rows), NEW p \in DOMAIN ps, NEW state \in States
    PROVE  /\ [ps EXCEPT ![p].state = state] \in Seq(Rows)
           /\ Len([ps EXCEPT ![p].state = state]) = Len(ps)
           /\ \A q \in 1..Len(ps) : q # p => [ps EXCEPT ![p].state = state][q] = ps[q]
           /\ [ps EXCEPT ![p].state = state][p] = [ps[p] EXCEPT !.state = state]
<1>1. /\ DOMAIN ps = 1..Len(ps) /\ Len(ps) \in Nat
      /\ \A q \in 1..Len(ps) : ps[q] \in Rows
    OBVIOUS
<1> DEFINE qs == [ps EXCEPT ![p].state = state]
<1>2. \A q \in 1..Len(ps) : qs[q] = IF q = p THEN [ps[p] EXCEPT !.state = state] ELSE ps[q]
    BY <1>1
<1>3. [ps[p] EXCEPT !.state = state] \in Rows
    BY <1>1 DEF Rows
<1>4. \A q \in 1..Len(ps) : qs[q] \in Rows
    <2> HIDE DEF qs, Rows
    <2> QED BY <1>1, <1>2, <1>3
<1>5. qs = [q \in DOMAIN ps |-> qs[q]]
    OBVIOUS
<1>6. qs \in Seq(Rows) /\ Len(qs) = Len(ps)
    <2> HIDE DEF qs, Rows
    <2> QED BY <1>4, <1>5, RowsStay
<1> QED BY <1>1, <1>2, <1>6

\* The same of a row that is sent now.
LEMMA RowIsSent ==
    ASSUME NEW ps \in Seq(Rows), NEW p \in DOMAIN ps, NEW at \in Nat
    PROVE  LET qs == [ps EXCEPT ![p].state = "sending", ![p].sent = at]
           IN  /\ qs \in Seq(Rows) /\ Len(qs) = Len(ps)
               /\ \A q \in 1..Len(ps) : q # p => qs[q] = ps[q]
               /\ qs[p] = [ps[p] EXCEPT !.state = "sending", !.sent = at]
<1>1. /\ DOMAIN ps = 1..Len(ps) /\ Len(ps) \in Nat
      /\ \A q \in 1..Len(ps) : ps[q] \in Rows
    OBVIOUS
<1> DEFINE new == [ps[p] EXCEPT !.state = "sending", !.sent = at]
           qs == [ps EXCEPT ![p].state = "sending", ![p].sent = at]
<1>2. \A q \in 1..Len(ps) : qs[q] = IF q = p THEN new ELSE ps[q]
    BY <1>1
<1>3. new \in Rows
    BY ZenonT(40), <1>1 DEF Rows, States
<1>4. \A q \in 1..Len(ps) : qs[q] \in Rows
    <2> HIDE DEF qs, Rows, new
    <2> QED BY <1>1, <1>2, <1>3
<1>5. qs = [q \in DOMAIN ps |-> qs[q]]
    OBVIOUS
<1>6. qs \in Seq(Rows) /\ Len(qs) = Len(ps)
    <2> HIDE DEF qs, Rows
    <2> QED BY <1>4, <1>5, RowsStay
<1> QED BY <1>1, <1>2, <1>6

\* The first state has its type.
LEMMA TypeInit == Init => TypeOK /\ InRange
<1> SUFFICES ASSUME Init PROVE TypeOK /\ InRange
    OBVIOUS
<1>1. notes = <<>> /\ pushes = <<>> /\ claims = <<>>
    BY DEF Init
<1>2. run \in [RunIds -> RunRows]
    BY DEF Init, None, RunRows
<1>3. notes \in Seq(Notes) /\ pushes \in Seq(Rows) /\ claims \in Seq(Claims)
    <2> HIDE DEF Notes, Rows, Claims
    <2> QED BY <1>1
<1>4. TypeOK
    BY <1>2, <1>3 DEF Init, TypeOK, Idle, None
<1>5. InRange
    BY <1>1 DEF Init, InRange, Idle, None
<1> QED BY <1>4, <1>5

\* The ends of a run that the steps know of.
LEMMA RunEndedKnown ==
    ASSUME TypeOK, NEW r \in RunIds, run[r].over # "no"
    PROVE  run[r].over \in Hows
<1>1. run[r] \in RunRows
    BY DEF TypeOK
<1> QED BY <1>1 DEF RunRows

\* The run a notification is recorded for is one of its turn.
LEMMA RunOfTurnIsItsRun ==
    ASSUME NEW t
    PROVE  /\ RunOfTurn(t) \in 0..MaxRuns
           /\ RunOfTurn(t) # None =>
                 /\ RunOfTurn(t) \in RunIds
                 /\ run[RunOfTurn(t)].turn = t /\ run[RunOfTurn(t)].state # "waiting"
<1> DEFINE S == {r \in RunIds : run[r].turn = t /\ run[r].state # "waiting"} \cup {None}
<1>1. MaxRuns \in Nat
    BY PushAssumption
<1>2. S \in SUBSET (0..MaxRuns) /\ S # {}
    BY <1>1 DEF RunIds, None
<1>3. Max(S) \in S
    <2> HIDE DEF S
    <2> QED BY <1>1, <1>2, MaxIsLargest
<1>4. RunOfTurn(t) = Max(S)
    BY DEF RunOfTurn
<1> QED BY <1>2, <1>3, <1>4

\* A push is sent only within an hour and while fewer than the limit were.
LEMMA DecisionIsState ==
    ASSUME NEW p
    PROVE  /\ Decision(p) \in {"send"} \cup
                  (States \ {"queued", "sending", "sent", "failed", "deleted"})
           /\ Decision(p) = "send" =>
                 /\ ~(now - pushes[p].created >= Hour)
                 /\ ~(Cardinality(Recent) >= HourlyLimit)
<1> DEFINE old == now - pushes[p].created >= Hour
           full == Cardinality(Recent) >= HourlyLimit
           left == pushes[p].cause = "notify" /\ notes[pushes[p].note].run # None
<1>1. Decision(p) = IF old THEN "expired"
                    ELSE IF account.disabled THEN "disabled"
                    ELSE IF left THEN "merged"
                    ELSE IF IsShown THEN "shown"
                    ELSE IF Targets = {} THEN "unsubscribed"
                    ELSE IF full THEN "limited" ELSE "send"
    BY DEF Decision
<1> HIDE DEF old, full, left
<1>2. /\ Decision(p) \in {"expired", "disabled", "merged", "shown", "unsubscribed", "limited",
                          "send"}
      /\ Decision(p) = "send" => ~old /\ ~full
    BY <1>1
<1> QED BY <1>2 DEF States, old, full

\* What a claim does to the rows: at most one changes its state, and is sent
\* now if it is sent.
Decided(p, state) ==
    /\ pushes' = [pushes EXCEPT ![p].state = state]
    /\ state \in States \ {"queued", "sending", "sent", "failed", "deleted"}
    /\ claims' = claims /\ flight' = flight

Sent(p) ==
    /\ pushes' \in Seq(Rows) /\ Len(pushes') = Len(pushes)
    /\ \A q \in 1..Len(pushes) : q # p => pushes'[q] = pushes[q]
    /\ pushes'[p] = [pushes[p] EXCEPT !.state = "sending", !.sent = now]
    /\ claims' = Append(claims, [push |-> p, note |-> pushes[p].note, at |-> now])
    /\ claims' \in Seq(Claims)
    /\ flight' = flight \cup {p}
    /\ now - pushes[p].created < Hour
    /\ ~(Cardinality(Recent) >= HourlyLimit)

\* A claim leaves the rows, or sends or settles one that was queued.
LEMMA ClaimShape ==
    ASSUME TypeOK, InRange, Claim
    PROVE  /\ pushes' \in Seq(Rows) /\ Len(pushes') = Len(pushes) /\ claims' \in Seq(Claims)
           /\ \/ pushes' = pushes /\ claims' = claims /\ flight' = flight
              \/ \E p \in DOMAIN pushes :
                    /\ pushes[p].state = "queued"
                    /\ Sent(p) \/ \E state \in States : Decided(p, state)
<1> DEFINE p == Min(sender.page)
<1>1. p \in DOMAIN pushes
    BY ClaimsOfPage DEF Claim
<1>2. pushes \in Seq(Rows) /\ claims \in Seq(Claims) /\ now \in Nat
    BY DEF TypeOK
<1>3. CASE pushes[p].state # "queued"
    <2>1. pushes' = pushes /\ claims' = claims /\ flight' = flight
        BY <1>3 DEF Claim
    <2> QED BY <1>2, <2>1
<1>4. CASE pushes[p].state = "queued" /\ Decision(p) # "send"
    <2>1. Decided(p, Decision(p)) /\ Decision(p) \in States
        BY <1>4, DecisionIsState DEF Claim, Decided
    <2>2. pushes' \in Seq(Rows) /\ Len(pushes') = Len(pushes) /\ claims' = claims
        <3> HIDE DEF p
        <3> QED BY <1>1, <1>2, <2>1, RowTakesState DEF Decided
    <2> QED BY <1>1, <1>2, <1>4, <2>1, <2>2
<1>5. CASE pushes[p].state = "queued" /\ Decision(p) = "send"
    <2> DEFINE new == [push |-> p, note |-> pushes[p].note, at |-> now]
    <2>1. /\ pushes' = [pushes EXCEPT ![p].state = "sending", ![p].sent = now]
          /\ claims' = Append(claims, new) /\ flight' = flight \cup {p}
        BY <1>5 DEF Claim
    <2>2. ~(now - pushes[p].created >= Hour) /\ ~(Cardinality(Recent) >= HourlyLimit)
        BY <1>5, DecisionIsState
    <2> HIDE DEF p
    <2>3. /\ pushes' \in Seq(Rows) /\ Len(pushes') = Len(pushes)
          /\ \A q \in 1..Len(pushes) : q # p => pushes'[q] = pushes[q]
          /\ pushes'[p] = [pushes[p] EXCEPT !.state = "sending", !.sent = now]
        <3> DEFINE at == now
                   qs == [pushes EXCEPT ![p].state = "sending", ![p].sent = at]
        <3>1. at \in Nat
            BY <1>2
        <3> HIDE DEF at
        <3>2. /\ qs \in Seq(Rows) /\ Len(qs) = Len(pushes)
              /\ \A q \in 1..Len(pushes) : q # p => qs[q] = pushes[q]
              /\ qs[p] = [pushes[p] EXCEPT !.state = "sending", !.sent = at]
            BY ZenonT(60), <1>1, <1>2, <3>1, RowIsSent
        <3>3. pushes' = qs
            BY <2>1 DEF at
        <3> HIDE DEF qs
        <3>4. pushes'[p] = [pushes[p] EXCEPT !.state = "sending", !.sent = at]
            BY <3>2, <3>3
        <3> QED BY <3>2, <3>3, <3>4 DEF at
    <2>4. pushes[p] \in Rows
        BY <1>1, <1>2
    <2>5. now - pushes[p].created < Hour
        <3>1. pushes[p].created \in Nat
            BY <2>4 DEF Rows
        <3>2. Hour \in Nat
            BY PushAssumption
        <3>3. now \in Nat
            BY <1>2
        <3> QED BY <2>2, <3>1, <3>2, <3>3
    <2>6. claims' \in Seq(Claims)
        <3>1. new \in Claims
            BY <1>1, <1>2, <2>4 DEF Claims, Rows
        <3> HIDE DEF new, Claims
        <3> QED BY <1>2, <2>1, <3>1
    <2> QED BY <1>1, <1>5, <2>1, <2>2, <2>3, <2>5, <2>6 DEF Sent
<1> QED BY <1>3, <1>4, <1>5

\* Deleting the Bot keeps what its rows were.
LEMMA DeletedTypes ==
    ASSUME NEW ps \in Seq(Rows), NEW qs,
           qs = [p \in DOMAIN ps |-> [ps[p] EXCEPT !.state = "deleted"]]
    PROVE  /\ qs \in Seq(Rows) /\ Len(qs) = Len(ps)
           /\ \A p \in 1..Len(ps) : qs[p] = [ps[p] EXCEPT !.state = "deleted"]
<1>1. /\ DOMAIN ps = 1..Len(ps) /\ Len(ps) \in Nat
      /\ \A p \in 1..Len(ps) : ps[p] \in Rows
    OBVIOUS
<1>2. \A p \in 1..Len(ps) : qs[p] = [ps[p] EXCEPT !.state = "deleted"]
    BY <1>1
<1>3. \A p \in 1..Len(ps) : qs[p] \in Rows
    BY ZenonT(40), <1>1, <1>2 DEF Rows, States
<1>4. qs = [p \in DOMAIN ps |-> qs[p]]
    OBVIOUS
<1> QED BY <1>2, <1>3, <1>4, RowsStay

\* Pruning deletes rows of a day ago.
LEMMA PrunedTypes ==
    ASSUME pushes \in Seq(Rows), Prune
    PROVE  /\ pushes' \in Seq(Rows) /\ Len(pushes') = Len(pushes)
           /\ \A p \in 1..Len(pushes) :
                 \/ pushes'[p] = pushes[p]
                 \/ /\ pushes[p].created =< now - Day
                    /\ pushes[p].state \notin {"queued", "sending", "deleted"}
                    /\ pushes'[p] = [pushes[p] EXCEPT !.state = "deleted"]
<1>1. /\ DOMAIN pushes = 1..Len(pushes) /\ Len(pushes) \in Nat
      /\ \A p \in 1..Len(pushes) : pushes[p] \in Rows
    OBVIOUS
<1>2. ASSUME NEW p \in 1..Len(pushes)
      PROVE  \/ pushes'[p] = pushes[p]
             \/ /\ pushes[p].created =< now - Day
                /\ pushes[p].state \notin {"queued", "sending", "deleted"}
                /\ pushes'[p] = [pushes[p] EXCEPT !.state = "deleted"]
    BY <1>1, Zenon DEF Prune
<1>3. \A p \in 1..Len(pushes) : pushes'[p] \in Rows
    <2> SUFFICES ASSUME NEW p \in 1..Len(pushes) PROVE pushes'[p] \in Rows
        OBVIOUS
    <2>1. pushes[p] \in Rows
        BY <1>1
    <2> QED BY <1>2, <2>1 DEF Rows, States
<1>4. pushes' = [p \in DOMAIN pushes |-> pushes'[p]]
    BY Zenon DEF Prune
<1> QED BY <1>2, <1>3, <1>4, RowsStay

\* A restart recovers the rows, and may end a run.
LEMMA RestartShape ==
    ASSUME TypeOK, Restart
    PROVE  \/ pushes' = pushes /\ ~account.bot
           \/ account.bot /\ pushes' = Recovered(pushes)
           \/ \E r \in RunIds : /\ account.bot
                                /\ run[r].state = "running" /\ run'[r].state = "ended"
                                /\ EndedFrom(r, Recovered(pushes), notes, pushes')
<1> DEFINE cut == {r \in RunIds : run[r].state = "running"}
           last == CHOOSE r \in cut : TRUE
<1>1. CASE ~account.bot
    BY <1>1 DEF Restart
<1>2. CASE account.bot /\ cut = {}
    BY <1>2 DEF Restart
<1>3. CASE account.bot /\ cut # {}
    <2>1. last \in cut
        BY <1>3
    <2>2. pushes' = RunEnded(last, "interrupted", FALSE, Recovered(pushes), notes)
        BY <1>3 DEF Restart
    <2>3. run'[last].state = "ended"
        <3>1. /\ run[last] \in RunRows /\ last \in RunIds
              /\ run' = [r \in RunIds |->
                           IF r \in cut THEN [run[r] EXCEPT !.state = "ended"]
                           ELSE IF run[r].state = "waiting"
                           THEN [run[r] EXCEPT !.turn = None, !.over = "no"] ELSE run[r]]
            BY <2>1 DEF Restart, TypeOK
        <3> HIDE DEF last, cut
        <3> QED BY <2>1, <3>1 DEF RunRows
    <2>4. /\ Recovered(pushes) \in Seq(Rows) /\ notes \in Seq(Notes) /\ now \in Nat
          /\ "interrupted" \in Hows
        BY RecoveredKeeps DEF TypeOK, Hows
    <2> HIDE DEF last
    <2>5. EndedFrom(last, Recovered(pushes), notes, pushes')
        BY <2>1, <2>2, <2>4, RunEndedShape
    <2> QED BY <1>3, <2>1, <2>3, <2>5
<1> QED BY <1>1, <1>2, <1>3

\* Every step keeps the types, and the sender to rows there are.
LEMMA TypeStep ==
    ASSUME TypeOK, InRange, [Next]_vars
    PROVE  TypeOK' /\ InRange'
<1>0. /\ notes \in Seq(Notes) /\ pushes \in Seq(Rows) /\ claims \in Seq(Claims)
      /\ now \in Nat /\ turn \in [open : Nat, last : Nat] /\ calls \in SUBSET Nat
      /\ Len(notes) \in Nat /\ DOMAIN notes = 1..Len(notes)
      /\ Len(pushes) \in Nat /\ DOMAIN pushes = 1..Len(pushes)
    <2> HIDE DEF Notes, Rows, Claims
    <2> QED BY DEF TypeOK
<1>b. pushes \in Seq(Rows) /\ Len(pushes) >= Len(pushes)
    BY <1>0
<1>a. ASSUME UNCHANGED rowVars PROVE TypeOK' /\ InRange'
    BY <1>a DEF rowVars, TypeOK, InRange
\* The rows after a run ended are rows, no fewer.
<1>e. ASSUME NEW r, NEW ps \in Seq(Rows), NEW ns \in Seq(Notes), NEW qs,
             EndedFrom(r, ps, ns, qs)
      PROVE  qs \in Seq(Rows) /\ Len(qs) \in Nat /\ Len(qs) >= Len(ps)
    <2>1. qs \in Seq(Rows) /\ Len(qs) \in {Len(ps), Len(ps) + 1}
        BY <1>e DEF EndedFrom
    <2> HIDE DEF Rows
    <2> QED BY <2>1
<1>1. CASE TurnBegins
    <2>1. turn.last \in Nat /\ turn' = [open |-> turn.last + 1, last |-> turn.last + 1]
        BY <1>1, <1>0 DEF TurnBegins, NextTurn
    <2>2. TypeOK'
        BY <1>1, <2>1 DEF TurnBegins, TypeOK, sendVars
    <2>3. InRange'
        BY <1>0, <1>1, <2>1 DEF TurnBegins, InRange, sendVars
    <2> QED BY <2>2, <2>3
<1>2. ASSUME NEW r \in RunIds, RunTurnBegins(r) PROVE TypeOK' /\ InRange'
    <2>1. turn' = [open |-> turn.last + 1, last |-> turn.last + 1]
        BY <1>2 DEF RunTurnBegins, NextTurn
    <2>2. run' \in [RunIds -> RunRows]
        <3>1. run' = [run EXCEPT ![r].turn = turn.last + 1] /\ turn.last + 1 \in Nat
            BY <1>0, <1>2, <2>1 DEF RunTurnBegins
        <3> QED BY <3>1, RunTypes
    <2>t. TypeOK'
        BY <1>0, <1>2, <2>1, <2>2 DEF RunTurnBegins, TypeOK, deviceVars, sendVars
    <2>r. InRange'
        BY <1>0, <1>2, <2>1, <2>2 DEF RunTurnBegins, InRange, deviceVars, sendVars
    <2> QED BY <2>t, <2>r
<1>3. ASSUME NEW r \in RunIds, MarkRunning(r) PROVE TypeOK' /\ InRange'
    <2>1. /\ notes' \in Seq(Notes) /\ Len(notes') = Len(notes)
          /\ \A n \in 1..Len(notes) : notes'[n].turn = notes[n].turn
        BY <1>3, AttributedKeeps DEF MarkRunning
    <2>2. run' \in [RunIds -> RunRows] /\ pushes' \in Seq(Rows) /\ Len(pushes') >= Len(pushes)
        <3>1. CASE run[r].over = "no"
            <4>1. run' = [run EXCEPT ![r].state = "running"] /\ pushes' = pushes
                BY <1>3, <3>1 DEF MarkRunning
            <4>2. run' \in [RunIds -> RunRows]
                BY <4>1, RunTypes
            <4> QED BY <1>b, <4>1, <4>2
        <3>2. CASE run[r].over # "no"
            <4>1. PICK every \in BOOLEAN : Ends(r, run[r].over, notes', every)
                BY <1>3, <3>2 DEF MarkRunning
            <4>2. EndedFrom(r, pushes, notes', pushes')
                BY <1>0, <2>1, <3>2, <4>1, RunEndedShape, RunEndedKnown DEF Ends
            <4> QED BY <1>0, <1>e, <2>1, <4>1, <4>2, RunTypes DEF Ends
        <3> QED BY <3>1, <3>2
    <2>3. /\ Len(pushes') \in Nat /\ DOMAIN pushes' = 1..Len(pushes')
          /\ DOMAIN notes' = 1..Len(notes)
        <3> HIDE DEF Rows, Notes
        <3> QED BY <2>1, <2>2
    <2>t. TypeOK'
        BY <1>0, <1>3, <2>1, <2>2, <2>3 DEF MarkRunning, TypeOK, sendVars
    <2>r. InRange'
        BY SMTT(30), <1>0, <1>3, <2>1, <2>2, <2>3 DEF MarkRunning, InRange, sendVars
    <2> QED BY <2>t, <2>r
<1>4. ASSUME NEW r \in RunIds, RunMissed(r) PROVE TypeOK' /\ InRange'
    <2>1. EndedFrom(r, pushes, notes, pushes')
        BY <1>0, <1>4, RunEndedShape DEF RunMissed
    <2>2. run' \in [RunIds -> RunRows] /\ pushes' \in Seq(Rows) /\ Len(pushes') >= Len(pushes)
        BY <1>0, <1>4, <1>e, <2>1, RunTypes DEF RunMissed
    <2>3. Len(pushes') \in Nat /\ DOMAIN pushes' = 1..Len(pushes')
        <3> HIDE DEF Rows
        <3> QED BY <2>2
    <2>t. TypeOK'
        BY <1>0, <1>4, <2>2, <2>3 DEF RunMissed, TypeOK, sendVars
    <2>r. InRange'
        <3>1. DOMAIN pushes \subseteq DOMAIN pushes'
            BY <1>0, <2>2, <2>3
        <3> QED BY <1>4, <3>1 DEF RunMissed, InRange, sendVars
    <2> QED BY <2>t, <2>r
<1>5. ASSUME NEW how \in Hows, TurnEnds(how) PROVE TypeOK' /\ InRange'
    <2> DEFINE mine == {r \in RunIds : run[r].turn = turn.open}
    <2>1. turn' \in [open : Nat, last : Nat] /\ turn'.last = turn.last /\ turn'.open = 0
        BY <1>0, <1>5 DEF TurnEnds, None
    <2>2. run' \in [RunIds -> RunRows] /\ pushes' \in Seq(Rows) /\ Len(pushes') >= Len(pushes)
        <3>1. ASSUME NEW r \in mine, NEW every \in BOOLEAN,
                     run[r].state = "running", Ends(r, how, notes, every)
              PROVE  /\ run' \in [RunIds -> RunRows]
                     /\ pushes' \in Seq(Rows) /\ Len(pushes') >= Len(pushes)
            <4>1. EndedFrom(r, pushes, notes, pushes')
                BY <1>0, <3>1, RunEndedShape DEF Ends
            <4> QED BY <1>0, <1>e, <3>1, <4>1, RunTypes DEF Ends
        <3>2. CASE /\ run' = [r \in RunIds |-> IF r \in mine /\ run[r].state = "waiting"
                                               THEN [run[r] EXCEPT !.over = how] ELSE run[r]]
                   /\ pushes' = pushes
            <4>1. run \in [RunIds -> RunRows]
                BY DEF TypeOK
            <4>2. run' \in [RunIds -> RunRows]
                <5> HIDE DEF mine
                <5> QED BY <3>2, <4>1 DEF RunRows
            <4> QED BY <1>b, <3>2, <4>2
        <3> QED BY <1>5, <3>1, <3>2 DEF TurnEnds
    <2>3. Len(pushes') \in Nat /\ DOMAIN pushes' = 1..Len(pushes')
        <3> HIDE DEF Rows
        <3> QED BY <2>2
    <2>t. TypeOK'
        BY <1>0, <1>5, <2>1, <2>2, <2>3 DEF TurnEnds, TypeOK, sendVars
    <2>r. InRange'
        BY <1>0, <1>5, <2>1, <2>2, <2>3 DEF TurnEnds, InRange, sendVars
    <2> QED BY <2>t, <2>r
<1>6. CASE CallMade
    <2>t. TypeOK'
        BY <1>0, <1>6 DEF CallMade, TypeOK, deviceVars, sendVars, None
    <2>r. InRange'
        BY <1>0, <1>6 DEF CallMade, InRange, deviceVars, sendVars, None
    <2> QED BY <2>t, <2>r
<1>7. ASSUME NEW t \in calls, NEW kind \in Kinds, Notify(t, kind) PROVE TypeOK' /\ InRange'
    <2> DEFINE r == RunOfTurn(t)
               new == [turn |-> t, run |-> r, kind |-> kind, created |-> now]
    <2>1. CASE ~account.bot \/ Refused(t)
        BY <1>0, <1>7, <2>1 DEF Notify, TypeOK, InRange, deviceVars, sendVars
    <2>2. CASE ~(~account.bot \/ Refused(t))
        <3>1. r \in 0..MaxRuns
            BY RunOfTurnIsItsRun
        <3>2. new \in Notes
            BY <1>0, <3>1 DEF Notes, InRange
        <3>3. notes' = Append(notes, new)
            BY <1>7, <2>2 DEF Notify
        <3>4. /\ notes' \in Seq(Notes) /\ Len(notes') = Len(notes) + 1
              /\ DOMAIN notes' = 1..(Len(notes) + 1)
              /\ \A n \in 1..Len(notes) : notes'[n] = notes[n]
              /\ notes'[Len(notes) + 1] = new
            <4> HIDE DEF new, Notes
            <4> QED BY <1>0, <3>2, <3>3
        <3>5. pushes' = pushes \/ pushes' = Queued(pushes, "notify", Len(notes'))
            BY <1>7, <2>2 DEF Notify
        <3>6. pushes' \in Seq(Rows) /\ Len(pushes') \in {Len(pushes), Len(pushes) + 1}
            <4>1. "notify" \in Causes /\ Len(notes') \in Nat
                BY <1>0, <3>4 DEF Causes
            <4>2. \/ pushes' = pushes
                  \/ pushes' \in Seq(Rows) /\ Len(pushes') = Len(pushes) + 1
                <5> DEFINE note == Len(notes')
                <5>1. note \in Nat
                    BY <4>1
                <5> HIDE DEF note
                <5>2. \/ Queued(pushes, "notify", note) = pushes
                      \/ /\ Queued(pushes, "notify", note) \in Seq(Rows)
                         /\ Len(Queued(pushes, "notify", note)) = Len(pushes) + 1
                    BY <1>0, <4>1, <5>1, QueuedShape
                <5> QED BY <3>5, <5>2 DEF note
            <4> QED BY <1>0, <4>2
        <3>7. /\ Len(pushes') \in Nat /\ DOMAIN pushes' = 1..Len(pushes')
              /\ Len(pushes') >= Len(pushes)
            <4> HIDE DEF Rows
            <4> QED BY <1>0, <3>6
        <3>8. \A n \in DOMAIN notes' : notes'[n].turn \in 1..turn.last
            <4>1. t \in 1..turn.last /\ new.turn = t
                BY DEF InRange
            <4>2. \A n \in 1..Len(notes) : notes[n].turn \in 1..turn.last
                BY <1>0 DEF InRange
            <4>3. DOMAIN notes' = 1..(Len(notes) + 1) /\ Len(notes) \in Nat
                BY <1>0, <3>4
            <4> HIDE DEF new, InRange, TypeOK
            <4>4. \A n \in 1..(Len(notes) + 1) : n \in 1..Len(notes) \/ n = Len(notes) + 1
                BY SMTT(30), <4>3
            <4> QED BY <3>4, <4>1, <4>2, <4>3, <4>4
        <3>t. TypeOK'
            BY <1>0, <1>7, <3>4, <3>6, <3>7, <3>8 DEF Notify, TypeOK, deviceVars, sendVars
        <3>r. InRange'
            <4>1. DOMAIN pushes \subseteq DOMAIN pushes'
                BY <1>0, <3>7
            <4> QED BY <1>7, <3>8, <4>1 DEF Notify, InRange, deviceVars, sendVars
        <3> QED BY <3>t, <3>r
    <2> QED BY <2>1, <2>2
<1>8. CASE ReadPage
    <2>1. sender' \in [on : BOOLEAN, page : SUBSET Nat, after : Nat] /\ sender'.page \subseteq DOMAIN pushes
        <3>1. CASE Pending = {}
            BY <1>8, <3>1 DEF ReadPage, Idle
        <3>2. CASE Pending # {}
            <4>1. sender' = [on |-> TRUE, page |-> FirstOf(Pending, Page), after |-> sender.after]
                BY <1>8, <3>2 DEF ReadPage
            <4>2. sender.after \in Nat
                BY DEF TypeOK
            <4> QED BY <1>0, <4>1, <4>2, PageIsOfRows
        <3> QED BY <3>1, <3>2
    <2>t. TypeOK'
        BY <1>0, <1>8, <2>1 DEF ReadPage, TypeOK, deviceVars, turnVars
    <2>r. InRange'
        BY <1>0, <1>8, <2>1 DEF ReadPage, InRange, deviceVars, turnVars
    <2> QED BY <2>t, <2>r
<1>9. CASE Claim
    <2> DEFINE p == Min(sender.page)
    <2>1. p \in sender.page /\ p \in DOMAIN pushes /\ p \in Nat
        BY <1>0, <1>9, ClaimsOfPage DEF Claim
    <2>2. /\ sender' \in [on : BOOLEAN, page : SUBSET Nat, after : Nat]
          /\ sender'.page \subseteq sender.page
        BY <1>9, <2>1 DEF Claim, TypeOK
    <2>4. pushes' \in Seq(Rows) /\ Len(pushes') = Len(pushes) /\ claims' \in Seq(Claims)
        BY <1>9, <1>0, ClaimShape
    <2>5. DOMAIN pushes' = DOMAIN pushes
        <3> HIDE DEF Rows
        <3> QED BY <2>4, <1>0
    <2>t. TypeOK'
        BY <1>0, <1>9, <2>2, <2>4, <2>5 DEF Claim, TypeOK, deviceVars, turnVars
    <2>r. InRange'
        BY <1>0, <1>9, <2>2, <2>4, <2>5 DEF Claim, InRange, deviceVars, turnVars
    <2> QED BY <2>t, <2>r
<1>10. CASE ClaimFails
    <2>t. TypeOK'
        BY <1>0, <1>10 DEF ClaimFails, TypeOK, deviceVars, turnVars, Idle
    <2>r. InRange'
        BY <1>0, <1>10 DEF ClaimFails, InRange, deviceVars, turnVars, Idle
    <2> QED BY <2>t, <2>r
<1>11. ASSUME NEW p \in DOMAIN pushes, Settle(p) PROVE TypeOK' /\ InRange'
    <2>1. pushes' \in Seq(Rows) /\ Len(pushes') = Len(pushes)
        <3>1. pushes' = pushes \/ \E state \in {"sent", "failed"} :
                                      pushes' = [pushes EXCEPT ![p].state = state]
            BY <1>11 DEF Settle
        <3>2. "sent" \in States /\ "failed" \in States
            BY DEF States
        <3> QED BY <1>b, <3>1, <3>2, RowTakesState
    <2>2. DOMAIN pushes' = DOMAIN pushes
        <3> HIDE DEF Rows
        <3> QED BY <2>1, <1>0
    <2>t. TypeOK'
        BY <1>0, <1>11, <2>1, <2>2 DEF Settle, TypeOK, deviceVars, turnVars
    <2>r. InRange'
        BY <1>0, <1>11, <2>1, <2>2 DEF Settle, InRange, deviceVars, turnVars
    <2> QED BY <2>t, <2>r
<1>12. CASE Disable
    <2>t. TypeOK'
        BY <1>0, <1>12 DEF Disable, TypeOK, turnVars, sendVars
    <2>r. InRange'
        BY <1>0, <1>12 DEF Disable, InRange, turnVars, sendVars
    <2> QED BY <2>t, <2>r
<1>13. CASE DeleteBot
    <2>1. pushes' \in Seq(Rows) /\ Len(pushes') = Len(pushes)
        BY <1>0, <1>13, DeletedTypes DEF DeleteBot
    <2>2. DOMAIN pushes' = DOMAIN pushes
        <3> HIDE DEF Rows
        <3> QED BY <2>1, <1>0
    <2>t. TypeOK'
        BY <1>0, <1>13, <2>1, <2>2 DEF DeleteBot, TypeOK, turnVars, sendVars
    <2>r. InRange'
        BY <1>0, <1>13, <2>1, <2>2 DEF DeleteBot, InRange, turnVars, sendVars
    <2> QED BY <2>t, <2>r
<1>14. CASE Prune
    <2>1. pushes' \in Seq(Rows) /\ Len(pushes') = Len(pushes)
        BY <1>0, <1>14, PrunedTypes
    <2>2. DOMAIN pushes' = DOMAIN pushes
        <3> HIDE DEF Rows
        <3> QED BY <2>1, <1>0
    <2>t. TypeOK'
        BY <1>0, <1>14, <2>1, <2>2 DEF Prune, TypeOK, turnVars, sendVars
    <2>r. InRange'
        BY <1>0, <1>14, <2>1, <2>2 DEF Prune, InRange, turnVars, sendVars
    <2> QED BY <2>t, <2>r
<1>15. CASE Restart
    <2>1. pushes' \in Seq(Rows) /\ Len(pushes') >= Len(pushes)
        <3>1. Recovered(pushes) \in Seq(Rows) /\ Len(Recovered(pushes)) = Len(pushes)
            BY <1>0, RecoveredKeeps
        <3> QED BY <1>0, <1>15, <1>e, <3>1, RestartShape
    <2>2. run' \in [RunIds -> RunRows]
        <3>1. run \in [RunIds -> RunRows]
            BY DEF TypeOK
        <3>2. ASSUME NEW r \in RunIds PROVE run'[r] \in RunRows
            <4>1. run[r] \in RunRows
                BY <3>1
            <4>2. run'[r] \in {[run[r] EXCEPT !.state = "ended"],
                               [run[r] EXCEPT !.turn = None, !.over = "no"], run[r]}
                BY <1>15, Zenon DEF Restart
            <4>3. [run[r] EXCEPT !.state = "ended"] \in RunRows
                BY <4>1 DEF RunRows
            <4>4. [run[r] EXCEPT !.turn = None, !.over = "no"] \in RunRows
                BY <4>1 DEF RunRows, None
            <4> HIDE DEF RunRows
            <4> QED BY <4>1, <4>2, <4>3, <4>4
        <3>3. run' = [r \in RunIds |-> run'[r]]
            BY <1>15, Zenon DEF Restart
        <3> QED BY <3>2, <3>3
    <2>3. Len(pushes') \in Nat /\ DOMAIN pushes' = 1..Len(pushes')
        <3> HIDE DEF Rows
        <3> QED BY <2>1
    <2>4. turn' \in [open : Nat, last : Nat] /\ turn'.last = turn.last /\ turn'.open = 0
        BY <1>0, <1>15 DEF Restart, None
    <2>t. TypeOK'
        BY <1>0, <1>15, <2>1, <2>2, <2>3, <2>4 DEF Restart, TypeOK, Idle
    <2>r. InRange'
        <3>1. DOMAIN pushes \subseteq DOMAIN pushes'
            BY <1>0, <2>1, <2>3
        <3>2. turn'.open =< turn'.last /\ turn'.last = turn.last
            BY <1>0, <2>4
        <3>3. sender'.page = {} /\ calls' = {} /\ notes' = notes
            BY <1>15 DEF Restart, Idle
        <3> QED BY <3>2, <3>3 DEF InRange
    <2> QED BY <2>t, <2>r
<1>16. CASE Clock
    <2>t. TypeOK'
        BY <1>0, <1>16 DEF Clock, TypeOK, deviceVars, turnVars, sendVars
    <2>r. InRange'
        BY <1>0, <1>16 DEF Clock, InRange, deviceVars, turnVars, sendVars
    <2> QED BY <2>t, <2>r
<1> QED BY <1>a, <1>1, <1>2, <1>3, <1>4, <1>5, <1>6, <1>7, <1>8, <1>9, <1>10, <1>11, <1>12,
           <1>13, <1>14, <1>15, <1>16, Elsewhere DEF Next, Hows

-----------------------------------------------------------------------------

\* What the runs and the notifications say of each other stays so.
LEMMA OwnStep ==
    ASSUME TypeOK, InRange, RunsOwnNotes, Young, [Next]_vars
    PROVE  RunsOwnNotes' /\ Young'
<1>0. /\ Len(notes) \in Nat /\ DOMAIN notes = 1..Len(notes)
      /\ run \in [RunIds -> RunRows]
    BY DEF TypeOK
<1>a. ASSUME run' = run, notes' = notes, now' = now PROVE RunsOwnNotes' /\ Young'
    BY <1>a DEF RunsOwnNotes, Young
<1>1. ASSUME NEW r \in RunIds, RunTurnBegins(r) PROVE RunsOwnNotes' /\ Young'
    <2>1. /\ run[r].state = "waiting" /\ notes' = notes /\ now' = now
          /\ run' = [run EXCEPT ![r].turn = turn.last + 1]
        BY <1>1 DEF RunTurnBegins, NextTurn
    <2>2. \A q \in RunIds : /\ run'[q].state = run[q].state
                            /\ q # r => run'[q].turn = run[q].turn
                            /\ q = r => run'[q].turn = turn.last + 1
        BY <1>0, <2>1 DEF RunRows
    <2>3. \A n \in DOMAIN notes : notes[n].turn # turn.last + 1
        BY DEF InRange, TypeOK
    <2> QED BY <2>1, <2>2, <2>3 DEF RunsOwnNotes, Young
<1>2. ASSUME NEW r \in RunIds, MarkRunning(r) PROVE RunsOwnNotes' /\ Young'
    <2>1. /\ DOMAIN notes' = DOMAIN notes
          /\ \A n \in DOMAIN notes :
                /\ notes'[n].turn = notes[n].turn /\ notes'[n].created = notes[n].created
                /\ notes'[n].run # notes[n].run =>
                      notes[n].run = None /\ notes'[n].run = r /\ run[r].turn = notes[n].turn
        <3>1. notes' = Attributed(r)
            BY <1>2 DEF MarkRunning
        <3>2. DOMAIN Attributed(r) = DOMAIN notes
            BY DEF Attributed
        <3> QED BY <1>0, <3>1, <3>2, AttributedKeeps
    <2>2. \E state \in {"running", "ended"} : run' = [run EXCEPT ![r].state = state]
        BY <1>2 DEF MarkRunning, Ends
    <2>3. \A q \in RunIds : /\ run'[q].turn = run[q].turn
                            /\ q # r => run'[q].state = run[q].state
                            /\ q = r => run'[q].state \in {"running", "ended"}
        BY <1>0, <2>2 DEF RunRows
    <2>4. run[r].state = "waiting" /\ now' = now
        BY <1>2 DEF MarkRunning
    <2> QED BY <2>1, <2>3, <2>4 DEF RunsOwnNotes, Young
<1>3. ASSUME NEW r \in RunIds, RunMissed(r) PROVE RunsOwnNotes' /\ Young'
    <2>1. /\ run[r].state = "waiting" /\ notes' = notes /\ now' = now
          /\ run' = [run EXCEPT ![r].state = "ended", ![r].turn = None]
        BY <1>3 DEF RunMissed
    <2>2. \A q \in RunIds : /\ q # r => run'[q] = run[q]
                            /\ q = r => run'[q].state = "ended"
        BY <1>0, <2>1 DEF RunRows
    <2>3. RunsOwnNotes'
        <3> SUFFICES ASSUME NEW n \in DOMAIN notes, NEW q \in RunIds, notes[n].run = q
                     PROVE  run'[q].turn = notes[n].turn /\ run'[q].state # "waiting"
            BY ZenonT(40), <2>1 DEF RunsOwnNotes
        <3>1. run[q].turn = notes[n].turn /\ run[q].state # "waiting"
            BY DEF RunsOwnNotes
        <3>2. q # r
            BY <2>1, <3>1
        <3> QED BY <2>2, <3>1, <3>2
    <2>4. Young'
        BY <2>1, <2>2 DEF Young
    <2> QED BY <2>3, <2>4
<1>4. ASSUME NEW how \in Hows, TurnEnds(how) PROVE RunsOwnNotes' /\ Young'
    <2> DEFINE mine == {r \in RunIds : run[r].turn = turn.open}
    <2>1. notes' = notes /\ now' = now
        BY <1>4 DEF TurnEnds
    <2>2. \A q \in RunIds : /\ run'[q].turn = run[q].turn
                            /\ run'[q].state \in {run[q].state, "ended"}
        <3>1. ASSUME NEW r \in mine, run' = [run EXCEPT ![r].state = "ended"]
              PROVE  \A q \in RunIds : /\ run'[q].turn = run[q].turn
                                       /\ run'[q].state \in {run[q].state, "ended"}
            BY <1>0, <3>1 DEF RunRows
        <3>2. CASE run' = [r \in RunIds |-> IF r \in mine /\ run[r].state = "waiting"
                                            THEN [run[r] EXCEPT !.over = how] ELSE run[r]]
            <4> HIDE DEF mine
            <4> QED BY <1>0, <3>2 DEF RunRows
        <3> QED BY <1>4, <3>1, <3>2 DEF TurnEnds, Ends
    <2> QED BY <2>1, <2>2, <1>0 DEF RunsOwnNotes, Young, RunRows
<1>5. ASSUME NEW t \in calls, NEW kind \in Kinds, Notify(t, kind) PROVE RunsOwnNotes' /\ Young'
    <2> DEFINE new == [turn |-> t, run |-> RunOfTurn(t), kind |-> kind, created |-> now]
    <2>1. run' = run /\ now' = now
        BY <1>5 DEF Notify
    <2>2. CASE notes' = notes
        BY <1>a, <2>1, <2>2
    <2>3. CASE notes' = Append(notes, new)
        <3>1. /\ DOMAIN notes' = 1..(Len(notes) + 1)
              /\ \A n \in 1..Len(notes) : notes'[n] = notes[n]
              /\ notes'[Len(notes) + 1] = new
            <4>1. notes \in Seq(Notes)
                BY DEF TypeOK
            <4> HIDE DEF new, Notes
            <4> QED BY <1>0, <2>3, <4>1
        <3>2. \A n \in DOMAIN notes' : n \in DOMAIN notes \/ n = Len(notes) + 1
            BY <1>0, <3>1
        <3>3. now - now < Day
            <4>1. Day \in Nat /\ Day > 0
                BY PushAssumption
            <4> QED BY <4>1 DEF TypeOK
        <3>4. \A r \in RunIds : RunOfTurn(t) = r => run[r].turn = t /\ run[r].state # "waiting"
            BY RunOfTurnIsItsRun DEF RunIds, None
        <3>5. /\ new.turn = t /\ new.run = RunOfTurn(t) /\ new.created = now
            OBVIOUS
        <3> HIDE DEF new
        <3>6. RunsOwnNotes'
            BY <1>0, <2>1, <3>1, <3>2, <3>4, <3>5 DEF RunsOwnNotes
        <3>7. Young'
            BY <1>0, <2>1, <3>1, <3>2, <3>3, <3>5 DEF Young
        <3> QED BY <3>6, <3>7
    <2> QED BY <1>5, <2>2, <2>3 DEF Notify
<1>6. CASE Restart
    <2>1. notes' = notes /\ now' = now
        BY <1>6 DEF Restart
    <2>2. ASSUME NEW q \in RunIds
          PROVE  \/ run'[q].turn = run[q].turn /\ run'[q].state \in {run[q].state, "ended"}
                 \/ run[q].state = "waiting" /\ run'[q].turn = 0 /\ run'[q].state = "waiting"
        <3>1. run[q] \in RunRows
            BY <1>0
        <3>2. \/ run'[q] = [run[q] EXCEPT !.state = "ended"]
              \/ run[q].state = "waiting" /\ run'[q] = [run[q] EXCEPT !.turn = None, !.over = "no"]
              \/ run'[q] = run[q]
            BY <1>6, Zenon DEF Restart
        <3> QED BY <3>1, <3>2 DEF RunRows, None
    <2>3. \A n \in DOMAIN notes : notes[n].turn # 0
        BY DEF InRange
    <2> QED BY <2>1, <2>2, <2>3 DEF RunsOwnNotes, Young
<1>7. CASE Clock
    <2>1. /\ run' = run /\ notes' = notes /\ now' = now + 1
          /\ \A n \in DOMAIN notes, r \in RunIds :
                run[r].turn = notes[n].turn /\ run[r].state # "ended" =>
                    now + 1 - notes[n].created < Day
        BY <1>7 DEF Clock, turnVars
    <2>2. RunsOwnNotes'
        BY <2>1 DEF RunsOwnNotes
    <2>3. Young'
        <3> DEFINE later == now + 1
        <3>1. now' = later /\ notes' = notes /\ run' = run
            BY <2>1
        <3>2. \A n \in DOMAIN notes, r \in RunIds :
                  run[r].turn = notes[n].turn /\ run[r].state # "ended" =>
                      later - notes[n].created < Day
            <4>1. now \in Nat /\ \A n \in DOMAIN notes : notes[n].created \in Nat
                <5>1. now \in Nat /\ \A n \in DOMAIN notes : notes[n] \in Notes
                    BY DEF TypeOK
                <5> QED BY <5>1 DEF Notes
            <4>2. \A n \in DOMAIN notes : now + 1 - notes[n].created = (now + 1) - notes[n].created
                BY <4>1
            <4> QED BY <2>1, <4>2
        <3> HIDE DEF later
        <3> QED BY <3>1, <3>2 DEF Young
    <2> QED BY <2>2, <2>3
<1>8. CASE \/ TurnBegins \/ CallMade \/ ReadPage \/ Claim \/ ClaimFails \/ Disable
           \/ DeleteBot \/ Prune \/ \E p \in DOMAIN pushes : Settle(p)
    <2>1. run' = run /\ notes' = notes /\ now' = now
        BY <1>8 DEF TurnBegins, CallMade, ReadPage, Claim, ClaimFails, Disable, DeleteBot, Prune,
                    Settle, turnVars
    <2> QED BY <1>a, <2>1
<1>9. CASE UNCHANGED rowVars
    BY <1>9, <1>a DEF rowVars
<1> QED BY <1>1, <1>2, <1>3, <1>4, <1>5, <1>6, <1>7, <1>8, <1>9, Elsewhere DEF Next, Hows

-----------------------------------------------------------------------------

\* Which steps end a run at most.
LEMMA NoRunEnds ==
    ASSUME TypeOK, notes' = notes, pushes' = pushes, claims' = claims, now' = now,
           account'.bot = account.bot,
           \A q \in RunIds : run[q].state = "ended" => run'[q].state = "ended"
    PROVE  Ending(0)
<1>1. pushes \in Seq(Rows) /\ Len(pushes) \in Nat
    BY DEF TypeOK
<1>2. EndedFrom(0, pushes, notes', pushes')
    BY <1>1 DEF EndedFrom, RowStep
<1> QED BY <1>2 DEF Ending

\* These steps do to the rows what the end of one run does, or nothing.
LEMMA EndingSteps ==
    ASSUME TypeOK, InRange,
           \/ TurnBegins \/ CallMade \/ ReadPage \/ ClaimFails \/ Disable \/ Restart
           \/ UNCHANGED rowVars
           \/ \E r \in RunIds : RunTurnBegins(r) \/ MarkRunning(r) \/ RunMissed(r)
           \/ \E how \in Hows : TurnEnds(how)
    PROVE  \E r \in 0..MaxRuns : Ending(r)
<1>0. /\ pushes \in Seq(Rows) /\ notes \in Seq(Notes) /\ run \in [RunIds -> RunRows]
      /\ now \in Nat /\ Len(notes) \in Nat
    BY DEF TypeOK
<1>1. 0 \in 0..MaxRuns /\ RunIds \subseteq 0..MaxRuns
    BY PushAssumption DEF RunIds
<1>2. CASE \/ TurnBegins \/ CallMade \/ ReadPage \/ ClaimFails \/ Disable \/ UNCHANGED rowVars
    <2>1. /\ notes' = notes /\ pushes' = pushes /\ claims' = claims /\ now' = now /\ run' = run
          /\ account'.bot = account.bot
        BY <1>2 DEF TurnBegins, CallMade, ReadPage, ClaimFails, Disable, rowVars, turnVars,
                    sendVars, TypeOK
    <2> QED BY <1>1, <2>1, NoRunEnds
<1>3. ASSUME NEW r \in RunIds, RunTurnBegins(r) PROVE Ending(0)
    <2>1. /\ notes' = notes /\ pushes' = pushes /\ claims' = claims /\ now' = now
          /\ account' = account /\ run[r].state = "waiting"
          /\ run' = [run EXCEPT ![r].turn = turn'.open]
        BY <1>3 DEF RunTurnBegins, sendVars
    <2>2. \A q \in RunIds : run[q].state = "ended" => run'[q].state = "ended"
        BY <1>0, <2>1 DEF RunRows
    <2> QED BY <2>1, <2>2, NoRunEnds
<1>4. ASSUME NEW r \in RunIds, MarkRunning(r) PROVE Ending(r)
    <2>1. /\ notes' \in Seq(Notes) /\ Len(notes') = Len(notes)
          /\ \A n \in 1..Len(notes) :
                /\ notes'[n].turn = notes[n].turn /\ notes'[n].created = notes[n].created
                /\ notes'[n].run # notes[n].run =>
                      notes[n].run = None /\ notes'[n].run = r /\ run[r].turn = notes[n].turn
        BY <1>4, AttributedKeeps DEF MarkRunning
    <2>2. /\ claims' = claims /\ now' = now /\ account' = account /\ run[r].state = "waiting"
        BY <1>4 DEF MarkRunning, sendVars
    <2>3. CASE run[r].over = "no"
        <3>1. pushes' = pushes /\ run' = [run EXCEPT ![r].state = "running"]
            BY <1>4, <2>3 DEF MarkRunning
        <3>2. \A q \in RunIds : run[q].state = "ended" => run'[q].state = "ended"
            BY <1>0, <2>2, <3>1 DEF RunRows
        <3>3. EndedFrom(r, pushes, notes', pushes')
            <4>1. Len(pushes) \in Nat
                BY <1>0
            <4> QED BY <1>0, <3>1, <4>1 DEF EndedFrom, RowStep
        <3> QED BY <2>1, <2>2, <3>1, <3>2, <3>3 DEF Ending
    <2>4. CASE run[r].over # "no"
        <3>1. PICK every \in BOOLEAN : Ends(r, run[r].over, notes', every)
            BY <1>4, <2>4 DEF MarkRunning
        <3>2. EndedFrom(r, pushes, notes', pushes')
            BY <1>0, <2>1, <2>4, <3>1, RunEndedShape, RunEndedKnown DEF Ends
        <3>3. /\ run'[r].state = "ended"
              /\ \A q \in RunIds : run[q].state = "ended" => run'[q].state = "ended"
            BY <1>0, <3>1 DEF Ends, RunRows
        <3> QED BY <2>1, <2>2, <3>2, <3>3 DEF Ending
    <2> QED BY <2>3, <2>4
<1>5. ASSUME NEW r \in RunIds, RunMissed(r) PROVE Ending(r)
    <2>1. /\ notes' = notes /\ claims' = claims /\ now' = now /\ account' = account
          /\ run[r].state = "waiting"
          /\ run' = [run EXCEPT ![r].state = "ended", ![r].turn = None]
        BY <1>5 DEF RunMissed, sendVars
    <2>2. EndedFrom(r, pushes, notes, pushes')
        BY <1>0, <1>5, RunEndedShape DEF RunMissed
    <2>3. /\ run'[r].state = "ended"
          /\ \A q \in RunIds : run[q].state = "ended" => run'[q].state = "ended"
        BY <1>0, <2>1 DEF RunRows
    <2> QED BY <2>1, <2>2, <2>3 DEF Ending
<1>6. ASSUME NEW how \in Hows, TurnEnds(how) PROVE \E r \in 0..MaxRuns : Ending(r)
    <2> DEFINE mine == {r \in RunIds : run[r].turn = turn.open}
    <2>1. notes' = notes /\ claims' = claims /\ now' = now /\ account' = account
        BY <1>6 DEF TurnEnds, sendVars
    <2>2. ASSUME NEW r \in mine, NEW every \in BOOLEAN,
                 run[r].state = "running", Ends(r, how, notes, every)
          PROVE  Ending(r)
        <3>1. EndedFrom(r, pushes, notes, pushes')
            BY <1>0, <2>2, RunEndedShape DEF Ends
        <3>2. /\ run'[r].state = "ended"
              /\ \A q \in RunIds : run[q].state = "ended" => run'[q].state = "ended"
            BY <1>0, <2>2 DEF Ends, RunRows
        <3> QED BY <2>1, <2>2, <3>1, <3>2 DEF Ending
    <2>3. CASE /\ run' = [r \in RunIds |-> IF r \in mine /\ run[r].state = "waiting"
                                           THEN [run[r] EXCEPT !.over = how] ELSE run[r]]
               /\ pushes' = pushes
        <3>1. \A q \in RunIds : run[q].state = "ended" => run'[q].state = "ended"
            <4> HIDE DEF mine
            <4> QED BY <1>0, <2>3 DEF RunRows
        <3> QED BY <1>1, <2>1, <2>3, <3>1, NoRunEnds
    <2> QED BY <1>1, <1>6, <2>2, <2>3 DEF TurnEnds
<1>7. CASE Restart
    <2>1. notes' = notes /\ claims' = claims /\ now' = now /\ account' = account
        BY <1>7 DEF Restart
    <2>2. \A q \in RunIds : run[q].state = "ended" => run'[q].state = "ended"
        <3> SUFFICES ASSUME NEW q \in RunIds, run[q].state = "ended"
                     PROVE  run'[q].state = "ended"
            OBVIOUS
        <3>1. run'[q] = run[q]
            BY <1>7, Zenon DEF Restart
        <3> QED BY <3>1
    <2>3. /\ Recovered(pushes) \in Seq(Rows) /\ Len(Recovered(pushes)) = Len(pushes)
          /\ \A p \in 1..Len(pushes) : RowStep(pushes[p], Recovered(pushes)[p])
        BY <1>0, RecoveredKeeps
    <2>4. CASE pushes' = pushes
        BY <1>1, <2>1, <2>2, <2>4, NoRunEnds
    <2>5. CASE pushes' = Recovered(pushes)
        <3>1. Len(pushes) \in Nat
            BY <1>0
        <3>2. EndedFrom(0, pushes, notes', pushes')
            BY <2>3, <2>5, <3>1 DEF EndedFrom
        <3> QED BY <1>1, <2>1, <2>2, <2>3, <2>5, <3>2 DEF Ending
    <2>6. ASSUME NEW r \in RunIds, run[r].state = "running", run'[r].state = "ended", account.bot,
                 EndedFrom(r, Recovered(pushes), notes, pushes')
          PROVE  Ending(r)
        <3>1. EndedFrom(r, pushes, notes, pushes')
            <4>1. \A p \in 1..Len(pushes) : RowStep(pushes[p], pushes'[p])
                BY <2>3, <2>6 DEF EndedFrom, RowStep
            <4>2. /\ pushes' \in Seq(Rows) /\ Len(pushes') \in {Len(pushes), Len(pushes) + 1}
                BY <2>3, <2>6 DEF EndedFrom
            <4> QED BY <2>3, <2>6, <4>1, <4>2 DEF EndedFrom
        <3> QED BY <2>1, <2>2, <2>6, <3>1 DEF Ending
    <2> QED BY <1>1, <1>7, <2>4, <2>5, <2>6, RestartShape
<1> QED BY <1>1, <1>2, <1>3, <1>4, <1>5, <1>6, <1>7

\* Where no more than the rows' states change, what they say of their
\* notifications and claims stays, as long as a claimed row stays claimed and
\* one left to another stays so.
LEMMA StatesChange ==
    ASSUME TypeOK, Carries, ClaimsAreRows, Apart,
           notes' = notes, run' = run, claims' = claims, now' = now,
           Len(pushes') = Len(pushes), pushes' \in Seq(Rows),
           \A p \in 1..Len(pushes) :
               /\ pushes'[p].cause = pushes[p].cause /\ pushes'[p].note = pushes[p].note
               /\ pushes'[p].created = pushes[p].created /\ pushes'[p].sent = pushes[p].sent
               /\ pushes[p].state \in {"sending", "sent", "failed", "deleted"} =>
                      pushes'[p].state \in {"sending", "sent", "failed", "deleted"}
               /\ pushes[p].state \in {"merged", "deleted"} =>
                      pushes'[p].state \in {"merged", "deleted"}
    PROVE  Carries' /\ ClaimsAreRows' /\ Apart'
<1>1. DOMAIN pushes = 1..Len(pushes) /\ DOMAIN pushes' = 1..Len(pushes)
    <2> HIDE DEF Rows, Notes
    <2> QED BY DEF TypeOK
<1>2. Carries'
    BY <1>1 DEF Carries
<1>3. ClaimsAreRows'
    BY <1>1 DEF ClaimsAreRows
<1>4. \A p \in 1..Len(pushes) : LeftTo(p) => LeftTo(p)'
    BY <1>1 DEF LeftTo
<1>5. Apart'
    BY <1>1, <1>4 DEF Apart
<1> QED BY <1>2, <1>3, <1>5

\* Settling, deleting and pruning rows change no more than that.
LEMMA RowsSettle ==
    ASSUME TypeOK, Deleted, Carries, ClaimsAreRows, Apart,
           \/ DeleteBot \/ Prune \/ \E p \in DOMAIN pushes : Settle(p)
           \/ \E p \in DOMAIN pushes, state \in States :
                 /\ pushes[p].state = "queued" /\ Decided(p, state)
                 /\ notes' = notes /\ run' = run /\ now' = now /\ account' = account
    PROVE  Deleted' /\ Carries' /\ ClaimsAreRows' /\ Apart' /\ claims' = claims
<1>0. /\ pushes \in Seq(Rows) /\ Len(pushes) \in Nat /\ DOMAIN pushes = 1..Len(pushes)
      /\ \A p \in 1..Len(pushes) : pushes[p] \in Rows
      /\ account.bot \in BOOLEAN
    <2> HIDE DEF Rows, Notes
    <2> QED BY DEF TypeOK
<1>1. CASE DeleteBot
    <2>1. /\ notes' = notes /\ run' = run /\ claims' = claims /\ now' = now
          /\ account' = [account EXCEPT !.bot = FALSE]
          /\ pushes' = [p \in DOMAIN pushes |-> [pushes[p] EXCEPT !.state = "deleted"]]
        BY <1>1 DEF DeleteBot, turnVars, sendVars
    <2>2. /\ pushes' \in Seq(Rows) /\ Len(pushes') = Len(pushes)
          /\ \A p \in 1..Len(pushes) : pushes'[p] = [pushes[p] EXCEPT !.state = "deleted"]
        BY <1>0, <2>1, DeletedTypes
    <2>3. \A p \in 1..Len(pushes) :
              /\ pushes'[p].cause = pushes[p].cause /\ pushes'[p].note = pushes[p].note
              /\ pushes'[p].created = pushes[p].created /\ pushes'[p].sent = pushes[p].sent
              /\ pushes'[p].state = "deleted"
        BY <1>0, <2>2 DEF Rows
    <2>4. Carries' /\ ClaimsAreRows' /\ Apart'
        BY <2>1, <2>2, <2>3, StatesChange
    <2>5. DOMAIN pushes' = 1..Len(pushes) /\ ~account'.bot
        BY <1>0, <2>1 DEF TypeOK
    <2>6. Deleted'
        BY <2>3, <2>5 DEF Deleted
    <2> QED BY <2>1, <2>4, <2>6
<1>2. CASE Prune
    <2>1. notes' = notes /\ run' = run /\ claims' = claims /\ now' = now /\ account' = account
        BY <1>2 DEF Prune, turnVars, sendVars
    <2>2. /\ pushes' \in Seq(Rows) /\ Len(pushes') = Len(pushes)
          /\ \A p \in 1..Len(pushes) :
                \/ pushes'[p] = pushes[p]
                \/ /\ pushes[p].created =< now - Day
                   /\ pushes[p].state \notin {"queued", "sending", "deleted"}
                   /\ pushes'[p] = [pushes[p] EXCEPT !.state = "deleted"]
        BY <1>0, <1>2, PrunedTypes
    <2>3. \A p \in 1..Len(pushes) :
              /\ pushes'[p].cause = pushes[p].cause /\ pushes'[p].note = pushes[p].note
              /\ pushes'[p].created = pushes[p].created /\ pushes'[p].sent = pushes[p].sent
              /\ \/ pushes'[p].state = pushes[p].state
                 \/ /\ pushes[p].created =< now - Day
                    /\ pushes[p].state # "deleted" /\ pushes'[p].state = "deleted"
        BY ZenonT(60), <1>0, <2>2 DEF Rows
    <2>4. Carries' /\ ClaimsAreRows' /\ Apart'
        BY <2>1, <2>2, <2>3, StatesChange
    <2>5. DOMAIN pushes' = 1..Len(pushes)
        BY <1>0, <1>2 DEF Prune
    <2>6. Deleted'
        BY <1>0, <2>1, <2>3, <2>5 DEF Deleted
    <2> QED BY <2>1, <2>4, <2>6
<1>3. ASSUME NEW p \in DOMAIN pushes, NEW state \in States \ {"deleted"},
             pushes' = [pushes EXCEPT ![p].state = state],
             \/ pushes[p].state = "queued"
             \/ pushes[p].state = "sending" /\ state \in {"sent", "failed"},
             notes' = notes, run' = run, claims' = claims, now' = now, account' = account
      PROVE  Deleted' /\ Carries' /\ ClaimsAreRows' /\ Apart' /\ claims' = claims
    <2>1. /\ pushes' \in Seq(Rows) /\ Len(pushes') = Len(pushes)
          /\ \A q \in 1..Len(pushes) : q # p => pushes'[q] = pushes[q]
          /\ pushes'[p] = [pushes[p] EXCEPT !.state = state]
        BY <1>0, <1>3, RowTakesState
    <2>2. /\ pushes'[p].cause = pushes[p].cause /\ pushes'[p].note = pushes[p].note
          /\ pushes'[p].created = pushes[p].created /\ pushes'[p].sent = pushes[p].sent
          /\ pushes'[p].state = state
        BY <1>0, <1>3, <2>1 DEF Rows
    <2>3. Carries' /\ ClaimsAreRows' /\ Apart'
        BY <1>0, <1>3, <2>1, <2>2, StatesChange
    <2>4. DOMAIN pushes' = DOMAIN pushes
        BY <1>3
    <2>5. account.bot
        BY <1>0, <1>3 DEF Deleted
    <2>6. Deleted'
        BY <1>0, <1>3, <2>1, <2>2, <2>4, <2>5 DEF Deleted
    <2> QED BY <1>3, <2>3, <2>6
<1>4. ASSUME NEW p \in DOMAIN pushes, Settle(p)
      PROVE  Deleted' /\ Carries' /\ ClaimsAreRows' /\ Apart' /\ claims' = claims
    <2>1. notes' = notes /\ run' = run /\ claims' = claims /\ now' = now /\ account' = account
        BY <1>4 DEF Settle, turnVars
    <2>2. CASE pushes' = pushes
        BY <2>1, <2>2 DEF Deleted, Carries, ClaimsAreRows, Apart, LeftTo
    <2>3. ASSUME NEW state \in {"sent", "failed"}, pushes[p].state = "sending",
                 pushes' = [pushes EXCEPT ![p].state = state]
          PROVE  Deleted' /\ Carries' /\ ClaimsAreRows' /\ Apart' /\ claims' = claims
        <3>1. state \in States \ {"deleted"}
            BY <2>3 DEF States
        <3> QED BY <1>3, <2>1, <2>3, <3>1
    <2> QED BY <1>4, <2>2, <2>3 DEF Settle
<1>5. ASSUME NEW p \in DOMAIN pushes, NEW state \in States, pushes[p].state = "queued",
             Decided(p, state), notes' = notes, run' = run, now' = now, account' = account
      PROVE  Deleted' /\ Carries' /\ ClaimsAreRows' /\ Apart' /\ claims' = claims
    <2>1. /\ pushes' = [pushes EXCEPT ![p].state = state] /\ claims' = claims
          /\ state \in States \ {"deleted"}
        BY <1>5 DEF Decided
    <2> QED BY <1>3, <1>5, <2>1
<1> QED BY <1>1, <1>2, <1>4, <1>5

\* A row that is sent was not before, nor was its notification.
LEMMA SentKeeps ==
    ASSUME TypeOK, Deleted, Carries, ClaimsAreRows, ClaimedOnce, Apart,
           NEW p \in DOMAIN pushes, pushes[p].state = "queued", Sent(p),
           notes' = notes, run' = run, now' = now, account' = account
    PROVE  Deleted' /\ Carries' /\ ClaimsAreRows' /\ ClaimedOnce' /\ Apart'
<1>0. /\ DOMAIN pushes = 1..Len(pushes) /\ DOMAIN pushes' = 1..Len(pushes)
      /\ \A q \in 1..Len(pushes) : pushes[q] \in Rows
      /\ now \in Nat
    <2> HIDE DEF Rows, Notes, Claims
    <2> QED BY DEF TypeOK, Sent
<1>1. /\ \A q \in 1..Len(pushes) : q # p => pushes'[q] = pushes[q]
      /\ pushes'[p].cause = pushes[p].cause /\ pushes'[p].note = pushes[p].note
      /\ pushes'[p].created = pushes[p].created /\ pushes'[p].sent = now
      /\ pushes'[p].state = "sending"
    BY <1>0 DEF Sent, Rows
<1> DEFINE new == [push |-> p, note |-> pushes[p].note, at |-> now]
<1>2. /\ DOMAIN claims = 1..Len(claims) /\ DOMAIN claims' = 1..(Len(claims) + 1)
      /\ Len(claims) \in Nat
      /\ \A i \in 1..Len(claims) : claims'[i] = claims[i]
      /\ claims'[Len(claims) + 1] = new
    <2>1. claims \in Seq(Claims) /\ claims' = Append(claims, new)
        BY DEF TypeOK, Sent
    <2> HIDE DEF new, Claims
    <2> QED BY <2>1
<1>3. \A i \in DOMAIN claims' : i \in DOMAIN claims \/ i = Len(claims) + 1
    BY <1>2
<1>4. new.push = p /\ new.note = pushes[p].note /\ new.at = now
    OBVIOUS
<1>5. \A i \in DOMAIN claims : claims[i].push # p
    BY DEF ClaimsAreRows
<1> HIDE DEF new
<1>6. Deleted'
    BY <1>0, <1>1 DEF Deleted
<1>7. Carries'
    BY <1>0, <1>1 DEF Carries
<1>8. ClaimsAreRows'
    <2> SUFFICES ASSUME NEW i \in DOMAIN claims'
                 PROVE  /\ claims'[i].push \in DOMAIN pushes' /\ claims'[i].at =< now
                        /\ LET push == pushes'[claims'[i].push]
                           IN  /\ push.state \in {"sending", "sent", "failed", "deleted"}
                               /\ push.note = claims'[i].note /\ push.sent = claims'[i].at
                               /\ claims'[i].at - push.created < Hour
        BY DEF ClaimsAreRows
    <2>1. CASE i \in DOMAIN claims
        BY <1>0, <1>1, <1>2, <1>5, <2>1 DEF ClaimsAreRows
    <2>2. CASE i = Len(claims) + 1
        <3>1. now - pushes[p].created < Hour
            BY DEF Sent
        <3> QED BY <1>0, <1>1, <1>2, <1>4, <2>2, <3>1
    <2> QED BY <1>3, <2>1, <2>2
<1>9. ClaimedOnce'
    BY <1>2, <1>3, <1>4, <1>5 DEF ClaimedOnce
<1>10. \A q \in 1..Len(pushes) : LeftTo(q) => LeftTo(q)'
    BY <1>0, <1>1, <1>2, <1>3, <1>4 DEF LeftTo
<1>11. Apart'
    BY <1>0, <1>1, <1>10 DEF Apart
<1> QED BY <1>6, <1>7, <1>8, <1>9, <1>11

\* The clock only makes rows and claims older.
LEMMA ClockKeeps ==
    ASSUME TypeOK, Deleted, Carries, ClaimsAreRows, Apart, Clock
    PROVE  Deleted' /\ Carries' /\ ClaimsAreRows' /\ Apart' /\ claims' = claims
<1>0. /\ DOMAIN pushes = 1..Len(pushes)
      /\ \A q \in 1..Len(pushes) : pushes[q] \in Rows
      /\ \A i \in DOMAIN claims : claims[i] \in Claims
      /\ now \in Nat
    <2> HIDE DEF Rows, Notes, Claims
    <2> QED BY DEF TypeOK
<1>1. /\ notes' = notes /\ run' = run /\ claims' = claims /\ pushes' = pushes
      /\ account' = account /\ now' = now + 1
    BY DEF Clock, turnVars, sendVars
<1>2. Day \in Nat
    BY PushAssumption
<1>3. Deleted'
    <2>1. \A p \in DOMAIN pushes : pushes[p].created \in Nat
        BY <1>0 DEF Rows
    <2>2. \A p \in DOMAIN pushes :
              pushes[p].created =< now - Day => pushes[p].created =< now' - Day
        BY <1>0, <1>1, <1>2, <2>1
    <2> QED BY <1>1, <2>2 DEF Deleted
<1>4. Carries' /\ Apart'
    BY <1>1 DEF Carries, Apart, LeftTo
<1>5. ClaimsAreRows'
    <2>1. \A i \in DOMAIN claims : claims[i].at \in Nat
        BY <1>0 DEF Claims
    <2>2. \A i \in DOMAIN claims : claims[i].at =< now => claims[i].at =< now'
        BY <1>0, <1>1, <2>1
    <2> QED BY <1>1, <2>2 DEF ClaimsAreRows
<1> QED BY <1>1, <1>3, <1>4, <1>5

\* A notification is newer than every row, and so is its own row.
LEMMA NotifyKeeps ==
    ASSUME TypeOK, Deleted, Carries, ClaimsAreRows, Apart,
           NEW t \in calls, NEW kind \in Kinds, Notify(t, kind)
    PROVE  Deleted' /\ Carries' /\ ClaimsAreRows' /\ Apart' /\ claims' = claims
<1>0. /\ pushes \in Seq(Rows) /\ notes \in Seq(Notes)
      /\ DOMAIN pushes = 1..Len(pushes) /\ Len(pushes) \in Nat
      /\ DOMAIN notes = 1..Len(notes) /\ Len(notes) \in Nat
      /\ now \in Nat
    <2> HIDE DEF Rows, Notes, Claims
    <2> QED BY DEF TypeOK
<1>1. run' = run /\ claims' = claims /\ now' = now /\ account' = account
    BY DEF Notify, sendVars
<1>2. CASE notes' = notes /\ pushes' = pushes
    BY <1>1, <1>2 DEF Deleted, Carries, ClaimsAreRows, Apart, LeftTo
<1>3. CASE ~(notes' = notes /\ pushes' = pushes)
    <2> DEFINE new == [turn |-> t, run |-> RunOfTurn(t), kind |-> kind, created |-> now]
               note == Len(notes) + 1
    <2>1. /\ account.bot /\ notes' = Append(notes, new)
          /\ pushes' = pushes \/ pushes' = Queued(pushes, "notify", Len(notes'))
        BY <1>3 DEF Notify
    <2>2. /\ Len(notes') = note /\ note \in Nat
          /\ \A n \in 1..Len(notes) : notes'[n] = notes[n]
          /\ notes'[note] = new
        <3> HIDE DEF new
        <3> QED BY <1>0, <2>1
    <2>3. new.created = now
        OBVIOUS
    <2> HIDE DEF new, note
    <2>4. \A p \in 1..Len(pushes) : pushes[p].note \in 0..Len(notes)
        BY <1>0 DEF Carries
    <2>5. note > Len(notes) /\ note # None /\ note \in 0..note
        BY <1>0 DEF note, None
    \* The rows there were keep what they say of their notifications.
    <2>6. ASSUME NEW p \in 1..Len(pushes)
          PROVE  /\ pushes[p].note \in 0..note
                 /\ pushes[p].cause = "notify" =>
                       /\ pushes[p].note # None
                       /\ pushes[p].created = notes'[pushes[p].note].created
                 /\ pushes[p].cause # "notify" /\ pushes[p].note # None =>
                       \E r \in RunIds : notes'[pushes[p].note].run = r /\ run[r].state = "ended"
        <3>1. pushes[p].note # None => notes'[pushes[p].note] = notes[pushes[p].note]
            BY <2>2, <2>4 DEF None
        <3>2. pushes[p].note \in 0..note
            BY <1>0, <2>4, <2>5, <2>2
        <3> QED BY <1>0, <3>1, <3>2 DEF Carries
    <2>7. CASE pushes' = pushes
        BY <1>0, <1>1, <2>2, <2>6, <2>7 DEF Deleted, Carries, ClaimsAreRows, Apart, LeftTo
    <2>8. CASE pushes' # pushes
        <3>1. "notify" \in Causes /\ pushes' = Queued(pushes, "notify", note)
            BY <2>1, <2>2, <2>8 DEF Causes
        <3>2. /\ pushes' \in Seq(Rows) /\ Len(pushes') = Len(pushes) + 1
              /\ \A p \in 1..Len(pushes) : pushes'[p] = pushes[p]
              /\ pushes'[Len(pushes) + 1] = [cause |-> "notify", note |-> note, state |-> "queued",
                                             created |-> now, sent |-> 0]
            BY <1>0, <2>2, <2>8, <3>1, QueuedShape
        <3>3. /\ pushes'[Len(pushes) + 1].note = note /\ pushes'[Len(pushes) + 1].cause = "notify"
              /\ pushes'[Len(pushes) + 1].created = now /\ pushes'[Len(pushes) + 1].state = "queued"
            BY <3>2
        <3>4. /\ DOMAIN pushes' = 1..(Len(pushes) + 1)
              /\ \A p \in DOMAIN pushes' : p \in DOMAIN pushes \/ p = Len(pushes) + 1
              /\ DOMAIN pushes \subseteq DOMAIN pushes'
            <4>1. DOMAIN pushes' = 1..(Len(pushes) + 1)
                <5> HIDE DEF Rows
                <5> QED BY <1>0, <3>2
            <4> QED BY <1>0, <4>1
        <3>5. \A p \in DOMAIN pushes : pushes'[p] = pushes[p]
            BY <1>0, <3>2
        <3>6. Deleted'
            BY <1>1, <2>1, <3>3, <3>4, <3>5 DEF Deleted
        <3>7. Carries'
            BY <1>0, <1>1, <2>2, <2>3, <2>5, <2>6, <3>3, <3>4, <3>5 DEF Carries
        <3>8. ClaimsAreRows'
            BY <1>1, <3>4, <3>5 DEF ClaimsAreRows
        <3>9. \A p \in DOMAIN pushes : LeftTo(p) => LeftTo(p)'
            BY <1>1, <3>5 DEF LeftTo
        <3>10. \A p \in DOMAIN pushes : pushes[p].note # note
            BY <1>0, <2>4, <2>5, <2>2
        <3>11. Apart'
            BY <3>3, <3>4, <3>5, <3>9, <3>10 DEF Apart
        <3> QED BY <1>1, <3>6, <3>7, <3>8, <3>11
    <2> QED BY <2>7, <2>8
<1> QED BY <1>2, <1>3

-----------------------------------------------------------------------------

\* Every push being delivered stays one of this gateway's.
LEMMA StrandedStep ==
    ASSUME TypeOK, InRange, Deleted, NoneStranded, [Next]_vars
    PROVE  NoneStranded'
<1>0. /\ pushes \in Seq(Rows) /\ notes \in Seq(Notes)
      /\ DOMAIN pushes = 1..Len(pushes) /\ Len(pushes) \in Nat /\ now \in Nat
      /\ \A p \in 1..Len(pushes) : pushes[p] \in Rows
    <2> HIDE DEF Rows, Notes, Claims
    <2> QED BY SMTT(30) DEF TypeOK
<1>1. ASSUME NEW r \in 0..MaxRuns, Ending(r), flight' = flight PROVE NoneStranded'
    <2>1. /\ DOMAIN pushes' = 1..Len(pushes') /\ Len(pushes') \in {Len(pushes), Len(pushes) + 1}
          /\ \A p \in 1..Len(pushes) : RowStep(pushes[p], pushes'[p])
          /\ Len(pushes') = Len(pushes) + 1 => pushes'[Len(pushes')].state = "queued"
        BY SMTT(30), <1>1 DEF Ending, EndedFrom
    <2>2. \A p \in DOMAIN pushes' : \/ p \in DOMAIN pushes
                                    \/ p = Len(pushes') /\ Len(pushes') = Len(pushes) + 1
        <3>1. /\ Len(pushes) \in Nat /\ Len(pushes') \in {Len(pushes), Len(pushes) + 1}
              /\ DOMAIN pushes = 1..Len(pushes) /\ DOMAIN pushes' = 1..Len(pushes')
            BY <1>0, <2>1
        <3> QED BY ZenonT(40), <3>1, OneMore
    <2> QED BY <1>0, <1>1, <2>1, <2>2 DEF NoneStranded, RowStep
<1>2. CASE Restart
    <2>1. CASE ~account.bot /\ pushes' = pushes
        BY <2>1 DEF Deleted, NoneStranded
    <2>2. /\ Recovered(pushes) \in Seq(Rows) /\ Len(Recovered(pushes)) = Len(pushes)
          /\ \A p \in 1..Len(pushes) : Recovered(pushes)[p].state # "sending"
        BY <1>0, RecoveredKeeps
    <2>3. CASE pushes' = Recovered(pushes)
        <3>1. DOMAIN pushes' = 1..Len(pushes)
            BY <1>0, <2>3 DEF Recovered
        <3> QED BY <2>2, <2>3, <3>1 DEF NoneStranded
    <2>4. ASSUME NEW r \in RunIds, EndedFrom(r, Recovered(pushes), notes, pushes')
          PROVE  NoneStranded'
        <3>1. /\ DOMAIN pushes' = 1..Len(pushes') /\ Len(pushes') \in {Len(pushes), Len(pushes) + 1}
              /\ \A p \in 1..Len(pushes) : RowStep(Recovered(pushes)[p], pushes'[p])
              /\ Len(pushes') = Len(pushes) + 1 => pushes'[Len(pushes')].state = "queued"
            BY SMTT(30), <2>2, <2>4 DEF EndedFrom
        <3>2. \A p \in DOMAIN pushes' : \/ p \in 1..Len(pushes)
                                        \/ p = Len(pushes') /\ Len(pushes') = Len(pushes) + 1
            <4>1. /\ Len(pushes) \in Nat /\ Len(pushes') \in {Len(pushes), Len(pushes) + 1}
                  /\ DOMAIN pushes' = 1..Len(pushes')
                BY ZenonT(40), <1>0, <3>1
            <4> QED BY ZenonT(40), <4>1, OneMore
        <3>3. \A p \in DOMAIN pushes' : pushes'[p].state # "sending"
            BY ZenonT(40), <2>2, <3>1, <3>2 DEF RowStep
        <3> QED BY <3>3 DEF NoneStranded
    <2> QED BY <1>2, <2>1, <2>3, <2>4, RestartShape
<1>3. CASE Claim
    <2>1. CASE pushes' = pushes /\ flight' = flight
        BY <2>1 DEF NoneStranded
    <2>2. ASSUME NEW p \in DOMAIN pushes, NEW state \in States, Decided(p, state)
          PROVE  NoneStranded'
        <3>1. /\ DOMAIN pushes' = DOMAIN pushes /\ flight' = flight
              /\ \A q \in 1..Len(pushes) : q # p => pushes'[q] = pushes[q]
              /\ pushes'[p] = [pushes[p] EXCEPT !.state = state] /\ state # "sending"
            BY <1>0, <2>2, RowTakesState DEF Decided
        <3>2. pushes'[p].state = state
            BY <1>0, <3>1 DEF Rows
        <3> QED BY <1>0, <3>1, <3>2 DEF NoneStranded
    <2>3. ASSUME NEW p \in DOMAIN pushes, Sent(p)
          PROVE  NoneStranded'
        <3>1. DOMAIN pushes' = DOMAIN pushes
            <4> HIDE DEF Rows
            <4> QED BY <1>0, <2>3 DEF Sent
        <3> QED BY <1>0, <2>3, <3>1 DEF Sent, NoneStranded
    <2> QED BY <1>3, <2>1, <2>2, <2>3, ClaimShape
<1>4. ASSUME NEW p \in DOMAIN pushes, Settle(p) PROVE NoneStranded'
    <2>1. flight' = flight \ {p}
        BY <1>4 DEF Settle
    <2>2. CASE pushes[p].state # "sending"
        BY <1>4, <2>1, <2>2 DEF Settle, NoneStranded
    <2>3. ASSUME NEW state \in {"sent", "failed"}, pushes' = [pushes EXCEPT ![p].state = state]
          PROVE  NoneStranded'
        BY <1>0, <2>1, <2>3 DEF NoneStranded, Rows
    <2> QED BY <1>4, <2>2, <2>3 DEF Settle
<1>5. CASE DeleteBot
    BY <1>0, <1>5 DEF DeleteBot, NoneStranded, Rows
<1>6. CASE Prune
    <2>1. DOMAIN pushes' = DOMAIN pushes /\ flight' = flight
        BY <1>6 DEF Prune, sendVars
    <2>2. \A p \in DOMAIN pushes : pushes'[p].state \in {pushes[p].state, "deleted"}
        BY ZenonT(60), <1>0, <1>6, PrunedTypes DEF Rows
    <2> QED BY <2>1, <2>2 DEF NoneStranded
<1>7. ASSUME NEW t \in calls, NEW kind \in Kinds, Notify(t, kind) PROVE NoneStranded'
    <2>1. flight' = flight
        BY <1>7 DEF Notify, sendVars
    <2>2. \/ pushes' = pushes
          \/ pushes' = Queued(pushes, "notify", Len(notes'))
        BY <1>7 DEF Notify
    <2>3. pushes' = pushes \/ \E new : pushes' = Append(pushes, new) /\ new.state = "queued"
        BY <2>2 DEF Queued
    <2>4. ASSUME NEW new, pushes' = Append(pushes, new), new.state = "queued"
          PROVE  NoneStranded'
        BY <1>0, <2>1, <2>4 DEF NoneStranded
    <2>5. CASE pushes' = pushes
        BY <2>1, <2>5 DEF NoneStranded
    <2> QED BY <2>3, <2>4, <2>5
<1>8. CASE Clock
    BY <1>8 DEF Clock, sendVars, NoneStranded
<1>9. CASE \/ TurnBegins \/ CallMade \/ ReadPage \/ ClaimFails \/ Disable
           \/ UNCHANGED rowVars
           \/ \E r \in RunIds : RunTurnBegins(r) \/ MarkRunning(r) \/ RunMissed(r)
           \/ \E how \in Hows : TurnEnds(how)
    <2>1. flight' = flight
        BY <1>9 DEF TurnBegins, CallMade, ReadPage, ClaimFails, Disable, rowVars, RunTurnBegins,
                    MarkRunning, RunMissed, TurnEnds, sendVars
    <2> QED BY <1>1, <1>9, <2>1, EndingSteps
<1> QED BY <1>2, <1>3, <1>4, <1>5, <1>6, <1>7, <1>8, <1>9, Elsewhere DEF Next, Hows

-----------------------------------------------------------------------------

\* The claims of an hour have rows that count: a row is not deleted in the two
\* hours after it was queued, and so not in the hour after it was sent.
LEMMA LatestAreRecent ==
    ASSUME TypeOK, Deleted, ClaimsAreRows, ClaimedOnce, account.bot
    PROVE  LET W == {j \in DOMAIN claims : claims[j].at > now - Hour}
           IN  /\ IsFiniteSet(W)
               /\ Cardinality(W) \in Nat /\ Cardinality(Recent) \in Nat
               /\ Cardinality(W) =< Cardinality(Recent)
<1> DEFINE W == {j \in DOMAIN claims : claims[j].at > now - Hour}
           f == [j \in W |-> claims[j].push]
<1>1. /\ DOMAIN pushes = 1..Len(pushes) /\ Len(pushes) \in Nat /\ now \in Nat
      /\ \A p \in DOMAIN pushes : pushes[p] \in Rows
      /\ \A j \in DOMAIN claims : claims[j] \in Claims
    <2> HIDE DEF Rows, Notes, Claims
    <2> QED BY DEF TypeOK
<1>2. IsFiniteSet(DOMAIN pushes)
    BY <1>1, FS_Interval
<1>3. IsFiniteSet(Recent) /\ Cardinality(Recent) \in Nat
    BY <1>2, FS_Subset, FS_CardinalityType DEF Recent
<1>4. ASSUME NEW j \in W PROVE claims[j].push \in Recent
    <2> DEFINE p == claims[j].push
    <2>1. /\ p \in DOMAIN pushes
          /\ pushes[p].state \in {"sending", "sent", "failed", "deleted"}
          /\ pushes[p].sent = claims[j].at
          /\ claims[j].at - pushes[p].created < Hour
          /\ claims[j].at > now - Hour
        BY DEF ClaimsAreRows
    <2>2. claims[j].at \in Nat /\ pushes[p].created \in Nat
        BY <1>1, <2>1 DEF Rows, Claims
    <2>3. Day \in Nat /\ Hour \in Nat /\ Day >= 2 * Hour
        BY PushAssumption
    <2>4. ~(pushes[p].created =< now - Day)
        <3> HIDE DEF p
        <3>1. claims[j].at - pushes[p].created < Hour /\ claims[j].at > now - Hour
            BY <2>1
        <3> QED BY <1>1, <2>2, <2>3, <3>1
    <2>5. pushes[p].state # "deleted"
        BY <2>1, <2>4 DEF Deleted
    <2> HIDE DEF p
    <2> QED BY <2>1, <2>5 DEF Recent, p
<1>5. \A i, j \in W : i # j => f[i] # f[j]
    BY DEF ClaimedOnce
<1>6. f \in Injection(W, Recent)
    <2>1. f \in [W -> Recent]
        BY <1>4
    <2>2. DOMAIN f = W
        OBVIOUS
    <2> HIDE DEF f, W
    <2> QED BY <1>5, <2>1, <2>2 DEF Injection, IsInjective
<1>7. IsFiniteSet(W) /\ Cardinality(W) =< Cardinality(Recent)
    <2> HIDE DEF f, W
    <2> QED BY <1>3, <1>6, FS_Injection
<1>8. Cardinality(W) \in Nat
    <2> HIDE DEF W
    <2> QED BY <1>7, FS_CardinalityType
<1> QED BY <1>3, <1>7, <1>8

\* A push that is sent leaves no more than the limit in any hour.
LEMMA LimitStep ==
    ASSUME TypeOK, Deleted, ClaimsAreRows, ClaimedOnce, HourlyLimitKept,
           NEW p \in DOMAIN pushes, pushes[p].state = "queued", Sent(p)
    PROVE  HourlyLimitKept'
<1> DEFINE k == Len(claims) + 1
           new == [push |-> p, note |-> pushes[p].note, at |-> now]
           W == {j \in DOMAIN claims : claims[j].at > now - Hour}
<1>1. account.bot /\ now \in Nat /\ account.bot \in BOOLEAN
    BY DEF Deleted, TypeOK
<1>2. /\ DOMAIN claims = 1..Len(claims) /\ Len(claims) \in Nat
      /\ DOMAIN claims' = 1..k
      /\ \A j \in DOMAIN claims : claims'[j] = claims[j] /\ claims[j].at \in Nat
      /\ claims'[k] = new
    <2>1. claims \in Seq(Claims) /\ claims' = Append(claims, new)
        BY DEF TypeOK, Sent
    <2>2. /\ DOMAIN claims = 1..Len(claims) /\ Len(claims) \in Nat
          /\ DOMAIN claims' = 1..k
          /\ \A j \in 1..Len(claims) : claims'[j] = claims[j] /\ claims[j] \in Claims
          /\ claims'[k] = new
        <3> HIDE DEF new, Claims
        <3> QED BY <2>1
    <2> QED BY <2>2 DEF Claims
<1>3. \A j \in DOMAIN claims' : j \in DOMAIN claims \/ j = k
    BY <1>2
<1>4. claims'[k].at = now
    BY <1>2
<1>5. /\ IsFiniteSet(W) /\ Cardinality(W) \in Nat /\ Cardinality(Recent) \in Nat
      /\ Cardinality(W) =< Cardinality(Recent)
    BY <1>1, LatestAreRecent
<1>6. HourlyLimit \in Nat /\ Hour \in Nat /\ Hour > 0
    BY PushAssumption
<1>7. Cardinality(W) + 1 =< HourlyLimit
    <2>1. ~(Cardinality(Recent) >= HourlyLimit)
        BY DEF Sent
    <2> HIDE DEF W
    <2> QED BY <1>5, <1>6, <2>1
<1>8. IsFiniteSet(W \cup {k}) /\ Cardinality(W \cup {k}) =< HourlyLimit
    <2>1. k \notin W
        BY <1>2
    <2> HIDE DEF W, k
    <2>2. IsFiniteSet(W \cup {k}) /\ Cardinality(W \cup {k}) = Cardinality(W) + 1
        BY <1>5, <2>1, FS_AddElement
    <2> QED BY <1>7, <2>2
<1> HIDE DEF k, new
<1>9. SUFFICES ASSUME NEW i \in DOMAIN claims'
               PROVE  Cardinality({j \in DOMAIN claims' :
                          claims'[j].at \in claims'[i].at .. claims'[i].at + Hour - 1}) =< HourlyLimit
    BY DEF HourlyLimitKept
<1> DEFINE at == claims'[i].at
           H == {j \in DOMAIN claims' : claims'[j].at \in at .. at + Hour - 1}
<1>10. at \in Nat
    BY <1>1, <1>2, <1>3, <1>4
<1>11. CASE now =< at + Hour - 1
    <2>1. \A j \in DOMAIN claims : claims[j].at >= at => claims[j].at > now - Hour
        BY <1>1, <1>2, <1>6, <1>10, <1>11
    <2>2. H \subseteq W \cup {k}
        BY <1>2, <1>3, <1>10, <2>1
    <2> HIDE DEF H, W
    <2>3. Cardinality(H) =< Cardinality(W \cup {k}) /\ IsFiniteSet(H)
        BY <1>8, <2>2, FS_Subset
    <2>4. Cardinality(H) \in Nat /\ Cardinality(W \cup {k}) \in Nat
        BY <1>8, <2>3, FS_CardinalityType
    <2>5. Cardinality(H) =< HourlyLimit
        BY <1>6, <1>8, <2>3, <2>4
    <2> QED BY <2>5 DEF H
<1>12. CASE ~(now =< at + Hour - 1)
    <2>1. i \in DOMAIN claims
        <3>1. i # k
            BY <1>1, <1>4, <1>6, <1>12
        <3> QED BY <1>3, <3>1
    <2>2. at = claims[i].at
        BY <1>2, <2>1
    <2>3. H = {j \in DOMAIN claims : claims[j].at \in claims[i].at .. claims[i].at + Hour - 1}
        <3>1. ~(claims'[k].at \in at .. at + Hour - 1)
            BY <1>4, <1>12
        <3>2. DOMAIN claims \subseteq DOMAIN claims'
            BY <1>2 DEF k
        <3> QED BY <1>2, <1>3, <2>2, <3>1, <3>2
    <2> QED BY <2>1, <2>3 DEF HourlyLimitKept
<1> QED BY <1>11, <1>12

-----------------------------------------------------------------------------

\* The invariant holds at first.
LEMMA IInvInit == Init => IInv
<1> SUFFICES ASSUME Init PROVE IInv
    OBVIOUS
<1>1. notes = <<>> /\ pushes = <<>> /\ claims = <<>>
    BY DEF Init
<1>2. RunsOwnNotes /\ Young /\ Deleted /\ Carries /\ ClaimsAreRows /\ ClaimedOnce /\ Apart
    BY <1>1 DEF RunsOwnNotes, Young, Deleted, Carries, ClaimsAreRows, ClaimedOnce, Apart
<1>3. NoneStranded /\ HourlyLimitKept
    BY <1>1 DEF NoneStranded, HourlyLimitKept
<1> QED BY TypeInit, <1>2, <1>3 DEF IInv

\* No step breaks the invariant.
LEMMA IInvStep == IInv /\ [Next]_vars => IInv'
<1> SUFFICES ASSUME IInv, [Next]_vars PROVE IInv'
    OBVIOUS
<1>1. /\ TypeOK /\ InRange /\ RunsOwnNotes /\ Young /\ Deleted /\ Carries
      /\ ClaimsAreRows /\ ClaimedOnce /\ Apart /\ NoneStranded /\ HourlyLimitKept
    BY DEF IInv
<1>2. TypeOK' /\ InRange' /\ RunsOwnNotes' /\ Young' /\ NoneStranded'
    BY <1>1, TypeStep, OwnStep, StrandedStep
<1>3. notes' \in Seq(Notes)
    BY <1>2 DEF TypeOK
<1> DEFINE Rest == Deleted' /\ Carries' /\ ClaimsAreRows' /\ ClaimedOnce' /\ Apart' /\ HourlyLimitKept'
<1>0. SUFFICES Rest
    BY <1>2 DEF IInv
<1>4. claims' = claims => ClaimedOnce' /\ HourlyLimitKept'
    BY <1>1 DEF ClaimedOnce, HourlyLimitKept
<1>5. CASE \/ TurnBegins \/ CallMade \/ ReadPage \/ ClaimFails \/ Disable \/ Restart
           \/ UNCHANGED rowVars
           \/ \E r \in RunIds : RunTurnBegins(r) \/ MarkRunning(r) \/ RunMissed(r)
           \/ \E how \in Hows : TurnEnds(how)
    <2>1. PICK r \in 0..MaxRuns : Ending(r)
        BY <1>1, <1>5, EndingSteps
    <2>2. Deleted' /\ Carries' /\ ClaimsAreRows'
        BY <1>1, <1>3, <2>1, EndingKeeps
    <2>3. Apart'
        BY <1>1, <1>3, <2>1, EndingApart
    <2>4. claims' = claims
        BY <2>1 DEF Ending
    <2> QED BY <1>4, <2>2, <2>3, <2>4
<1>6. CASE DeleteBot \/ Prune \/ \E p \in DOMAIN pushes : Settle(p)
    BY <1>1, <1>4, <1>6, RowsSettle
<1>7. CASE Clock
    BY <1>1, <1>4, <1>7, ClockKeeps
<1>8. ASSUME NEW t \in calls, NEW kind \in Kinds, Notify(t, kind) PROVE Rest
    BY <1>1, <1>4, <1>8, NotifyKeeps
<1>9. CASE Claim
    <2>1. notes' = notes /\ run' = run /\ now' = now /\ account' = account
        BY <1>9 DEF Claim, turnVars
    <2>2. CASE pushes' = pushes /\ claims' = claims
        BY <1>1, <1>4, <2>1, <2>2 DEF Deleted, Carries, ClaimsAreRows, Apart, LeftTo
    <2>3. ASSUME NEW p \in DOMAIN pushes, pushes[p].state = "queued", Sent(p) PROVE Rest
        BY <1>1, <2>1, <2>3, SentKeeps, LimitStep
    <2>4. ASSUME NEW p \in DOMAIN pushes, pushes[p].state = "queued",
                 NEW state \in States, Decided(p, state)
          PROVE  Rest
        BY <1>1, <1>4, <2>1, <2>4, RowsSettle
    <2> QED BY <1>1, <1>9, <2>2, <2>3, <2>4, ClaimShape
<1> QED BY <1>5, <1>6, <1>7, <1>8, <1>9, Elsewhere DEF Next, Hows

\* So it holds always.
THEOREM Invariant == Spec => []IInv
BY IInvInit, IInvStep, PTL DEF Spec

\* Every state has its type: a run and a push are always in one of the states
\* the code knows, and the sender holds rows only.
THEOREM TypeCorrect == Spec => [](TypeOK /\ InRange)
<1>1. IInv => TypeOK /\ InRange
    BY DEF IInv
<1> QED BY <1>1, Invariant, PTL

\* No push is sent twice and no notification goes out in two pushes, however
\* the calls of a turn, the end of its run, the sender's pages, crashes and the
\* pruning of rows interleave (`run_ended`, `claim`, `recover`).
THEOREM SentOnce == Spec => []PushedOnce
<1>1. ASSUME IInv PROVE PushedOnce
    <2> SUFFICES ASSUME NEW i \in DOMAIN claims, NEW j \in DOMAIN claims, i # j
                 PROVE  /\ claims[i].push # claims[j].push
                        /\ claims[i].note # None => claims[i].note # claims[j].note
        BY DEF PushedOnce
    <2> DEFINE p == claims[i].push
               q == claims[j].push
    <2>1. p # q
        BY <1>1 DEF IInv, ClaimedOnce
    <2>2. /\ p \in DOMAIN pushes /\ pushes[p].note = claims[i].note
          /\ q \in DOMAIN pushes /\ pushes[q].note = claims[j].note
        BY <1>1 DEF IInv, ClaimsAreRows
    <2>3. ~LeftTo(p) /\ ~LeftTo(q)
        BY DEF LeftTo
    <2>4. pushes[p].note # None => pushes[p].note # pushes[q].note
        BY <1>1, <2>1, <2>2, <2>3 DEF IInv, Apart
    <2> QED BY <2>1, <2>2, <2>4
<1> QED BY <1>1, Invariant, PTL

\* In no hour are more pushes sent than the limit, though the rows that are
\* counted are settled, recovered and pruned meanwhile (`claim`).
THEOREM LimitedPerHour == Spec => []HourlyLimitKept
<1>1. IInv => HourlyLimitKept
    BY DEF IInv
<1> QED BY <1>1, Invariant, PTL

\* A push being delivered is one that this gateway will settle (`recover`,
\* `deliver`).
THEOREM DeliveredHere == Spec => []NoneStranded
<1>1. IInv => NoneStranded
    BY DEF IInv
<1> QED BY <1>1, Invariant, PTL

\* Delivering ends only subscriptions of endpoints that the push service says
\* are gone (`deliver_to`).
THEOREM GoneOnlyEnded == Spec => EndsOnlyGone
<1>1. ASSUME Deliver PROVE \A s \in subs \ subs' : s.endpoint \in gone
    <2>1. PICK task \in tasks : Taken(task) \/ Gone(task) \/ NotTaken(task) \/ TriedAgain(task)
        BY <1>1 DEF Deliver
    <2>2. CASE Gone(task)
        BY <2>2 DEF Gone, Without
    <2>3. CASE Taken(task) \/ NotTaken(task) \/ TriedAgain(task)
        BY <2>3 DEF Taken, NotTaken, TriedAgain, deviceVars
    <2> QED BY <2>1, <2>2, <2>3
<1>2. [Next]_vars => [Deliver => \A s \in subs \ subs' : s.endpoint \in gone]_vars
    BY <1>1
<1> QED BY <1>2, PTL DEF Spec, EndsOnlyGone

=============================================================================
