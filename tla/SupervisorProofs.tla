-------------------------- MODULE SupervisorProofs --------------------------
(*****************************************************************************)
(* What the gateway guarantees of the app-servers it runs, for any values of *)
(* the constants, whatever fails: their supervisor; the client of one        *)
(* app-server; and the calls of tools its turns make.  Each has an inductive *)
(* invariant of its own; the last section says what follows of MCSupervisor. *)
(*****************************************************************************)
EXTENDS MCSupervisor, Extrema, FiniteSetTheorems, SequenceTheorems, SequencesExt, TLAPS

Stages == {"begin", "household", "starting", "startingToCancel", "expiry", "stale", "asking",
           "slot", "replace", "signingOut", "checking", "cancel", "toCancel", "asksCode",
           "hasCode", "signsOut", "signingOutAll", "stopping", "done"}
Ops == [kind : Kinds, user : Owners, of : Nat, household : Nat, at : Stages]
Servers == [owner : Owners, up : BOOLEAN, alive : BOOLEAN, watched : BOOLEAN, holds : Nat]
Slots == [lock : Nat, server : Nat]
Logins == [id : Nat, server : Nat,
           state : {"none", "pending", "expired", "cancelled", "completed", "failed"},
           old : BOOLEAN]

TypeOK ==
    /\ token \in [signIn : Nat, fresh : BOOLEAN]
    /\ lastSignIn \in Nat /\ failedLately \in BOOLEAN
    /\ refreshing \in Nat
    /\ slot \in [Owners -> Slots]
    /\ server \in Seq(Servers)
    /\ auth \in [Users -> {"missing", "link", "file", "other"}]
    /\ tainted \in BOOLEAN
    /\ recovering \in SUBSET Users
    /\ login \in Logins
    /\ codes \in SUBSET [id : Nat, server : Nat]
    /\ news \in SUBSET [id : Nat, server : Nat, ok : BOOLEAN]
    /\ op \in Seq(Ops)
    /\ events \in Nat
    /\ signedOut \in SUBSET Nat

\* Every request that is not done is a user's, and is where its kind leads.
Proper(o) ==
    o.at # "done" =>
        /\ o.user \in Users
        /\ o.at \in {"expiry", "stale", "asking"} => o.kind \in {"use", "recover", "look"}
        /\ o.at \in {"cancel", "toCancel", "startingToCancel"} =>
               o.kind \in {"signIn", "cancel", "signOut"}
OpsAreProper == \A i \in DOMAIN op : Proper(op[i])

\* Who asks for a refresh or signs the household out holds `refreshing`, and who
\* starts a user's app server the lock of its slot.
LocksHeld ==
    \A i \in DOMAIN op :
        /\ op[i].at \in {"asking", "signingOutAll", "stopping"} => refreshing = i
        /\ op[i].at \in {"signingOut", "checking"} => slot[op[i].user].lock = i

\* The one app server of a user that may run is the one in its slot, or the last
\* that was started while the slot is locked.
Newest(u, s) == \A t \in DOMAIN server : server[t].owner = u => t =< s
OneEach ==
    \A s \in DOMAIN server :
        LET u == server[s].owner
        IN  u \in Users /\ server[s].alive =>
                IF slot[u].lock = None THEN s = slot[u].server ELSE Newest(u, s)

\* An app server that is being started is there.
Starters == {"signingOut", "checking"}
Starting(o) == o.at \in Starters \cup {"starting", "startingToCancel"}
HasServer(o) ==
    \E s \in DOMAIN server : server[s].owner = IF o.at \in Starters THEN o.user ELSE "household"
StartingIsThere == \A i \in DOMAIN op : Starting(op[i]) => HasServer(op[i])

\* A sign-in is signed out once, and never comes back.
SignInsEnd ==
    /\ token.signIn =< lastSignIn
    /\ \A n \in signedOut : n \in 1..lastSignIn /\ n # token.signIn

\* What runs is watched.
RunningIsWatched == \A s \in DOMAIN server : server[s].alive \/ server[s].up => server[s].watched

\* The request that started the latest sign-in is done.
LoginIsDone == login.id # None => login.id \in DOMAIN op /\ op[login.id].at = "done"

IInv ==
    /\ TypeOK /\ OpsAreProper /\ LocksHeld
    /\ StartingIsThere /\ OneEach /\ SignInsEnd /\ SignedOutEverywhere
    /\ RunningIsWatched /\ LoginIsDone

-----------------------------------------------------------------------------
(* How a step changes requests, app servers and slots. *)

\* Request i goes on, or is done.
OpGoes(i) ==
    /\ op' \in Seq(Ops) /\ Len(op') = Len(op)
    /\ \A j \in DOMAIN op : j # i => op'[j] = op[j]
    /\ op'[i].at # "done" => op'[i].user = op[i].user

\* An app server that is there stays as it is, or stops.
Fallen(before, after) ==
    /\ after.owner = before.owner /\ after.holds = before.holds
    /\ after.alive => before.alive
    /\ after.up => before.up
    /\ after.alive \/ after.up => after.watched = before.watched

\* A request that goes on is typed, and no other changes.
LEMMA GoesTo ==
    ASSUME op \in Seq(Ops), NEW i \in DOMAIN op, NEW at \in Stages, Goes(i, at)
    PROVE  OpGoes(i) /\ op'[i].at = at /\ (at # "done" => op'[i].kind = op[i].kind)
<1> DEFINE next == IF at = "done" THEN Finished ELSE [op[i] EXCEPT !.at = at]
<1>1. op' = [op EXCEPT ![i] = next]
  BY DEF Goes
<1>2. op[i] \in Ops
  OBVIOUS
<1>3. Finished \in Ops /\ Finished.at = "done"
  BY DEF Finished, Ops, Kinds, Owners, Stages, None
<1>4. next \in Ops /\ next.at = at /\ (at # "done" => next.user = op[i].user /\ next.kind = op[i].kind)
  BY <1>2, <1>3 DEF Ops
<1> HIDE DEF next
<1>5. op' \in Seq(Ops) /\ Len(op') = Len(op) /\ op'[i] = next
  BY <1>1, <1>4
<1>6. \A j \in DOMAIN op : j # i => op'[j] = op[j]
  BY <1>1
<1> QED
  BY <1>4, <1>5, <1>6 DEF OpGoes

\* So is one that changes and is not done.
LEMMA ChangesTo ==
    ASSUME op \in Seq(Ops), NEW i \in DOMAIN op, NEW next \in Ops,
           op' = [op EXCEPT ![i] = next], next.user = op[i].user
    PROVE  OpGoes(i) /\ op'[i] = next
<1>1. op' \in Seq(Ops) /\ Len(op') = Len(op) /\ op'[i] = next
  OBVIOUS
<1>2. \A j \in DOMAIN op : j # i => op'[j] = op[j]
  OBVIOUS
<1> QED
  BY <1>1, <1>2 DEF OpGoes

\* A request that fails is done.
LEMMA FailsTo ==
    ASSUME op \in Seq(Ops), NEW i \in DOMAIN op, FailsAt(i), recovering \in SUBSET Users
    PROVE  OpGoes(i) /\ op'[i].at = "done" /\ recovering' \in SUBSET Users
<1>1. Goes(i, "done") /\ recovering' \in SUBSET Users
  BY DEF FailsAt
<1>2. "done" \in Stages
  BY DEF Stages
<1> QED
  BY <1>1, <1>2, GoesTo

\* App servers that are stopped neither run nor are up; the others stay.
LEMMA StoppedFalls ==
    ASSUME server \in Seq(Servers), NEW S
    PROVE  /\ Stopped(S) \in Seq(Servers) /\ Len(Stopped(S)) = Len(server)
           /\ \A s \in DOMAIN server :
                  /\ Fallen(server[s], Stopped(S)[s])
                  /\ s \in S => ~Stopped(S)[s].alive
<1> DEFINE next(s) == IF s \in S THEN [server[s] EXCEPT !.alive = FALSE, !.up = FALSE] ELSE server[s]
<1>1. Stopped(S) = [s \in 1..Len(server) |-> next(s)]
  BY DEF Stopped
<1>2. ASSUME NEW s \in 1..Len(server)
      PROVE  next(s) \in Servers /\ Fallen(server[s], next(s)) /\ (s \in S => ~next(s).alive)
  <2>1. server[s] \in Servers
    OBVIOUS
  <2> QED
    BY <2>1 DEF Servers, Fallen
<1> HIDE DEF next
<1>3. Len(server) \in Nat
  OBVIOUS
<1>4. Stopped(S) \in Seq(Servers) /\ Len(Stopped(S)) = Len(server)
  BY <1>1, <1>2, <1>3
<1> QED
  BY <1>1, <1>2, <1>4

\* What becomes of a user's slot and app servers: they stay, none runs any more,
\* the one that was starting is put into the slot, or one starts and the slot
\* is locked.
Starts(u) == \E s \in DOMAIN server' \ DOMAIN server : server'[s].owner = u
Left(u) == slot'[u] = slot[u] /\ ~Starts(u)
NoneRuns(u) == \A s \in DOMAIN server' : server'[s].owner = u => ~server'[s].alive
Taken(u) ==
    /\ slot[u].lock # None /\ slot'[u].lock = None /\ ~Starts(u)
    /\ slot'[u].server \in DOMAIN server /\ server[slot'[u].server].owner = u
    /\ Newest(u, slot'[u].server)
Started(u) ==
    /\ slot'[u].lock # None /\ Len(server') = Len(server) + 1
    /\ \A s \in DOMAIN server : server'[s].owner = u => ~server'[s].alive

ServersFollow ==
    /\ server' \in Seq(Servers) /\ Len(server') \in {Len(server), Len(server) + 1}
    /\ \A s \in DOMAIN server : Fallen(server[s], server'[s])
    /\ \A s \in DOMAIN server' \ DOMAIN server :
           server'[s].watched /\ server'[s].holds \in {None, token.signIn}
    /\ \A u \in Users : Left(u) \/ NoneRuns(u) \/ Taken(u) \/ Started(u)

\* Then each user still has one app server at most that may run.
LEMMA OneEachKept ==
    ASSUME TypeOK, OneEach, RunningIsWatched, ServersFollow
    PROVE  OneEach' /\ RunningIsWatched'
<1> DEFINE n == Len(server)
<1>0. server \in Seq(Servers) /\ server' \in Seq(Servers) /\ n \in Nat
  BY DEF TypeOK, ServersFollow
<1>1. DOMAIN server = 1..n /\ DOMAIN server' = 1..Len(server') /\ Len(server') \in {n, n + 1}
  BY <1>0 DEF ServersFollow
<1> HIDE DEF n
<1>2. DOMAIN server \subseteq DOMAIN server'
  <2>1. \A m \in {n, n + 1} : 1..n \subseteq 1..m
    BY ONLY <1>0
  <2> QED
    BY <2>1, <1>1
<1>3. \A s \in DOMAIN server : server[s] \in Servers
  BY <1>0
<1>4. ASSUME NEW s \in DOMAIN server', NEW u \in Users, server'[s].owner = u, server'[s].alive
      PROVE  IF slot'[u].lock = None THEN s = slot'[u].server
             ELSE \A t \in DOMAIN server' : server'[t].owner = u => t =< s
  <2>1. CASE Left(u)
    <3>1. s \in DOMAIN server
      BY <2>1, <1>4 DEF Left, Starts
    <3>2. server[s].owner = u /\ server[s].alive
      BY <3>1, <1>4 DEF ServersFollow, Fallen
    <3>3. IF slot[u].lock = None THEN s = slot[u].server ELSE Newest(u, s)
      BY <3>1, <3>2 DEF OneEach
    <3>4. ASSUME Newest(u, s), NEW t \in DOMAIN server', server'[t].owner = u
          PROVE  t =< s
      <4>1. t \in DOMAIN server
        BY <2>1, <3>4 DEF Left, Starts
      <4>2. server[t].owner = u
        BY <4>1, <3>4 DEF ServersFollow, Fallen
      <4> QED
        BY <3>4, <4>1, <4>2 DEF Newest
    <3>5. slot'[u] = slot[u]
      BY <2>1 DEF Left
    <3> QED
      BY <3>3, <3>4, <3>5 DEF Newest
  <2>2. CASE NoneRuns(u)
    BY <2>2, <1>4 DEF NoneRuns
  <2>3. CASE Taken(u)
    <3>1. s \in DOMAIN server
      BY <2>3, <1>4 DEF Taken, Starts
    <3>2. server[s].owner = u /\ server[s].alive
      BY <3>1, <1>4 DEF ServersFollow, Fallen
    <3>3. Newest(u, s)
      BY <2>3, <3>1, <3>2 DEF OneEach, Taken
    <3>4. s =< slot'[u].server /\ slot'[u].server =< s
      BY <2>3, <3>1, <3>2, <3>3 DEF Taken, Newest
    <3>5. s = slot'[u].server
      <4>1. slot'[u].server \in 1..n /\ s \in 1..n
        BY <1>1, <2>3, <3>1 DEF Taken
      <4> QED
        BY <1>0, <4>1, <3>4
    <3> QED
      BY <2>3, <3>5 DEF Taken
  <2>4. CASE Started(u)
    <3>1. s \notin DOMAIN server
      BY <2>4, <1>4 DEF Started
    <3>2. s = n + 1 /\ Len(server') = n + 1
      <4>1. Len(server') = n + 1
        BY <2>4 DEF Started, n
      <4> QED
        BY <4>1, <3>1, <1>0, <1>1, <1>4
    <3>3. \A t \in DOMAIN server' : t =< s
      BY <3>2, <1>0, <1>1
    <3> QED
      BY <2>4, <3>3 DEF Started, Newest
  <2> QED
    BY <2>1, <2>2, <2>3, <2>4 DEF ServersFollow
<1>5. OneEach'
  BY <1>4 DEF OneEach, Newest
<1>6. RunningIsWatched'
  <2>1. ASSUME NEW s \in DOMAIN server', server'[s].alive \/ server'[s].up
        PROVE  server'[s].watched
    <3>1. CASE s \in DOMAIN server
      BY <2>1, <3>1 DEF ServersFollow, Fallen, RunningIsWatched
    <3> QED
      BY <3>1 DEF ServersFollow
  <2> QED
    BY <2>1 DEF RunningIsWatched
<1> QED
  BY <1>5, <1>6

\* What becomes of the household's sign-in: it stays, is new, or is gone.
SignInGoes ==
    \/ /\ token'.signIn \in {token.signIn, None}
       /\ lastSignIn' = lastSignIn /\ signedOut' = signedOut
    \/ /\ token'.signIn = lastSignIn + 1
       /\ lastSignIn' = lastSignIn + 1 /\ signedOut' = signedOut
    \/ /\ token'.signIn = None /\ lastSignIn' = lastSignIn
       /\ signedOut' = signedOut \cup ({token.signIn} \ {None})
       /\ \E i \in DOMAIN op' : op'[i].at = "stopping"

\* Only once users' app servers are stopped is a sign-out over.
SignOutGoes ==
    \/ \A i \in DOMAIN op : op[i].at # "stopping"
    \/ \E i \in DOMAIN op' : op'[i].at = "stopping"
    \/ \A u \in Users : NoneRuns(u)

\* Then no signed-out sign-in is used.
LEMMA SignedOutKept ==
    ASSUME TypeOK, SignInsEnd, SignedOutEverywhere, ServersFollow, SignInGoes, SignOutGoes
    PROVE  SignInsEnd' /\ SignedOutEverywhere'
<1>0. lastSignIn \in Nat /\ token.signIn \in Nat /\ None = 0
  BY DEF TypeOK, None
<1>1. SignInsEnd'
  BY <1>0 DEF SignInsEnd, SignInGoes
<1>2. ASSUME \A i \in DOMAIN op' : op'[i].at # "stopping", NEW s \in DOMAIN server',
             server'[s].owner \in Users, server'[s].alive
      PROVE  server'[s].holds \notin signedOut'
  <2>1. signedOut' = signedOut
    BY <1>2 DEF SignInGoes
  <2>2. \A i \in DOMAIN op : op[i].at # "stopping"
    BY <1>2 DEF SignOutGoes, NoneRuns
  <2>3. CASE s \in DOMAIN server
    <3>1. server[s].owner \in Users /\ server[s].alive /\ server'[s].holds = server[s].holds
      BY <2>3, <1>2 DEF ServersFollow, Fallen
    <3> QED
      BY <2>1, <2>2, <2>3, <3>1 DEF SignedOutEverywhere
  <2>4. CASE s \notin DOMAIN server
    <3>1. server'[s].holds \in {None, token.signIn}
      BY <2>4 DEF ServersFollow
    <3>2. None \notin signedOut /\ token.signIn \notin signedOut
      BY <1>0 DEF SignInsEnd
    <3> QED
      BY <2>1, <3>1, <3>2
  <2> QED
    BY <2>3, <2>4
<1> QED
  BY <1>1, <1>2 DEF SignedOutEverywhere

\* What becomes of the locks as request i goes on.
Refreshers == {"asking", "signingOutAll", "stopping"}
LocksFollow(i) ==
    /\ op[i].at # "done" /\ Proper(op'[i])
    /\ refreshing' = refreshing \/ refreshing \in {None, i}
    /\ op'[i].at \in Refreshers => refreshing' = i
    /\ \A u \in Users : slot'[u].lock = slot[u].lock \/ slot[u].lock \in {None, i}
    /\ op'[i].at \in Starters => slot'[op[i].user].lock = i
    /\ login'.id = login.id \/ (login'.id = i /\ op'[i].at = "done")

\* Then each lock is still held by who is at work with it.
LEMMA RequestGoesOn ==
    ASSUME TypeOK, OpsAreProper, LocksHeld, LoginIsDone,
           NEW i \in DOMAIN op, OpGoes(i), LocksFollow(i)
    PROVE  OpsAreProper' /\ LocksHeld' /\ LoginIsDone'
<1>0. op \in Seq(Ops) /\ op' \in Seq(Ops) /\ Len(op') = Len(op)
  BY DEF TypeOK, OpGoes
<1>1. DOMAIN op' = DOMAIN op /\ DOMAIN op = 1..Len(op) /\ Len(op) \in Nat
  BY <1>0
<1>2. \A j \in DOMAIN op : j # None
  BY <1>1 DEF None
<1>3. ASSUME NEW j \in DOMAIN op
      PROVE  /\ op'[j].at # "done" => op'[j].user = op[j].user /\ op[j].at # "done"
             /\ j # i => op'[j] = op[j]
  BY DEF OpGoes, LocksFollow
<1>4. OpsAreProper'
  BY <1>1, <1>3 DEF OpsAreProper, LocksFollow
<1>5. ASSUME NEW j \in DOMAIN op, op'[j].at \in Refreshers
      PROVE  refreshing' = j
  <2>1. CASE j = i
    BY <2>1, <1>5 DEF LocksFollow
  <2>2. CASE j # i
    <3>1. refreshing = j
      BY <2>2, <1>3, <1>5 DEF LocksHeld, Refreshers
    <3> QED
      BY <3>1, <2>2, <1>2 DEF LocksFollow
  <2> QED
    BY <2>1, <2>2
<1>6. ASSUME NEW j \in DOMAIN op, op'[j].at \in Starters
      PROVE  slot'[op'[j].user].lock = j
  <2>0. op'[j].user = op[j].user /\ op[j].user \in Users
    BY <1>3, <1>6 DEF OpsAreProper, Proper, Starters
  <2>1. CASE j = i
    BY <2>0, <2>1, <1>6 DEF LocksFollow
  <2>2. CASE j # i
    <3>1. slot[op[j].user].lock = j
      BY <2>2, <1>3, <1>6 DEF LocksHeld, Starters
    <3> QED
      BY <2>0, <3>1, <2>2, <1>2 DEF LocksFollow
  <2> QED
    BY <2>1, <2>2
<1>7. LocksHeld'
  BY <1>1, <1>5, <1>6 DEF LocksHeld, Refreshers, Starters
<1>8. LoginIsDone'
  <2>1. CASE login'.id = login.id
    BY <2>1, <1>1, <1>3 DEF LoginIsDone, LocksFollow
  <2>2. CASE login'.id = i /\ op'[i].at = "done"
    BY <2>2, <1>1 DEF LoginIsDone
  <2> QED
    BY <2>1, <2>2 DEF LocksFollow
<1> QED
  BY <1>4, <1>7, <1>8

\* The requests there are stay as they are, and one may be made.
OpsStay ==
    /\ \/ op' = op
       \/ \E r \in Ops : /\ op' = Append(op, r)
                         /\ Proper(r) /\ r.at \in {"household", "begin", "cancel"}
    /\ refreshing' = refreshing
    /\ \A u \in Users : slot'[u].lock = slot[u].lock
    /\ login'.id = login.id

LEMMA RequestsStay ==
    ASSUME TypeOK, OpsAreProper, LocksHeld, LoginIsDone, OpsStay
    PROVE  op' \in Seq(Ops) /\ OpsAreProper' /\ LocksHeld' /\ LoginIsDone'
<1>0. op \in Seq(Ops)
  BY DEF TypeOK
<1>1. op' \in Seq(Ops) /\ \A j \in DOMAIN op : j \in DOMAIN op' /\ op'[j] = op[j]
  <2>1. CASE op' = op
    BY <1>0, <2>1
  <2>2. CASE \E r \in Ops : op' = Append(op, r)
    BY <1>0, <2>2, AppendProperties
  <2> QED
    BY <2>1, <2>2 DEF OpsStay
<1>2. ASSUME NEW j \in DOMAIN op', j \notin DOMAIN op
      PROVE  Proper(op'[j]) /\ op'[j].at \in {"household", "begin", "cancel"}
  <2>1. PICK r \in Ops : /\ op' = Append(op, r)
                         /\ Proper(r) /\ r.at \in {"household", "begin", "cancel"}
    BY <1>2 DEF OpsStay
  <2>2. op'[j] = r
    BY <1>0, <1>2, <2>1, AppendProperties
  <2> QED
    BY <2>1, <2>2
<1>3. OpsAreProper'
  BY <1>1, <1>2 DEF OpsAreProper
<1>4. ASSUME NEW j \in DOMAIN op'
      PROVE  /\ op'[j].at \in Refreshers => refreshing' = j
             /\ op'[j].at \in Starters => slot'[op'[j].user].lock = j
  <2>1. CASE j \in DOMAIN op
    <3>1. op'[j] = op[j] /\ (op[j].at \in Starters => op[j].user \in Users)
      BY <1>1, <2>1 DEF OpsAreProper, Proper, Starters
    <3> QED
      BY <2>1, <3>1 DEF LocksHeld, Refreshers, Starters, OpsStay
  <2>2. CASE j \notin DOMAIN op
    BY <1>2, <2>2 DEF Refreshers, Starters
  <2> QED
    BY <2>1, <2>2
<1>5. LocksHeld'
  BY <1>4 DEF LocksHeld, Refreshers, Starters
<1>6. LoginIsDone'
  BY <1>1 DEF LoginIsDone, OpsStay
<1> QED
  BY <1>1, <1>3, <1>5, <1>6

\* All but the requests and the app servers is typed after the step.
RestTyped ==
    /\ token' \in [signIn : Nat, fresh : BOOLEAN]
    /\ lastSignIn' \in Nat /\ failedLately' \in BOOLEAN
    /\ refreshing' \in Nat
    /\ slot' \in [Owners -> Slots]
    /\ auth' \in [Users -> {"missing", "link", "file", "other"}]
    /\ tainted' \in BOOLEAN
    /\ recovering' \in SUBSET Users
    /\ login' \in Logins
    /\ codes' \in SUBSET [id : Nat, server : Nat]
    /\ news' \in SUBSET [id : Nat, server : Nat, ok : BOOLEAN]
    /\ events' \in Nat
    /\ signedOut' \in SUBSET Nat

\* What is being started stays there.
LEMMA StartingStays ==
    ASSUME TypeOK, StartingIsThere, ServersFollow,
           \/ OpsStay
           \/ \E i \in DOMAIN op : OpGoes(i) /\ (Starting(op'[i]) => HasServer(op[i])')
    PROVE  StartingIsThere'
<1>0. op \in Seq(Ops) /\ server \in Seq(Servers) /\ server' \in Seq(Servers)
      /\ Len(server') \in {Len(server), Len(server) + 1}
  BY DEF TypeOK, ServersFollow
<1>1. ASSUME NEW s \in DOMAIN server
      PROVE  s \in DOMAIN server' /\ server'[s].owner = server[s].owner
  BY <1>0, <1>1 DEF ServersFollow, Fallen
<1>2. ASSUME NEW o, HasServer(o)
      PROVE  \E s \in DOMAIN server' :
                 server'[s].owner = IF o.at \in Starters THEN o.user ELSE "household"
  BY <1>1, <1>2 DEF HasServer
<1>3. CASE OpsStay
  <2>1. ASSUME NEW j \in DOMAIN op', Starting(op'[j])
        PROVE  j \in DOMAIN op /\ op'[j] = op[j]
    <3>1. CASE op' = op
      BY <3>1
    <3>2. ASSUME NEW r \in Ops, op' = Append(op, r), r.at \in {"household", "begin", "cancel"}
          PROVE  j \in DOMAIN op /\ op'[j] = op[j]
      <4>1. j = Len(op) + 1 => op'[j] = r
        BY <1>0, <3>2, AppendProperties
      <4>2. j # Len(op) + 1
        BY <2>1, <3>2, <4>1 DEF Starting, Starters
      <4> QED
        BY <1>0, <3>2, <4>2, AppendProperties
    <3> QED
      BY <1>3, <3>1, <3>2 DEF OpsStay
  <2> QED
    BY <1>2, <2>1 DEF StartingIsThere, HasServer
<1>4. ASSUME NEW i \in DOMAIN op, OpGoes(i), Starting(op'[i]) => HasServer(op[i])'
      PROVE  StartingIsThere'
  <2>1. DOMAIN op' = DOMAIN op /\ \A j \in DOMAIN op : j # i => op'[j] = op[j]
    BY <1>0, <1>4 DEF OpGoes
  <2>2. ASSUME NEW j \in DOMAIN op, Starting(op'[j])
        PROVE  HasServer(op[j])'
    <3>1. CASE j = i
      BY <1>4, <2>2, <3>1
    <3>2. CASE j # i
      BY <1>2, <2>1, <2>2, <3>2 DEF StartingIsThere, HasServer
    <3> QED
      BY <3>1, <3>2
  <2> QED
    BY <2>1, <2>2 DEF StartingIsThere
<1> QED
  BY <1>3, <1>4

\* A step of request i changes no other, and asks for a refresh only when the
\* token needs one.
Asks(i) ==
    /\ \A j \in DOMAIN op : j # i => op'[j] = op[j]
    /\ op'[i].at = "asking" => NeedsRefresh /\ refreshing = None
Stays == \A j \in DOMAIN op : op'[j] = op[j]

\* A step of request i that does all this keeps the invariant.
LEMMA StepKeeps ==
    ASSUME IInv, NEW i \in DOMAIN op, OpGoes(i), LocksFollow(i), RestTyped,
           Starting(op'[i]) => HasServer(op[i])',
           op'[i].at = "asking" => NeedsRefresh /\ refreshing = None,
           ServersFollow, SignInGoes, SignOutGoes
    PROVE  IInv' /\ Asks(i)
<1>1. op' \in Seq(Ops) /\ server' \in Seq(Servers)
  BY DEF OpGoes, ServersFollow
<1>2. TypeOK'
  BY <1>1 DEF TypeOK, RestTyped
<1> QED
  BY <1>2, StartingStays, RequestGoesOn, OneEachKept, SignedOutKept DEF IInv, Asks, OpGoes

\* And so does one of no request.
LEMMA OtherStepKeeps ==
    ASSUME IInv, OpsStay, RestTyped, ServersFollow, SignInGoes, SignOutGoes
    PROVE  IInv' /\ Stays
<1>1. op' \in Seq(Ops) /\ server' \in Seq(Servers)
  BY RequestsStay DEF IInv, ServersFollow
<1>2. TypeOK'
  BY <1>1 DEF TypeOK, RestTyped
<1>3. Stays
  <2>1. op \in Seq(Ops)
    BY DEF IInv, TypeOK
  <2>2. \A r \in Ops, j \in DOMAIN op : Append(op, r)[j] = op[j]
    BY <2>1, AppendProperties
  <2> QED
    BY <2>2 DEF OpsStay, Stays
<1> QED
  BY <1>2, <1>3, StartingStays, RequestsStay, OneEachKept, SignedOutKept DEF IInv

\* The sign-out goes on while its request does.
LEMMA SignOutGoesOn ==
    ASSUME TypeOK,
           \/ OpsStay
           \/ \E i \in DOMAIN op : OpGoes(i) /\ op[i].at # "stopping"
    PROVE  SignOutGoes
<1>0. op \in Seq(Ops)
  BY DEF TypeOK
<1>1. ASSUME NEW k \in DOMAIN op, op[k].at = "stopping"
      PROVE  k \in DOMAIN op' /\ op'[k].at = "stopping"
  <2>1. CASE op' = op
    BY <1>1, <2>1
  <2>2. CASE \E r \in Ops : op' = Append(op, r)
    BY <1>0, <1>1, <2>2, AppendProperties
  <2>3. ASSUME NEW i \in DOMAIN op, OpGoes(i), op[i].at # "stopping"
        PROVE  k \in DOMAIN op' /\ op'[k].at = "stopping"
    <3>1. DOMAIN op' = DOMAIN op
      BY <1>0, <2>3 DEF OpGoes
    <3>2. op'[k] = op[k]
      BY <1>1, <2>3 DEF OpGoes
    <3> QED
      BY <1>1, <3>1, <3>2
  <2> QED
    BY <2>1, <2>2, <2>3 DEF OpsStay
<1> QED
  BY <1>1 DEF SignOutGoes

\* App servers that stay do, with no user's slot touched.
LEMMA ServersStay ==
    ASSUME TypeOK, server' = server, \A u \in Users : slot'[u] = slot[u]
    PROVE  ServersFollow
<1>1. server \in Seq(Servers)
  BY DEF TypeOK
<1>2. \A u \in Users : Left(u)
  BY DEF Left, Starts
<1>3. \A s \in DOMAIN server : Fallen(server[s], server[s])
  BY DEF Fallen
<1> QED
  BY <1>1, <1>2, <1>3 DEF ServersFollow

\* A step of a request that touches no app server.
LEMMA QuietStepKeeps ==
    ASSUME IInv, NEW i \in DOMAIN op, OpGoes(i), op[i].at \notin {"done", "stopping"},
           UNCHANGED <<server, slot, lastSignIn, signedOut>>, token'.signIn = token.signIn,
           RestTyped,
           refreshing' = refreshing \/ refreshing \in {None, i},
           op'[i].at \in Refreshers => refreshing' = i,
           ~Starting(op'[i]), Proper(op'[i]),
           op'[i].at = "asking" => NeedsRefresh /\ refreshing = None,
           login'.id = login.id \/ (login'.id = i /\ op'[i].at = "done")
    PROVE  IInv' /\ Asks(i)
<1>1. LocksFollow(i)
  BY DEF LocksFollow, Starting
<1>2. ServersFollow /\ SignOutGoes
  BY ServersStay, SignOutGoesOn DEF IInv
<1>3. SignInGoes
  BY DEF SignInGoes
<1> QED
  BY <1>1, <1>2, <1>3, StepKeeps

-----------------------------------------------------------------------------
(* The requests' own steps. *)

\* What is known of a request that is at work.
LEMMA AtWork ==
    ASSUME IInv, NEW i \in DOMAIN op, op[i].at # "done"
    PROVE  /\ TypeOK /\ op \in Seq(Ops) /\ op[i] \in Ops /\ Proper(op[i])
           /\ op[i].user \in Users /\ recovering \in SUBSET Users /\ i \in Nat
<1>1. TypeOK /\ op \in Seq(Ops) /\ recovering \in SUBSET Users /\ OpsAreProper
  BY DEF IInv, TypeOK
<1> QED
  BY <1>1 DEF OpsAreProper, Proper

\* A restart begins, or is not made.
LEMMA BeginRecoveryKeeps ==
    ASSUME IInv, NEW i \in DOMAIN op, BeginRecovery(i)
    PROVE  IInv' /\ Asks(i)
<1>0. op[i].at = "begin"
  BY DEF BeginRecovery, At
<1>1. PICK at \in {"done", "household"} : Goes(i, at)
  BY DEF BeginRecovery
<1>2. OpGoes(i) /\ op'[i].at = at /\ Proper(op'[i])
  BY <1>0, <1>1, AtWork, GoesTo DEF Stages, OpGoes, Proper
<1>3. RestTyped
  BY <1>0, AtWork DEF BeginRecovery, TypeOK, RestTyped, tokenVars, loginVars
<1>4. UNCHANGED <<server, slot, token, lastSignIn, signedOut, refreshing, login>>
  BY DEF BeginRecovery, tokenVars, loginVars
<1> QED
  BY <1>0, <1>2, <1>3, <1>4, QuietStepKeeps DEF Refreshers, Starters, Starting

\* Where a request goes on after the checks.
LEMMA GoesOnAfterEnsure ==
    ASSUME IInv, NEW i \in DOMAIN op, op[i].at \in {"expiry", "stale", "asking"},
           Goes(i, AfterEnsure(op[i].kind))
    PROVE  OpGoes(i) /\ op'[i].at \in {"slot", "replace", "done"} /\ Proper(op'[i])
<1>0. op \in Seq(Ops) /\ op[i] \in Ops /\ op[i].user \in Users
  BY AtWork
<1>1. op[i].kind \in {"use", "recover", "look"}
  BY AtWork DEF Proper
<1>2. AfterEnsure(op[i].kind) \in {"slot", "replace", "done"}
  BY <1>1 DEF AfterEnsure
<1>3. PICK at \in {"slot", "replace", "done"} : Goes(i, at)
  BY <1>2
<1> QED
  BY <1>0, <1>3, GoesTo DEF Stages, OpGoes, Proper

\* The token is looked at.
LEMMA LookAtExpiryKeeps ==
    ASSUME IInv, NEW i \in DOMAIN op, LookAtExpiry(i)
    PROVE  IInv' /\ Asks(i)
<1>0. op[i].at = "expiry"
  BY DEF LookAtExpiry, At
<1>1. OpGoes(i) /\ op'[i].at \in {"slot", "replace", "done", "stale"} /\ Proper(op'[i])
      /\ recovering' \in SUBSET Users
  <2>1. CASE Usable
    BY <1>0, <2>1, AtWork, GoesOnAfterEnsure DEF LookAtExpiry
  <2>2. CASE ~SignedIn
    BY <1>0, <2>2, AtWork, FailsTo DEF LookAtExpiry, Usable, Proper
  <2>3. CASE SignedIn /\ ~Usable
    <3>1. Goes(i, "stale") /\ UNCHANGED recovering
      BY <2>3 DEF LookAtExpiry
    <3>2. OpGoes(i) /\ op'[i].at = "stale" /\ op'[i].kind = op[i].kind
      BY <1>0, <3>1, AtWork, GoesTo DEF Stages
    <3> QED
      BY <1>0, <3>1, <3>2, AtWork DEF Proper, OpGoes
  <2> QED
    BY <2>1, <2>2, <2>3
<1>2. RestTyped
  BY <1>0, <1>1, AtWork DEF LookAtExpiry, TypeOK, RestTyped, tokenVars, loginVars
<1>3. UNCHANGED <<server, slot, token, lastSignIn, signedOut, refreshing, login>>
  BY DEF LookAtExpiry, tokenVars, loginVars
<1> QED
  BY <1>0, <1>1, <1>2, <1>3, QuietStepKeeps DEF Refreshers, Starters, Starting

\* A refresh is asked for, or is not needed any more.
LEMMA AskRefreshKeeps ==
    ASSUME IInv, NEW i \in DOMAIN op, AskRefresh(i)
    PROVE  IInv' /\ Asks(i)
<1>0. op[i].at = "stale" /\ refreshing = None
  BY DEF AskRefresh, At
<1>1. OpGoes(i) /\ Proper(op'[i]) /\ recovering' \in SUBSET Users
      /\ op'[i].at \in {"slot", "replace", "done", "asking"}
      /\ refreshing' \in {refreshing, i}
      /\ (op'[i].at = "asking" => refreshing' = i /\ NeedsRefresh)
  <2>1. CASE NeedsRefresh
    <3>1. Goes(i, "asking") /\ UNCHANGED recovering /\ refreshing' = i
      BY <2>1 DEF AskRefresh
    <3>2. OpGoes(i) /\ op'[i].at = "asking" /\ op'[i].kind = op[i].kind
      BY <1>0, <3>1, AtWork, GoesTo DEF Stages
    <3> QED
      BY <1>0, <2>1, <3>1, <3>2, AtWork DEF Proper, OpGoes
  <2>2. CASE ~NeedsRefresh /\ Usable
    BY <1>0, <2>2, AtWork, GoesOnAfterEnsure DEF AskRefresh
  <2>3. CASE ~NeedsRefresh /\ ~Usable
    BY <1>0, <2>3, AtWork, FailsTo DEF AskRefresh, Proper
  <2> QED
    BY <2>1, <2>2, <2>3
<1>2. RestTyped
  BY <1>0, <1>1, AtWork DEF AskRefresh, TypeOK, RestTyped, tokenVars, loginVars
<1>3. UNCHANGED <<server, slot, token, lastSignIn, signedOut, login>>
  BY DEF AskRefresh, tokenVars, loginVars
<1> QED
  BY <1>0, <1>1, <1>2, <1>3, QuietStepKeeps DEF Refreshers, Starters, Starting

\* The refresh is answered.
LEMMA RefreshedKeeps ==
    ASSUME IInv, NEW i \in DOMAIN op, Refreshed(i)
    PROVE  IInv' /\ Asks(i)
<1>0. op[i].at = "asking" /\ refreshing = i /\ refreshing' = None
  BY DEF Refreshed, At, IInv, LocksHeld
<1>1. OpGoes(i) /\ Proper(op'[i]) /\ recovering' \in SUBSET Users
      /\ op'[i].at \in {"slot", "replace", "done"}
  <2>1. CASE token'.fresh /\ SignedIn
    BY <1>0, <2>1, AtWork, GoesOnAfterEnsure DEF Refreshed
  <2>2. CASE ~(token'.fresh /\ SignedIn)
    BY <1>0, <2>2, AtWork, FailsTo DEF Refreshed, Proper
  <2> QED
    BY <2>1, <2>2
<1>2. token' \in [signIn : Nat, fresh : BOOLEAN] /\ token'.signIn = token.signIn
  BY <1>0, AtWork DEF Refreshed, TypeOK
<1>3. failedLately' \in BOOLEAN
  BY <1>0, AtWork DEF Refreshed, TypeOK
<1>4. UNCHANGED <<lastSignIn, slot, server, auth, tainted, loginVars, events, signedOut>>
  BY DEF Refreshed
<1>5. RestTyped
  BY <1>0, <1>1, <1>2, <1>3, <1>4, AtWork DEF TypeOK, RestTyped, loginVars, None
<1> QED
  BY <1>0, <1>1, <1>2, <1>4, <1>5, QuietStepKeeps DEF Refreshers, Starters, Starting, loginVars

\* Where a request goes on after a sign-in was cancelled.
LEMMA GoesOnAfterCancel ==
    ASSUME IInv, NEW i \in DOMAIN op, op[i].at \in {"cancel", "toCancel", "startingToCancel"},
           Goes(i, AfterCancel(op[i].kind))
    PROVE  OpGoes(i) /\ op'[i].at \in {"asksCode", "signsOut", "done"} /\ Proper(op'[i])
<1>0. op \in Seq(Ops) /\ op[i] \in Ops /\ op[i].user \in Users
  BY AtWork
<1>1. op[i].kind \in {"signIn", "cancel", "signOut"}
  BY AtWork DEF Proper
<1>2. AfterCancel(op[i].kind) \in {"asksCode", "signsOut", "done"}
  BY <1>1 DEF AfterCancel
<1>3. PICK at \in {"asksCode", "signsOut", "done"} : Goes(i, at)
  BY <1>2
<1> QED
  BY <1>0, <1>3, GoesTo DEF Stages, OpGoes, Proper

\* What a sign-in is once it may have expired.
LEMMA ExpireTypes ==
    ASSUME NEW l \in Logins
    PROVE  /\ Expire(l) \in Logins /\ Expire(l).id = l.id
           /\ Expire(l) # l => l.state = "pending" /\ Expire(l).state = "expired"
           /\ Expire(l).state = "pending" => Expire(l) = l
  BY DEF Expire, Logins

\* A pending sign-in is cancelled.
LEMMA CancelKeeps ==
    ASSUME IInv, NEW i \in DOMAIN op, Cancel(i)
    PROVE  IInv' /\ Asks(i)
<1>0. op[i].at = "cancel" /\ login \in Logins
  BY DEF Cancel, At, IInv, TypeOK
<1>1. Expire(login) \in Logins /\ Expire(login).id = login.id
  BY <1>0, ExpireTypes
<1>2. login' \in Logins /\ login'.id = login.id
  <2>1. login' = Expire(login) \/ login' = [Expire(login) EXCEPT !.state = "cancelled"]
    BY DEF Cancel
  <2> QED
    BY <1>1, <2>1 DEF Logins
<1>3. OpGoes(i) /\ Proper(op'[i]) /\ op'[i].at \in {"toCancel", "asksCode", "signsOut", "done"}
  <2>1. CASE Expire(login).state = "pending"
    <3> DEFINE next == [op[i] EXCEPT !.at = "toCancel", !.of = Expire(login).id]
    <3>1. next \in Ops /\ next.user = op[i].user /\ next.kind = op[i].kind /\ next.at = "toCancel"
      <4>1. op[i] \in Ops /\ Expire(login).id \in Nat
        BY <1>0, <1>1, AtWork DEF Logins
      <4> QED
        BY <4>1 DEF Ops, Stages
    <3>2. op' = [op EXCEPT ![i] = next]
      BY <2>1, <1>0, AtWork DEF Cancel
    <3> HIDE DEF next
    <3>3. OpGoes(i) /\ op'[i] = next
      BY <1>0, <3>1, <3>2, AtWork, ChangesTo
    <3> QED
      BY <1>0, <3>1, <3>3, AtWork DEF Proper
  <2>2. CASE Expire(login).state # "pending"
    BY <1>0, <2>2, GoesOnAfterCancel DEF Cancel
  <2> QED
    BY <2>1, <2>2
<1>4. UNCHANGED <<tokenVars, refreshing, slot, server, auth, tainted, recovering, codes, news,
                  events, signedOut>>
  BY DEF Cancel
<1>5. RestTyped
  BY <1>0, <1>2, <1>4, AtWork DEF TypeOK, RestTyped, tokenVars
<1> QED
  BY <1>0, <1>2, <1>3, <1>4, <1>5, QuietStepKeeps DEF Refreshers, Starters, Starting, tokenVars

\* A device code is asked for.
LEMMA AskCodeKeeps ==
    ASSUME IInv, NEW i \in DOMAIN op, AskCode(i)
    PROVE  IInv' /\ Asks(i)
<1>0. op[i].at = "asksCode"
  BY DEF AskCode, At
<1>1. PICK at \in {"hasCode", "done"} : Goes(i, at)
  BY DEF AskCode
<1>2. OpGoes(i) /\ op'[i].at = at /\ Proper(op'[i])
  BY <1>0, <1>1, AtWork, GoesTo DEF Stages, OpGoes, Proper
<1>3. codes' \in SUBSET [id : Nat, server : Nat]
  BY <1>0, AtWork DEF AskCode, TypeOK, Ops
<1>4. UNCHANGED <<tokenVars, refreshing, slot, server, auth, tainted, recovering, login, news,
                  events, signedOut>>
  BY DEF AskCode
<1>5. RestTyped
  BY <1>0, <1>3, <1>4, AtWork DEF TypeOK, RestTyped, tokenVars
<1> QED
  BY <1>0, <1>2, <1>4, <1>5, QuietStepKeeps DEF Refreshers, Starters, Starting, tokenVars

\* And is the latest sign-in's.
LEMMA KeepLoginKeeps ==
    ASSUME IInv, NEW i \in DOMAIN op, KeepLogin(i)
    PROVE  IInv' /\ Asks(i)
<1>0. op[i].at = "hasCode" /\ Goes(i, "done")
  BY DEF KeepLogin, At
<1>1. OpGoes(i) /\ op'[i].at = "done"
  BY <1>0, AtWork, GoesTo DEF Stages
<1>2. login' \in Logins /\ login'.id = i
  BY <1>0, AtWork DEF KeepLogin, Logins, Ops
<1>3. UNCHANGED <<tokenVars, refreshing, slot, server, auth, tainted, recovering, codes, news,
                  events, signedOut>>
  BY DEF KeepLogin
<1>4. RestTyped
  BY <1>0, <1>2, <1>3, AtWork DEF TypeOK, RestTyped, tokenVars
<1> QED
  BY <1>0, <1>1, <1>2, <1>3, <1>4, QuietStepKeeps DEF Refreshers, Starters, Starting, tokenVars, Proper

\* The household is being signed out.
LEMMA AskSignOutKeeps ==
    ASSUME IInv, NEW i \in DOMAIN op, AskSignOut(i)
    PROVE  IInv' /\ Asks(i)
<1>0. op[i].at = "signsOut" /\ refreshing = None /\ refreshing' = i /\ Goes(i, "signingOutAll")
  BY DEF AskSignOut, At, SignOutTurn
<1>1. OpGoes(i) /\ op'[i].at = "signingOutAll" /\ Proper(op'[i])
  BY <1>0, AtWork, GoesTo DEF Stages, OpGoes, Proper
<1>2. UNCHANGED <<tokenVars, slot, server, auth, tainted, recovering, loginVars, events, signedOut>>
  BY DEF AskSignOut
<1>3. RestTyped
  BY <1>0, <1>2, AtWork DEF TypeOK, RestTyped, tokenVars, loginVars
<1> QED
  BY <1>0, <1>1, <1>2, <1>3, QuietStepKeeps DEF Starters, Starting, tokenVars, loginVars

\* It was, or it failed.
LEMMA SignOutAnsweredKeeps ==
    ASSUME IInv, NEW i \in DOMAIN op, SignOutAnswered(i)
    PROVE  IInv' /\ Asks(i)
<1>0. op[i].at = "signingOutAll" /\ refreshing = i
  BY DEF SignOutAnswered, At, IInv, LocksHeld
<1>1. PICK at \in {"stopping", "done"} :
          /\ Goes(i, at)
          /\ refreshing' = IF at = "stopping" THEN i ELSE None
          /\ token' = token \/ token' = [token EXCEPT !.signIn = None]
          /\ IF at = "stopping"
             THEN token' = [token EXCEPT !.signIn = None]
                  /\ signedOut' = signedOut \cup ({token.signIn} \ {None})
             ELSE signedOut' = signedOut
  BY <1>0 DEF SignOutAnswered
<1>2. OpGoes(i) /\ op'[i].at = at /\ Proper(op'[i])
  BY <1>0, <1>1, AtWork, GoesTo DEF Stages, OpGoes, Proper
<1>3. UNCHANGED <<lastSignIn, failedLately, slot, server, auth, tainted, recovering, loginVars,
                  events>>
  BY DEF SignOutAnswered
<1>4. /\ token' \in [signIn : Nat, fresh : BOOLEAN] /\ token'.signIn \in {token.signIn, None}
      /\ at = "stopping" => token'.signIn = None
      /\ signedOut' \in SUBSET Nat
  <2>1. token \in [signIn : Nat, fresh : BOOLEAN] /\ signedOut \in SUBSET Nat /\ None \in Nat
    BY <1>0, AtWork DEF TypeOK, None
  <2>2. LET gone == [token EXCEPT !.signIn = None]
        IN  gone \in [signIn : Nat, fresh : BOOLEAN] /\ gone.signIn = None
    BY <2>1
  <2>3. token.signIn \in Nat
    BY <2>1
  <2> QED
    BY <1>1, <2>1, <2>2, <2>3
<1>5. RestTyped
  BY <1>0, <1>1, <1>3, <1>4, AtWork DEF TypeOK, RestTyped, loginVars, None
<1>6. LocksFollow(i)
  BY <1>0, <1>1, <1>2, <1>3 DEF LocksFollow, Refreshers, Starters, loginVars
<1>7. ServersFollow /\ SignOutGoes
  BY <1>0, <1>2, <1>3, AtWork, ServersStay, SignOutGoesOn
<1>8. i \in DOMAIN op'
  BY <1>0, <1>2, AtWork DEF OpGoes
<1>9. SignInGoes
  BY <1>1, <1>2, <1>3, <1>4, <1>8 DEF SignInGoes
<1> QED
  BY <1>2, <1>5, <1>6, <1>7, <1>9, StepKeeps DEF Starting, Starters

\* An app server starts, and others may have been stopped.
LEMMA StartFollows ==
    ASSUME server \in Seq(Servers), NEW S, NEW new \in Servers, server' = Append(Stopped(S), new)
    PROVE  /\ server' \in Seq(Servers) /\ Len(server') = Len(server) + 1
           /\ \A s \in DOMAIN server :
                  Fallen(server[s], server'[s]) /\ (s \in S => ~server'[s].alive)
           /\ \A s \in DOMAIN server' \ DOMAIN server : s = Len(server') /\ server'[s] = new
           /\ Len(server') \in DOMAIN server' /\ server'[Len(server')] = new
<1> DEFINE old == Stopped(S)
<1>1. old \in Seq(Servers) /\ Len(old) = Len(server)
      /\ \A s \in DOMAIN server : Fallen(server[s], old[s]) /\ (s \in S => ~old[s].alive)
  BY StoppedFalls
<1>2. server' = Append(old, new)
  OBVIOUS
<1> HIDE DEF old
<1>3. /\ server' \in Seq(Servers) /\ Len(server') = Len(old) + 1
      /\ \A s \in 1..Len(old) : server'[s] = old[s]
      /\ server'[Len(old) + 1] = new
  BY <1>1, <1>2, AppendProperties
<1>4. DOMAIN server = 1..Len(old) /\ DOMAIN server' = 1..Len(server') /\ Len(old) \in Nat
  BY <1>1, <1>3
<1>5. ASSUME NEW s \in DOMAIN server', s \notin DOMAIN server
      PROVE  s = Len(old) + 1
  <2> DEFINE n == Len(old)
  <2>1. n \in Nat /\ s \in 1..(n + 1) /\ s \notin 1..n
    BY <1>3, <1>4, <1>5
  <2> HIDE DEF n
  <2>2. s = n + 1
    BY <2>1
  <2> QED
    BY <2>2 DEF n
<1> QED
  BY <1>1, <1>3, <1>4, <1>5

\* The household's app server starts, and touches no user's.
LEMMA HouseholdStartFollows ==
    ASSUME TypeOK, NEW i \in Nat, NEW at, StartsHousehold(i, at)
    PROVE  /\ ServersFollow /\ slot' \in [Owners -> Slots]
           /\ \A u \in Users : slot'[u] = slot[u]
           /\ Goes(i, at)
           /\ \E s \in DOMAIN server' : server'[s].owner = "household"
<1> DEFINE new == NewServer("household", token.signIn)
<1>1. server \in Seq(Servers) /\ slot \in [Owners -> Slots] /\ token.signIn \in Nat
  BY DEF TypeOK
<1>2. new \in Servers /\ new.owner = "household" /\ new.watched /\ new.holds = token.signIn
  BY <1>1 DEF NewServer, Servers, Owners
<1>3. server' = Append(Stopped({slot["household"].server}), new)
  BY DEF StartsHousehold
<1> HIDE DEF new
<1>4. /\ server' \in Seq(Servers) /\ Len(server') = Len(server) + 1
      /\ \A s \in DOMAIN server : Fallen(server[s], server'[s])
      /\ \A s \in DOMAIN server' \ DOMAIN server : server'[s] = new
      /\ \E s \in DOMAIN server' : server'[s] = new
  BY <1>1, <1>2, <1>3, StartFollows
<1>5. slot' \in [Owners -> Slots] /\ \A u \in Users : slot'[u] = slot[u]
  <2>1. [lock |-> i, server |-> None] \in Slots
    BY DEF Slots, None
  <2> QED
    BY <1>1, <2>1, SupervisorAssumption DEF StartsHousehold, Owners
<1>6. \A u \in Users : Left(u)
  BY <1>2, <1>4, <1>5, SupervisorAssumption DEF Left, Starts
<1> QED
  BY <1>2, <1>4, <1>5, <1>6 DEF ServersFollow, StartsHousehold

\* App servers that are stopped, with no user's slot touched.
LEMMA StopFollows ==
    ASSUME TypeOK, NEW S, server' = Stopped(S), \A u \in Users : slot'[u] = slot[u]
    PROVE  ServersFollow
<1>1. server \in Seq(Servers)
  BY DEF TypeOK
<1>2. /\ server' \in Seq(Servers) /\ Len(server') = Len(server)
      /\ \A s \in DOMAIN server : Fallen(server[s], server'[s])
  BY <1>1, StoppedFalls
<1>3. DOMAIN server' = DOMAIN server
  BY <1>1, <1>2
<1>4. \A u \in Users : Left(u)
  BY <1>3 DEF Left, Starts
<1> QED
  BY <1>2, <1>3, <1>4 DEF ServersFollow

\* A step of a request that leaves the sign-in and its lock alone.
LEMMA ServerStepKeeps ==
    ASSUME IInv, NEW i \in DOMAIN op, OpGoes(i), op[i].at \notin {"done", "stopping"},
           Proper(op'[i]), op'[i].at \notin Refreshers,
           op'[i].at \in Starters => slot'[op[i].user].lock = i,
           Starting(op'[i]) => HasServer(op[i])',
           \A u \in Users : slot'[u].lock = slot[u].lock \/ slot[u].lock \in {None, i},
           ServersFollow, RestTyped,
           UNCHANGED <<refreshing, token, lastSignIn, signedOut, login>>
    PROVE  IInv' /\ Asks(i)
<1>1. LocksFollow(i)
  BY DEF LocksFollow
<1>2. SignInGoes
  BY DEF SignInGoes
<1>3. SignOutGoes
  BY SignOutGoesOn DEF IInv
<1> QED
  BY <1>1, <1>2, <1>3, StepKeeps DEF Refreshers

\* Where a request goes on with the household's app server.
LEMMA GoesOnAfterHousehold ==
    ASSUME IInv, NEW i \in DOMAIN op, op[i].at # "done", NEW s \in Nat,
           op' = [op EXCEPT ![i].at = AfterHousehold(op[i].kind), ![i].household = s]
    PROVE  OpGoes(i) /\ op'[i].at \in {"expiry", "cancel"} /\ Proper(op'[i])
<1> DEFINE at == AfterHousehold(op[i].kind)
           next == [op[i] EXCEPT !.at = at, !.household = s]
<1>0. op \in Seq(Ops) /\ op[i] \in Ops /\ op[i].user \in Users
  BY AtWork
<1>1. \/ at = "expiry" /\ op[i].kind \in {"use", "recover", "look"}
      \/ at = "cancel" /\ op[i].kind \in {"signIn", "cancel", "signOut"}
  BY <1>0 DEF AfterHousehold, Ops, Kinds
<1>2. at \in Stages
  BY <1>1 DEF Stages
<1>3. op' = [op EXCEPT ![i] = next]
  BY <1>0
<1> HIDE DEF at
<1>4. next \in Ops /\ next.user = op[i].user /\ next.kind = op[i].kind /\ next.at = at
  BY <1>0, <1>2 DEF Ops
<1> HIDE DEF next
<1>5. OpGoes(i) /\ op'[i] = next
  BY <1>0, <1>3, <1>4, ChangesTo
<1> QED
  BY <1>0, <1>1, <1>4, <1>5 DEF Proper

\* A request gets the household's app server.
LEMMA GetHouseholdKeeps ==
    ASSUME IInv, NEW i \in DOMAIN op, GetHousehold(i)
    PROVE  IInv' /\ Asks(i)
<1>0. op[i].at = "household"
  BY DEF GetHousehold, At
<1>1. UNCHANGED <<tokenVars, refreshing, auth, tainted, loginVars, events, signedOut>>
  BY DEF GetHousehold
<1>2. /\ OpGoes(i) /\ Proper(op'[i]) /\ op'[i].at \in {"done", "expiry", "cancel", "starting"}
      /\ ServersFollow /\ slot' \in [Owners -> Slots] /\ \A u \in Users : slot'[u] = slot[u]
      /\ recovering' \in SUBSET Users
      /\ op'[i].at = "starting" => \E s \in DOMAIN server' : server'[s].owner = "household"
  <2>1. CASE tainted
    <3>1. FailsAt(i) /\ UNCHANGED <<slot, server>>
      BY <2>1 DEF GetHousehold
    <3>2. OpGoes(i) /\ op'[i].at = "done" /\ recovering' \in SUBSET Users
      BY <1>0, <3>1, AtWork, FailsTo
    <3>3. ServersFollow /\ slot \in [Owners -> Slots]
      BY <1>0, <3>1, AtWork, ServersStay DEF TypeOK
    <3> QED
      BY <3>1, <3>2, <3>3 DEF Proper
  <2>2. CASE ~tainted /\ Alive("household")
    <3>1. UNCHANGED <<slot, server, recovering>>
      BY <2>2 DEF GetHousehold
    <3>2. slot["household"].server \in Nat
      BY <1>0, AtWork DEF TypeOK, Owners, Slots
    <3>3. OpGoes(i) /\ Proper(op'[i]) /\ op'[i].at \in {"expiry", "cancel"}
      BY <1>0, <2>2, <3>2, GoesOnAfterHousehold DEF GetHousehold
    <3>4. ServersFollow /\ slot \in [Owners -> Slots]
      BY <1>0, <3>1, AtWork, ServersStay DEF TypeOK
    <3> QED
      BY <1>0, <3>1, <3>3, <3>4, AtWork
  <2>3. CASE ~tainted /\ ~Alive("household")
    <3>1. StartsHousehold(i, "starting") /\ UNCHANGED recovering
      BY <2>3 DEF GetHousehold
    <3>2. /\ ServersFollow /\ slot' \in [Owners -> Slots] /\ \A u \in Users : slot'[u] = slot[u]
          /\ Goes(i, "starting")
          /\ \E s \in DOMAIN server' : server'[s].owner = "household"
      BY <1>0, <3>1, AtWork, HouseholdStartFollows
    <3>3. OpGoes(i) /\ op'[i].at = "starting" /\ Proper(op'[i])
      BY <1>0, <3>2, AtWork, GoesTo DEF Stages, OpGoes, Proper
    <3> QED
      BY <1>0, <3>1, <3>2, <3>3, AtWork
  <2> QED
    BY <2>1, <2>2, <2>3
<1>3. RestTyped
  BY <1>0, <1>1, <1>2, AtWork DEF TypeOK, RestTyped, tokenVars, loginVars
<1> QED
  <2>1. Starting(op'[i]) => HasServer(op[i])'
    BY <1>2 DEF Starting, Starters, HasServer
  <2> QED
    BY <1>0, <1>1, <1>2, <1>3, <2>1, ServerStepKeeps DEF Refreshers, Starters, tokenVars, loginVars

\* The last app server of an owner who had one.
LEMMA LastIsThere ==
    ASSUME TypeOK, NEW o, \E s \in DOMAIN server : server[s].owner = o
    PROVE  LastOf(o) \in DOMAIN server /\ server[LastOf(o)].owner = o /\ Newest(o, LastOf(o))
<1> DEFINE n == Len(server)
           S == {s \in DOMAIN server : server[s].owner = o}
<1>1. n \in Nat /\ DOMAIN server = 1..n
  BY DEF TypeOK
<1> HIDE DEF n
<1>2. S \in SUBSET (0..n) /\ S # {}
  BY <1>1
<1>3. PICK m \in S : \A x \in S : x =< m
  <2> HIDE DEF S
  <2> QED
    BY <1>1, <1>2, Largest
<1>4. m \in DOMAIN server /\ server[m].owner = o
      /\ \A t \in DOMAIN server : server[t].owner = o => t =< m
  BY <1>3
<1> QED
  BY <1>4 DEF LastOf, Newest

\* The household's app server started, or it is stopped.
LEMMA HouseholdStartedKeeps ==
    ASSUME IInv, NEW i \in DOMAIN op, NEW ok \in BOOLEAN, HouseholdStarted(i, ok)
    PROVE  IInv' /\ Asks(i)
<1> DEFINE s == LastOf("household")
<1>0. op[i].at \in {"starting", "startingToCancel"}
  BY DEF HouseholdStarted, At
<1>1. UNCHANGED <<tokenVars, refreshing, auth, tainted, loginVars, events, signedOut>>
  BY DEF HouseholdStarted
<1>2. s \in Nat
  <2>1. \E t \in DOMAIN server : server[t].owner = "household"
    BY <1>0 DEF IInv, StartingIsThere, Starting, Starters, HasServer
  <2>2. LastOf("household") \in DOMAIN server /\ server \in Seq(Servers)
    BY <2>1, LastIsThere DEF IInv, TypeOK
  <2> QED
    BY <2>2
<1>3. /\ slot' = [slot EXCEPT !["household"] = [lock |-> None, server |-> IF ok THEN s ELSE None]]
      /\ server' = IF ok THEN server ELSE Stopped({s})
      /\ IF op[i].at = "startingToCancel"
         THEN Goes(i, IF ok THEN "toCancel" ELSE AfterCancel(op[i].kind)) /\ UNCHANGED recovering
         ELSE IF ok
         THEN /\ op' = [op EXCEPT ![i].at = AfterHousehold(op[i].kind), ![i].household = s]
              /\ UNCHANGED recovering
         ELSE FailsAt(i)
  BY DEF HouseholdStarted
<1> HIDE DEF s
<1>4. slot' \in [Owners -> Slots] /\ \A u \in Users : slot'[u] = slot[u]
  <2>1. [lock |-> None, server |-> IF ok THEN s ELSE None] \in Slots
    BY <1>2 DEF Slots, None
  <2>2. slot \in [Owners -> Slots] /\ \A u \in Users : u # "household" /\ u \in Owners
    BY SupervisorAssumption DEF IInv, TypeOK, Owners
  <2> QED
    BY <1>3, <2>1, <2>2
<1>5. ServersFollow
  BY <1>0, <1>3, <1>4, AtWork, ServersStay, StopFollows
<1>6. /\ OpGoes(i) /\ Proper(op'[i]) /\ recovering' \in SUBSET Users
      /\ op'[i].at \in {"expiry", "cancel", "toCancel", "asksCode", "signsOut", "done"}
  <2>1. CASE op[i].at = "startingToCancel" /\ ok
    <3>1. Goes(i, "toCancel") /\ UNCHANGED recovering
      BY <1>3, <2>1
    <3>2. OpGoes(i) /\ op'[i].at = "toCancel" /\ op'[i].kind = op[i].kind
      BY <1>0, <3>1, AtWork, GoesTo DEF Stages
    <3> QED
      BY <1>0, <2>1, <3>1, <3>2, AtWork DEF Proper, OpGoes
  <2>2. CASE op[i].at = "startingToCancel" /\ ~ok
    BY <1>0, <1>3, <2>2, AtWork, GoesOnAfterCancel
  <2>3. CASE op[i].at = "starting" /\ ok
    BY <1>0, <1>2, <1>3, <2>3, AtWork, GoesOnAfterHousehold
  <2>4. CASE op[i].at = "starting" /\ ~ok
    BY <1>0, <1>3, <2>4, AtWork, FailsTo DEF Proper
  <2> QED
    BY <1>0, <2>1, <2>2, <2>3, <2>4
<1>7. RestTyped
  BY <1>0, <1>1, <1>4, <1>6, AtWork DEF TypeOK, RestTyped, tokenVars, loginVars
<1> QED
  BY <1>0, <1>1, <1>4, <1>5, <1>6, <1>7, ServerStepKeeps
  DEF Refreshers, Starters, Starting, tokenVars, loginVars

\* The sign-in is cancelled at the household's app server.
LEMMA CancelCodeKeeps ==
    ASSUME IInv, NEW i \in DOMAIN op, CancelCode(i)
    PROVE  IInv' /\ Asks(i)
<1>0. op[i].at = "toCancel"
  BY DEF CancelCode, At
<1>1. UNCHANGED <<tokenVars, refreshing, auth, tainted, recovering, login, events, signedOut>>
  BY DEF CancelCode
<1>2. /\ OpGoes(i) /\ Proper(op'[i])
      /\ op'[i].at \in {"asksCode", "signsOut", "done", "startingToCancel"}
      /\ op'[i].at = "startingToCancel" => \E s \in DOMAIN server' : server'[s].owner = "household"
      /\ ServersFollow /\ slot' \in [Owners -> Slots] /\ \A u \in Users : slot'[u] = slot[u]
      /\ codes' \in SUBSET [id : Nat, server : Nat]
      /\ news' \in SUBSET [id : Nat, server : Nat, ok : BOOLEAN]
  <2>0. /\ codes \in SUBSET [id : Nat, server : Nat]
        /\ news \in SUBSET [id : Nat, server : Nat, ok : BOOLEAN]
        /\ slot \in [Owners -> Slots]
    BY DEF IInv, TypeOK
  <2>1. CASE tainted \/ Alive("household")
    <3>1. Goes(i, AfterCancel(op[i].kind)) /\ UNCHANGED <<slot, server>>
      BY <2>1 DEF CancelCode
    <3>2. OpGoes(i) /\ Proper(op'[i]) /\ op'[i].at \in {"asksCode", "signsOut", "done"}
      BY <1>0, <3>1, GoesOnAfterCancel
    <3>3. ServersFollow
      BY <1>0, <3>1, AtWork, ServersStay
    <3>4. /\ codes' \in SUBSET [id : Nat, server : Nat]
          /\ news' \in SUBSET [id : Nat, server : Nat, ok : BOOLEAN]
      <4>1. CASE UNCHANGED <<codes, news>>
        BY <2>0, <4>1
      <4>2. CASE ~UNCHANGED <<codes, news>>
        <5>1. /\ codes' = {c \in codes : c.id # op[i].of \/ c.server # slot["household"].server}
              /\ news' = news \cup {[id |-> c.id, server |-> c.server, ok |-> FALSE] :
                                        c \in codes \ codes'}
          BY <2>1, <4>2 DEF CancelCode
        <5>2. \A c \in codes : [id |-> c.id, server |-> c.server, ok |-> FALSE]
                                   \in [id : Nat, server : Nat, ok : BOOLEAN]
          BY <2>0
        <5>3. {[id |-> c.id, server |-> c.server, ok |-> FALSE] : c \in codes \ codes'}
                  \subseteq [id : Nat, server : Nat, ok : BOOLEAN]
          BY ONLY <5>2
        <5>4. codes' \subseteq codes
          BY ONLY <5>1
        <5> QED
          BY <2>0, <5>1, <5>3, <5>4
      <4> QED
        BY <4>1, <4>2
    <3> QED
      BY <2>0, <3>1, <3>2, <3>3, <3>4
  <2>2. CASE ~(tainted \/ Alive("household"))
    <3>1. StartsHousehold(i, "startingToCancel") /\ UNCHANGED <<codes, news>>
      BY <2>2 DEF CancelCode
    <3>2. /\ ServersFollow /\ slot' \in [Owners -> Slots] /\ \A u \in Users : slot'[u] = slot[u]
          /\ Goes(i, "startingToCancel")
          /\ \E s \in DOMAIN server' : server'[s].owner = "household"
      BY <1>0, <3>1, AtWork, HouseholdStartFollows
    <3>3. OpGoes(i) /\ op'[i].at = "startingToCancel" /\ op'[i].kind = op[i].kind
      BY <1>0, <3>2, AtWork, GoesTo DEF Stages
    <3>4. Proper(op'[i])
      BY <1>0, <3>3, AtWork DEF Proper, OpGoes
    <3> QED
      BY <2>0, <3>1, <3>2, <3>3, <3>4
  <2> QED
    BY <2>1, <2>2
<1>3. RestTyped
  BY <1>0, <1>1, <1>2, AtWork DEF TypeOK, RestTyped, tokenVars
<1>4. Starting(op'[i]) => HasServer(op[i])'
  BY <1>2 DEF Starting, Starters, HasServer
<1> QED
  BY <1>0, <1>1, <1>2, <1>3, <1>4, ServerStepKeeps DEF Refreshers, Starters, tokenVars

\* Which app server of a user may run.
LEMMA WhichRuns ==
    ASSUME IInv, NEW u \in Users, NEW s \in DOMAIN server, server[s].owner = u, server[s].alive
    PROVE  /\ s # None /\ (slot[u].lock = None => s = slot[u].server)
           /\ slot[u].lock # None => s = LastOf(u)
<1>1. IF slot[u].lock = None THEN s = slot[u].server ELSE Newest(u, s)
  BY DEF IInv, OneEach
<1>2. TypeOK /\ DOMAIN server \subseteq Nat /\ s # None
  BY DEF IInv, TypeOK, None
<1>3. LastOf(u) \in DOMAIN server /\ server[LastOf(u)].owner = u /\ Newest(u, LastOf(u))
  BY <1>2, LastIsThere
<1>4. ASSUME Newest(u, s)
      PROVE  s = LastOf(u)
  <2>1. s =< LastOf(u) /\ LastOf(u) =< s
    BY <1>3, <1>4 DEF Newest
  <2> QED
    BY <1>2, <1>3, <2>1
<1> QED
  BY <1>1, <1>2, <1>4

\* A user's app server starts, once none of the user's runs.
LEMMA UserStartFollows ==
    ASSUME IInv, NEW u \in Users, NEW S, NEW holds \in {None, token.signIn},
           server' = Append(Stopped(S), NewServer(u, holds)),
           \A v \in Users \ {u} : slot'[v] = slot[v], slot'[u].lock # None,
           \A s \in DOMAIN server : server[s].owner = u /\ server[s].alive => s \in S
    PROVE  ServersFollow /\ \E s \in DOMAIN server' : server'[s].owner = u
<1> DEFINE new == NewServer(u, holds)
<1>1. server \in Seq(Servers) /\ token.signIn \in Nat
  BY DEF IInv, TypeOK
<1>2. new \in Servers /\ new.owner = u /\ new.watched /\ new.holds = holds
  BY <1>1 DEF NewServer, Servers, Owners, None
<1> HIDE DEF new
<1>3. /\ server' \in Seq(Servers) /\ Len(server') = Len(server) + 1
      /\ \A s \in DOMAIN server :
             Fallen(server[s], server'[s]) /\ (s \in S => ~server'[s].alive)
      /\ \A s \in DOMAIN server' \ DOMAIN server : server'[s] = new
      /\ \E s \in DOMAIN server' : server'[s] = new
  BY <1>1, <1>2, StartFollows DEF new
<1>4. Started(u)
  BY <1>3 DEF Started, Fallen
<1>5. \A v \in Users \ {u} : Left(v)
  BY <1>2, <1>3 DEF Left, Starts
<1> QED
  BY <1>2, <1>3, <1>4, <1>5 DEF ServersFollow

\* What runs of a user's is stopped.
LEMMA UserStopFollows ==
    ASSUME IInv, NEW u \in Users, NEW S, server' = Stopped(S),
           \A v \in Users \ {u} : slot'[v] = slot[v],
           \A s \in DOMAIN server : server[s].owner = u /\ server[s].alive => s \in S
    PROVE  ServersFollow
<1>1. server \in Seq(Servers)
  BY DEF IInv, TypeOK
<1>2. /\ server' \in Seq(Servers) /\ Len(server') = Len(server)
      /\ \A s \in DOMAIN server :
             Fallen(server[s], server'[s]) /\ (s \in S => ~server'[s].alive)
  BY <1>1, StoppedFalls
<1>3. DOMAIN server' = DOMAIN server
  BY <1>1, <1>2
<1>4. NoneRuns(u)
  BY <1>2, <1>3 DEF NoneRuns, Fallen
<1>5. \A v \in Users \ {u} : Left(v)
  BY <1>3 DEF Left, Starts
<1> QED
  BY <1>2, <1>3, <1>4, <1>5 DEF ServersFollow

\* The app server that was starting is the user's.
LEMMA UserTakenFollows ==
    ASSUME IInv, NEW u \in Users, server' = server,
           \A v \in Users \ {u} : slot'[v] = slot[v],
           slot[u].lock # None, slot'[u].lock = None, slot'[u].server = LastOf(u),
           \E s \in DOMAIN server : server[s].owner = u
    PROVE  ServersFollow
<1>1. server \in Seq(Servers) /\ TypeOK
  BY DEF IInv, TypeOK
<1>2. LastOf(u) \in DOMAIN server /\ server[LastOf(u)].owner = u /\ Newest(u, LastOf(u))
  BY <1>1, LastIsThere
<1>3. Taken(u)
  BY <1>2 DEF Taken, Starts
<1>4. \A v \in Users \ {u} : Left(v)
  BY DEF Left, Starts
<1>5. \A s \in DOMAIN server : Fallen(server[s], server'[s])
  BY DEF Fallen
<1> QED
  BY <1>1, <1>3, <1>4, <1>5 DEF ServersFollow

\* A user's slot changes.
LEMMA SlotChanges ==
    ASSUME IInv, NEW u \in Users, NEW new \in Slots, slot' = [slot EXCEPT ![u] = new]
    PROVE  /\ slot' \in [Owners -> Slots] /\ slot'[u] = new
           /\ \A v \in Users \ {u} : slot'[v] = slot[v]
<1>1. slot \in [Owners -> Slots] /\ u \in Owners /\ Users \subseteq Owners
  BY DEF IInv, TypeOK, Owners
<1> QED
  BY <1>1

\* A user's slot is emptied.
LEMMA SlotEmptied ==
    ASSUME IInv, NEW u \in Users, slot' = [slot EXCEPT ![u].server = None]
    PROVE  /\ slot' \in [Owners -> Slots] /\ slot'[u].lock = slot[u].lock
           /\ \A v \in Users \ {u} : slot'[v] = slot[v]
<1> DEFINE new == [slot[u] EXCEPT !.server = None]
<1>1. slot \in [Owners -> Slots] /\ u \in Owners
  BY DEF IInv, TypeOK, Owners
<1>2. new \in Slots /\ new.lock = slot[u].lock
  BY <1>1 DEF Slots, None
<1>3. slot' = [slot EXCEPT ![u] = new]
  OBVIOUS
<1> HIDE DEF new
<1> QED
  BY <1>2, <1>3, SlotChanges

\* A request gets the user's app server.
LEMMA UseSlotKeeps ==
    ASSUME IInv, NEW i \in DOMAIN op, UseSlot(i)
    PROVE  IInv' /\ Asks(i)
<1> DEFINE u == op[i].user
           old == slot[u].server
<1>0. op[i].at = "slot" /\ slot[u].lock = None
  BY DEF UseSlot, At
<1>1. u \in Users /\ i \in Nat /\ i # None /\ op \in Seq(Ops) /\ op[i] \in Ops /\ TypeOK
  <2>1. u \in Users /\ op \in Seq(Ops) /\ op[i] \in Ops /\ TypeOK
    BY <1>0, AtWork
  <2> QED
    BY <2>1 DEF None
<1>2. UNCHANGED <<tokenVars, refreshing, tainted, recovering, loginVars, events, signedOut>>
  BY DEF UseSlot
<1>3. \A s \in DOMAIN server : server[s].owner = u /\ server[s].alive => s = old /\ IsAlive(old)
  BY <1>0, <1>1, WhichRuns DEF IsAlive
<1>4. /\ OpGoes(i) /\ op'[i].at \in {"done", "signingOut", "checking"} /\ Proper(op'[i])
      /\ op'[i].at \in Starters => slot'[u].lock = i
      /\ Starting(op'[i]) => HasServer(op[i])'
      /\ ServersFollow /\ slot' \in [Owners -> Slots]
      /\ \A v \in Users : slot'[v].lock = slot[v].lock \/ slot[v].lock = None
      /\ auth' \in [Users -> {"missing", "link", "file", "other"}]
  <2>0. slot \in [Owners -> Slots] /\ auth \in [Users -> {"missing", "link", "file", "other"}]
    BY <1>1 DEF TypeOK
  <2>1. CASE IsAlive(old) /\ auth[u] = "link"
    <3>1. Goes(i, "done") /\ UNCHANGED <<slot, server, auth>>
      BY <2>1 DEF UseSlot
    <3>2. OpGoes(i) /\ op'[i].at = "done"
      BY <1>1, <3>1, GoesTo DEF Stages
    <3>3. ServersFollow
      BY <1>1, <3>1, ServersStay
    <3> QED
      BY <2>0, <3>1, <3>2, <3>3 DEF Proper, Starters, Starting
  <2>2. CASE (IsAlive(old) /\ auth[u] # "link") \/ (~IsAlive(old) /\ auth[u] = "other")
    <3>1. /\ server' = Stopped({old}) /\ slot' = [slot EXCEPT ![u].server = None]
          /\ Goes(i, "done") /\ UNCHANGED auth
      BY <2>2 DEF UseSlot
    <3>2. OpGoes(i) /\ op'[i].at = "done"
      BY <1>1, <3>1, GoesTo DEF Stages
    <3>3. /\ slot' \in [Owners -> Slots] /\ slot'[u].lock = slot[u].lock
          /\ \A v \in Users \ {u} : slot'[v] = slot[v]
      BY <1>1, <3>1, SlotEmptied
    <3>4. ServersFollow
      BY <1>1, <1>3, <3>1, <3>3, UserStopFollows
    <3> QED
      BY <2>0, <3>1, <3>2, <3>3, <3>4 DEF Proper, Starters, Starting
  <2>3. CASE ~IsAlive(old) /\ auth[u] # "other"
    <3> DEFINE holds == IF auth[u] = "file" THEN None ELSE token.signIn
               at == IF auth[u] = "file" THEN "signingOut" ELSE "checking"
               new == [lock |-> i, server |-> None]
    <3>1. /\ slot' = [slot EXCEPT ![u] = new]
          /\ auth' = [auth EXCEPT ![u] = IF @ = "missing" THEN "link" ELSE @]
          /\ server' = Append(Stopped({old}), NewServer(u, holds))
          /\ Goes(i, at)
      BY <2>3 DEF UseSlot
    <3>2. OpGoes(i) /\ op'[i].at = at /\ Proper(op'[i])
      BY <1>0, <1>1, <3>1, GoesTo DEF Stages, OpGoes, Proper
    <3>3. new \in Slots /\ new.lock = i
      BY <1>1 DEF Slots, None
    <3>4. holds \in {None, token.signIn}
      OBVIOUS
    <3> HIDE DEF new, holds
    <3>5. /\ slot' \in [Owners -> Slots] /\ slot'[u] = new
          /\ \A v \in Users \ {u} : slot'[v] = slot[v]
      BY <1>1, <3>1, <3>3, SlotChanges
    <3>6. ServersFollow /\ \E s \in DOMAIN server' : server'[s].owner = u
      <4>1. \A s \in DOMAIN server : server[s].owner = u /\ server[s].alive => s \in {old}
        BY <1>3
      <4>2. u \in Users /\ slot'[u].lock # None
        BY <1>1, <3>3, <3>5
      <4>3. server' = Append(Stopped({old}), NewServer(u, holds))
        BY <3>1
      <4> HIDE DEF u, old
      <4> QED
        BY <3>4, <3>5, <4>1, <4>2, <4>3, UserStartFollows
    <3>7. HasServer(op[i])'
      BY <3>2, <3>6 DEF HasServer, OpGoes, Starters
    <3>8. auth' \in [Users -> {"missing", "link", "file", "other"}]
      BY <2>0, <3>1
    <3> QED
      BY <1>0, <3>2, <3>3, <3>5, <3>6, <3>7, <3>8
  <2> QED
    BY <2>1, <2>2, <2>3
<1>5. RestTyped
  BY <1>1, <1>2, <1>4 DEF TypeOK, RestTyped, tokenVars, loginVars
<1> QED
  BY <1>0, <1>2, <1>4, <1>5, ServerStepKeeps DEF Refreshers, tokenVars, loginVars

\* The request that starts a user's app server holds the lock of its slot.
LEMMA StarterHolds ==
    ASSUME IInv, NEW i \in DOMAIN op, op[i].at \in Starters
    PROVE  /\ op[i].user \in Users /\ slot[op[i].user].lock = i /\ i \in Nat /\ i # None
           /\ \E s \in DOMAIN server : server[s].owner = op[i].user
           /\ op \in Seq(Ops) /\ op[i] \in Ops /\ TypeOK
<1>1. op[i].user \in Users /\ op \in Seq(Ops) /\ op[i] \in Ops /\ TypeOK
  BY AtWork DEF Starters
<1>2. slot[op[i].user].lock = i
  BY DEF IInv, LocksHeld, Starters
<1>3. HasServer(op[i])
  BY DEF IInv, StartingIsThere, Starting
<1> QED
  BY <1>1, <1>2, <1>3 DEF HasServer, None

\* It started, or it is stopped.
LEMMA UserStartedKeeps ==
    ASSUME IInv, NEW i \in DOMAIN op, NEW ok \in BOOLEAN, UserStarted(i, ok)
    PROVE  IInv' /\ Asks(i)
<1> DEFINE u == op[i].user
           s == LastOf(u)
           new == [lock |-> None, server |-> IF ok THEN s ELSE None]
<1>0. op[i].at = "checking" /\ op[i].at \in Starters
  BY DEF UserStarted, At, Starters
<1>1. /\ u \in Users /\ slot[u].lock = i /\ i \in Nat /\ i # None
      /\ \E t \in DOMAIN server : server[t].owner = u
      /\ op \in Seq(Ops) /\ op[i] \in Ops /\ TypeOK
  BY <1>0, StarterHolds
<1>2. UNCHANGED <<tokenVars, refreshing, auth, tainted, recovering, loginVars, events, signedOut>>
  BY DEF UserStarted
<1>3. slot' = [slot EXCEPT ![u] = new] /\ server' = (IF ok THEN server ELSE Stopped({s}))
      /\ Goes(i, "done")
  BY DEF UserStarted
<1>4. s \in Nat
  <2>1. LastOf(u) \in DOMAIN server /\ server \in Seq(Servers)
    BY <1>1, LastIsThere DEF TypeOK
  <2> QED
    BY <2>1
<1>5. new \in Slots /\ new.lock = None /\ (ok => new.server = s)
  BY <1>4 DEF Slots, None
<1> HIDE DEF new
<1>6. /\ slot' \in [Owners -> Slots] /\ slot'[u] = new
      /\ \A v \in Users \ {u} : slot'[v] = slot[v]
  BY <1>1, <1>3, <1>5, SlotChanges
<1>7. \A t \in DOMAIN server : server[t].owner = u /\ server[t].alive => t = s
  BY <1>1, WhichRuns
<1>8. ServersFollow
  <2>1. CASE ok
    BY <1>1, <1>3, <1>5, <1>6, <2>1, UserTakenFollows
  <2>2. CASE ~ok
    BY <1>1, <1>3, <1>6, <1>7, <2>2, UserStopFollows
  <2> QED
    BY <2>1, <2>2
<1>9. OpGoes(i) /\ op'[i].at = "done" /\ Proper(op'[i])
  BY <1>1, <1>3, GoesTo DEF Stages, Proper
<1>10. RestTyped
  BY <1>1, <1>2, <1>6 DEF TypeOK, RestTyped, tokenVars, loginVars
<1> QED
  BY <1>0, <1>1, <1>2, <1>6, <1>8, <1>9, <1>10, ServerStepKeeps
  DEF Refreshers, Starters, Starting, tokenVars, loginVars

\* The user's own sign-in was signed out, or was not.
LEMMA OwnSignedOutKeeps ==
    ASSUME IInv, NEW i \in DOMAIN op, NEW ok \in BOOLEAN, OwnSignedOut(i, ok)
    PROVE  IInv' /\ Asks(i)
<1> DEFINE u == op[i].user
<1>0. op[i].at = "signingOut" /\ op[i].at \in Starters
  BY DEF OwnSignedOut, At, Starters
<1>1. /\ u \in Users /\ slot[u].lock = i /\ i \in Nat /\ i # None
      /\ \E t \in DOMAIN server : server[t].owner = u
      /\ op \in Seq(Ops) /\ op[i] \in Ops /\ TypeOK
  BY <1>0, StarterHolds
<1>2. UNCHANGED <<tokenVars, refreshing, tainted, recovering, loginVars, events, signedOut>>
  BY DEF OwnSignedOut
<1>3. \A t \in DOMAIN server : server[t].owner = u /\ server[t].alive => t \in {LastOf(u)}
  BY <1>1, WhichRuns
<1>4. slot \in [Owners -> Slots] /\ auth \in [Users -> {"missing", "link", "file", "other"}]
  BY <1>1 DEF TypeOK
<1>5. CASE ok
  <2>1. /\ server' = Append(Stopped({LastOf(u)}), NewServer(u, token.signIn))
        /\ auth' = [auth EXCEPT ![u] = "link"]
        /\ Goes(i, "checking") /\ UNCHANGED slot
    BY <1>5 DEF OwnSignedOut
  <2>2. OpGoes(i) /\ op'[i].at = "checking" /\ Proper(op'[i])
    BY <1>1, <2>1, GoesTo DEF Stages, OpGoes, Proper
  <2>3. ServersFollow /\ \E s \in DOMAIN server' : server'[s].owner = u
    <3>1. slot'[u].lock # None /\ \A v \in Users \ {u} : slot'[v] = slot[v]
      BY <1>1, <2>1
    <3> HIDE DEF u
    <3> QED
      BY <1>1, <1>3, <2>1, <3>1, UserStartFollows
  <2>4. HasServer(op[i])'
    BY <2>2, <2>3 DEF HasServer, OpGoes, Starters
  <2>5. auth' \in [Users -> {"missing", "link", "file", "other"}]
    BY <1>4, <2>1
  <2>6. RestTyped
    BY <1>1, <1>2, <2>1, <2>5 DEF TypeOK, RestTyped, tokenVars, loginVars
  <2> QED
    BY <1>0, <1>1, <1>2, <2>1, <2>2, <2>3, <2>4, <2>6, ServerStepKeeps
    DEF Refreshers, tokenVars, loginVars
<1>6. CASE ~ok
  <2> DEFINE new == [slot[u] EXCEPT !.lock = None]
  <2>1. /\ server' = Stopped({LastOf(u)}) /\ slot' = [slot EXCEPT ![u].lock = None]
        /\ Goes(i, "done")
        /\ UNCHANGED auth \/ auth' = [auth EXCEPT ![u] = "missing"]
    BY <1>6 DEF OwnSignedOut
  <2>2. OpGoes(i) /\ op'[i].at = "done" /\ Proper(op'[i])
    BY <1>1, <2>1, GoesTo DEF Stages, Proper
  <2>3. new \in Slots
    BY <1>1, <1>4 DEF Slots, None, Owners
  <2>4. slot' = [slot EXCEPT ![u] = new]
    BY <2>1
  <2> HIDE DEF new
  <2>5. slot' \in [Owners -> Slots] /\ \A v \in Users \ {u} : slot'[v] = slot[v]
    BY <1>1, <2>3, <2>4, SlotChanges
  <2>6. ServersFollow
    BY <1>1, <1>3, <2>1, <2>5, UserStopFollows
  <2>7. auth' \in [Users -> {"missing", "link", "file", "other"}]
    BY <1>4, <2>1
  <2>8. RestTyped
    BY <1>1, <1>2, <2>5, <2>7 DEF TypeOK, RestTyped, tokenVars, loginVars
  <2> QED
    BY <1>0, <1>1, <1>2, <2>2, <2>5, <2>6, <2>8, ServerStepKeeps
    DEF Refreshers, Starters, Starting, tokenVars, loginVars
<1> QED
  BY <1>5, <1>6

\* A failed app server is stopped, if it is still the user's.
LEMMA ReplaceKeeps ==
    ASSUME IInv, NEW i \in DOMAIN op, Replace(i)
    PROVE  IInv' /\ Asks(i)
<1> DEFINE u == op[i].user
           next == [op[i] EXCEPT !.at = "household", !.kind = "use"]
<1>0. op[i].at = "replace" /\ slot[u].lock = None
  BY DEF Replace, At
<1>1. u \in Users /\ op \in Seq(Ops) /\ op[i] \in Ops /\ TypeOK
  BY <1>0, AtWork
<1>2. UNCHANGED <<tokenVars, refreshing, auth, tainted, recovering, loginVars, events, signedOut>>
  BY DEF Replace
<1>3. next \in Ops /\ next.user = u /\ next.at = "household"
  BY <1>1 DEF Ops, Kinds, Stages
<1>4. op' = [op EXCEPT ![i] = next]
  BY <1>1 DEF Replace
<1> HIDE DEF next
<1>5. OpGoes(i) /\ op'[i].at = "household" /\ Proper(op'[i])
  BY <1>1, <1>3, <1>4, ChangesTo DEF Proper
<1>6. /\ ServersFollow /\ slot' \in [Owners -> Slots]
      /\ \A v \in Users : slot'[v].lock = slot[v].lock
  <2>1. CASE Replaces(i)
    <3>1. server' = Stopped({slot[u].server}) /\ slot' = [slot EXCEPT ![u].server = None]
      BY <2>1 DEF Replace
    <3>2. /\ slot' \in [Owners -> Slots] /\ slot'[u].lock = slot[u].lock
          /\ \A v \in Users \ {u} : slot'[v] = slot[v]
      BY <1>1, <3>1, SlotEmptied
    <3>3. \A s \in DOMAIN server : server[s].owner = u /\ server[s].alive => s \in {slot[u].server}
      BY <1>0, <1>1, WhichRuns
    <3>4. ServersFollow
      BY <1>1, <3>1, <3>2, <3>3, UserStopFollows
    <3> QED
      BY <3>2, <3>4
  <2>2. CASE ~Replaces(i)
    BY <1>1, <2>2, ServersStay DEF Replace, TypeOK
  <2> QED
    BY <2>1, <2>2
<1>7. RestTyped
  BY <1>1, <1>2, <1>6 DEF TypeOK, RestTyped, tokenVars, loginVars
<1> QED
  BY <1>0, <1>2, <1>5, <1>6, <1>7, ServerStepKeeps
  DEF Refreshers, Starters, Starting, tokenVars, loginVars

\* Every user's app server is stopped.
LEMMA StopUsersKeeps ==
    ASSUME IInv, NEW i \in DOMAIN op, StopUsers(i)
    PROVE  IInv' /\ Asks(i)
<1> DEFINE S == {slot[u].server : u \in Users}
           next(o) == IF o \in Users THEN [slot[o] EXCEPT !.server = None] ELSE slot[o]
<1>0. op[i].at = "stopping" /\ refreshing = i /\ \A u \in Users : slot[u].lock = None
  BY DEF StopUsers, At, MayStop, IInv, LocksHeld
<1>1. op \in Seq(Ops) /\ TypeOK /\ server \in Seq(Servers) /\ slot \in [Owners -> Slots]
  BY <1>0, AtWork DEF TypeOK
<1>2. UNCHANGED <<tokenVars, auth, tainted, recovering, loginVars, events, signedOut>>
  BY DEF StopUsers
<1>3. server' = Stopped(S) /\ slot' = [o \in Owners |-> next(o)] /\ refreshing' = None
      /\ Goes(i, "done")
  BY DEF StopUsers
<1>4. \A o \in Owners : next(o) \in Slots /\ next(o).lock = slot[o].lock
  BY <1>1 DEF Slots, None
<1> HIDE DEF next
<1>5. slot' \in [Owners -> Slots] /\ \A u \in Users : slot'[u].lock = slot[u].lock
  BY <1>3, <1>4 DEF Owners
<1>6. /\ server' \in Seq(Servers) /\ Len(server') = Len(server)
      /\ \A s \in DOMAIN server :
             Fallen(server[s], server'[s]) /\ (s \in S => ~server'[s].alive)
  BY <1>1, <1>3, StoppedFalls
<1>7. \A u \in Users, s \in DOMAIN server : server[s].owner = u /\ server[s].alive => s \in S
  BY <1>0, WhichRuns
<1>8. DOMAIN server' = DOMAIN server
  BY <1>1, <1>6
<1> HIDE DEF S
<1>9. \A u \in Users : NoneRuns(u)
  BY <1>6, <1>7, <1>8 DEF NoneRuns, Fallen
<1>10. ServersFollow /\ SignOutGoes
  BY <1>6, <1>8, <1>9 DEF ServersFollow, SignOutGoes
<1>11. OpGoes(i) /\ op'[i].at = "done" /\ Proper(op'[i])
  BY <1>1, <1>3, GoesTo DEF Stages, Proper
<1>12. SignInGoes
  BY <1>2 DEF SignInGoes, tokenVars
<1>13. RestTyped
  BY <1>1, <1>2, <1>3, <1>5 DEF TypeOK, RestTyped, tokenVars, loginVars, None
<1>14. LocksFollow(i)
  BY <1>0, <1>2, <1>3, <1>5, <1>11 DEF LocksFollow, Refreshers, Starters, loginVars
<1> QED
  BY <1>10, <1>11, <1>12, <1>13, <1>14, StepKeeps DEF Starting, Starters

-----------------------------------------------------------------------------
(* The steps of no request. *)

\* A request that is made.
LEMMA RequestIsProper ==
    ASSUME NEW kind \in Kinds, NEW u \in Users, NEW of \in Nat
    PROVE  /\ Request(kind, u, of) \in Ops /\ Proper(Request(kind, u, of))
           /\ Request(kind, u, of).at \in {"household", "begin", "cancel"}
<1> DEFINE at == CASE kind = "recover" -> "begin" [] kind = "cancel" -> "cancel"
                   [] OTHER -> "household"
<1>1. at \in {"household", "begin", "cancel"} /\ (at = "cancel" => kind = "cancel")
  <2>1. CASE kind = "recover"
    BY <2>1
  <2>2. CASE kind = "cancel"
    BY <2>2
  <2>3. CASE kind \notin {"recover", "cancel"}
    BY <2>3
  <2> QED
    BY <2>1, <2>2, <2>3
<1>2. Request(kind, u, of) = [kind |-> kind, user |-> u, of |-> of, household |-> None, at |-> at]
  BY DEF Request
<1> HIDE DEF at
<1> QED
  BY <1>1, <1>2 DEF Ops, Proper, Stages, Owners, None

\* A request is made.
LEMMA AskKeeps ==
    ASSUME IInv, NEW kind \in Kinds, NEW u \in Users, Ask(kind, u)
    PROVE  IInv' /\ Stays
<1>0. TypeOK
  BY DEF IInv
<1>1. UNCHANGED <<tokenVars, refreshing, slot, server, auth, tainted, recovering, loginVars,
                  events, signedOut>>
  BY DEF Ask
<1>2. OpsStay
  <2>1. op' = Append(op, Request(kind, u, None)) /\ None \in Nat
    BY DEF Ask, None
  <2> QED
    BY <1>1, <2>1, RequestIsProper DEF OpsStay, loginVars
<1>3. ServersFollow /\ SignInGoes /\ SignOutGoes
  BY <1>0, <1>1, <1>2, ServersStay, SignOutGoesOn DEF SignInGoes, tokenVars
<1>4. RestTyped
  BY <1>0, <1>1 DEF TypeOK, RestTyped, tokenVars, loginVars
<1> QED
  BY <1>2, <1>3, <1>4, OtherStepKeeps

\* The latest sign-in is seen.
LEMMA SeeLoginKeeps ==
    ASSUME IInv, SeeLogin
    PROVE  IInv' /\ Stays
<1>0. TypeOK /\ login \in Logins
  BY DEF IInv, TypeOK
<1>1. UNCHANGED <<tokenVars, refreshing, slot, server, auth, tainted, recovering, codes, news,
                  op, events, signedOut>> /\ login' = Expire(login)
  BY DEF SeeLogin
<1>2. login' \in Logins /\ login'.id = login.id
  BY <1>0, <1>1, ExpireTypes
<1>3. OpsStay
  BY <1>1, <1>2 DEF OpsStay
<1>4. ServersFollow /\ SignInGoes /\ SignOutGoes
  BY <1>0, <1>1, <1>3, ServersStay, SignOutGoesOn DEF SignInGoes, tokenVars
<1>5. RestTyped
  BY <1>0, <1>1, <1>2 DEF TypeOK, RestTyped, tokenVars
<1> QED
  BY <1>3, <1>4, <1>5, OtherStepKeeps

\* A user's app server is stopped.
LEMMA StopUserKeeps ==
    ASSUME IInv, NEW u \in Users, StopUser(u)
    PROVE  IInv' /\ Stays
<1>0. TypeOK
  BY DEF IInv
<1>1. /\ UNCHANGED <<tokenVars, refreshing, auth, tainted, recovering, loginVars, op, signedOut>>
      /\ server' = Stopped({slot[u].server}) /\ slot' = [slot EXCEPT ![u].server = None]
      /\ slot[u].lock = None
  BY DEF StopUser
<1>2. /\ slot' \in [Owners -> Slots] /\ slot'[u].lock = slot[u].lock
      /\ \A v \in Users \ {u} : slot'[v] = slot[v]
  BY <1>1, SlotEmptied
<1>3. \A s \in DOMAIN server : server[s].owner = u /\ server[s].alive => s \in {slot[u].server}
  BY <1>1, WhichRuns
<1>4. ServersFollow
  BY <1>1, <1>2, <1>3, UserStopFollows
<1>5. OpsStay
  BY <1>1, <1>2 DEF OpsStay, loginVars
<1>6. SignInGoes /\ SignOutGoes
  BY <1>0, <1>1, <1>5, SignOutGoesOn DEF SignInGoes, tokenVars
<1>7. events' \in Nat
  BY <1>0 DEF StopUser, Happens, TypeOK
<1>8. RestTyped
  BY <1>0, <1>1, <1>2, <1>7 DEF TypeOK, RestTyped, tokenVars, loginVars
<1> QED
  BY <1>4, <1>5, <1>6, <1>8, OtherStepKeeps

\* A device code is entered, or fails.
LEMMA CodeEndsKeeps ==
    ASSUME IInv, NEW c \in codes, NEW ok \in BOOLEAN, CodeEnds(c, ok)
    PROVE  IInv' /\ Stays
<1>0. TypeOK /\ c \in [id : Nat, server : Nat]
  BY DEF IInv, TypeOK
<1>1. UNCHANGED <<failedLately, refreshing, slot, server, auth, tainted, recovering, login, op,
                  signedOut>>
  BY DEF CodeEnds
<1>2. codes' = codes \ {c} /\ news' = news \cup {[id |-> c.id, server |-> c.server, ok |-> ok]}
  BY DEF CodeEnds
<1>3. \/ token' = [signIn |-> lastSignIn + 1, fresh |-> TRUE] /\ lastSignIn' = lastSignIn + 1
      \/ UNCHANGED <<token, lastSignIn>>
  BY DEF CodeEnds
<1>4. /\ token' \in [signIn : Nat, fresh : BOOLEAN] /\ lastSignIn' \in Nat
      /\ codes' \in SUBSET [id : Nat, server : Nat]
      /\ news' \in SUBSET [id : Nat, server : Nat, ok : BOOLEAN]
  <2>1. token \in [signIn : Nat, fresh : BOOLEAN] /\ lastSignIn \in Nat
    BY <1>0 DEF TypeOK
  <2>2. [id |-> c.id, server |-> c.server, ok |-> ok] \in [id : Nat, server : Nat, ok : BOOLEAN]
    BY <1>0
  <2>3. codes \in SUBSET [id : Nat, server : Nat]
        /\ news \in SUBSET [id : Nat, server : Nat, ok : BOOLEAN]
    BY <1>0 DEF TypeOK
  <2>4. codes' \in SUBSET [id : Nat, server : Nat]
        /\ news' \in SUBSET [id : Nat, server : Nat, ok : BOOLEAN]
    BY <1>2, <2>2, <2>3
  <2>5. token' \in [signIn : Nat, fresh : BOOLEAN] /\ lastSignIn' \in Nat
    <3>1. lastSignIn + 1 \in Nat
      BY <2>1
    <3>2. [signIn |-> lastSignIn + 1, fresh |-> TRUE] \in [signIn : Nat, fresh : BOOLEAN]
      BY <3>1
    <3>3. CASE token' = [signIn |-> lastSignIn + 1, fresh |-> TRUE] /\ lastSignIn' = lastSignIn + 1
      BY <3>1, <3>2, <3>3
    <3>4. CASE UNCHANGED <<token, lastSignIn>>
      BY <2>1, <3>4
    <3> QED
      BY <1>3, <3>3, <3>4
  <2> QED
    BY <2>4, <2>5
<1>5. events' \in Nat
  BY <1>0 DEF CodeEnds, Happens, TypeOK
<1>6. OpsStay
  BY <1>1 DEF OpsStay
<1>7. ServersFollow /\ SignOutGoes
  BY <1>0, <1>1, <1>6, ServersStay, SignOutGoesOn
<1>8. SignInGoes
  BY <1>1, <1>3 DEF SignInGoes
<1>9. RestTyped
  BY <1>0, <1>1, <1>4, <1>5 DEF TypeOK, RestTyped
<1> QED
  BY <1>6, <1>7, <1>8, <1>9, OtherStepKeeps

\* A watcher reads that a sign-in ended.
LEMMA LoginReportedKeeps ==
    ASSUME IInv, NEW n \in news, LoginReported(n)
    PROVE  IInv' /\ Stays
<1>0. TypeOK /\ login \in Logins /\ n \in [id : Nat, server : Nat, ok : BOOLEAN]
  BY DEF IInv, TypeOK
<1>1. /\ UNCHANGED <<token, lastSignIn, refreshing, slot, server, auth, tainted, recovering, codes,
                     op, events, signedOut>>
      /\ news' = news \ {n}
      /\ login' = (IF login.id = n.id THEN Completed(login, n.ok) ELSE login)
      /\ failedLately' = (failedLately /\ ~(login.id = n.id /\ n.ok))
  BY DEF LoginReported
<1>2. login' \in Logins /\ login'.id = login.id
  BY <1>0, <1>1 DEF Completed, Logins
<1>3. OpsStay
  BY <1>1, <1>2 DEF OpsStay
<1>4. ServersFollow /\ SignInGoes /\ SignOutGoes
  BY <1>0, <1>1, <1>3, ServersStay, SignOutGoesOn DEF SignInGoes
<1>5. RestTyped
  BY <1>0, <1>1, <1>2 DEF TypeOK, RestTyped
<1> QED
  BY <1>3, <1>4, <1>5, OtherStepKeeps

\* A watcher reads that a turn ended.
LEMMA TurnEndedKeeps ==
    ASSUME IInv, NEW s \in DOMAIN server, NEW completed \in BOOLEAN, TurnEnded(s, completed)
    PROVE  IInv' /\ Stays
<1>0. TypeOK /\ s \in Nat /\ server[s].owner \in Users
  BY DEF IInv, TypeOK, TurnEnded
<1>1. UNCHANGED <<tokenVars, refreshing, slot, server, auth, tainted, loginVars, signedOut>>
  BY DEF TurnEnded
<1>2. OpsStay
  <2>1. op' = op \/ op' = Append(op, Request("recover", server[s].owner, s))
    BY DEF TurnEnded
  <2>2. "recover" \in Kinds
    BY DEF Kinds
  <2>3. /\ Request("recover", server[s].owner, s) \in Ops
        /\ Proper(Request("recover", server[s].owner, s))
        /\ Request("recover", server[s].owner, s).at \in {"household", "begin", "cancel"}
    BY <1>0, <2>2, RequestIsProper
  <2> QED
    BY <1>1, <2>1, <2>3 DEF OpsStay, loginVars
<1>3. recovering' \in SUBSET Users /\ events' \in Nat
  BY <1>0 DEF TurnEnded, Happens, TypeOK
<1>4. ServersFollow /\ SignInGoes /\ SignOutGoes
  BY <1>0, <1>1, <1>2, ServersStay, SignOutGoesOn DEF SignInGoes, tokenVars
<1>5. RestTyped
  BY <1>0, <1>1, <1>3 DEF TypeOK, RestTyped, tokenVars, loginVars
<1> QED
  BY <1>2, <1>4, <1>5, OtherStepKeeps

\* A safety rule is broken.
LEMMA ViolationKeeps ==
    ASSUME IInv, NEW s \in DOMAIN server, Violation(s)
    PROVE  IInv' /\ Stays
<1>0. TypeOK
  BY DEF IInv
<1>1. /\ UNCHANGED <<tokenVars, refreshing, slot, auth, recovering, loginVars, op, signedOut>>
      /\ tainted' = TRUE /\ server' = Stopped({s})
  BY DEF Violation
<1>2. OpsStay
  BY <1>1 DEF OpsStay, loginVars
<1>3. ServersFollow /\ SignInGoes /\ SignOutGoes
  BY <1>0, <1>1, <1>2, StopFollows, SignOutGoesOn DEF SignInGoes, tokenVars
<1>4. events' \in Nat
  BY <1>0 DEF Violation, Happens, TypeOK
<1>5. RestTyped
  BY <1>0, <1>1, <1>4 DEF TypeOK, RestTyped, tokenVars, loginVars
<1> QED
  BY <1>2, <1>3, <1>5, OtherStepKeeps

\* One app server exits.
LEMMA ExitFollows ==
    ASSUME TypeOK, NEW s \in DOMAIN server, NEW new \in Servers, Fallen(server[s], new),
           server' = [server EXCEPT ![s] = new], slot' = slot
    PROVE  ServersFollow
<1>1. server \in Seq(Servers)
  BY DEF TypeOK
<1>2. server' \in Seq(Servers) /\ Len(server') = Len(server) /\ DOMAIN server' = DOMAIN server
  BY <1>1
<1>3. \A t \in DOMAIN server : Fallen(server[t], server'[t])
  <2>1. \A t \in DOMAIN server : Fallen(server[t], server[t])
    BY DEF Fallen
  <2> QED
    BY <1>1, <2>1
<1>4. \A u \in Users : Left(u)
  BY <1>2 DEF Left, Starts
<1> QED
  BY <1>2, <1>3, <1>4 DEF ServersFollow

\* An app server exits.
LEMMA ServerExitsKeeps ==
    ASSUME IInv, NEW s \in DOMAIN server, ServerExits(s)
    PROVE  IInv' /\ Stays
<1> DEFINE new == [server[s] EXCEPT !.up = FALSE]
<1>0. TypeOK /\ server[s] \in Servers
  BY DEF IInv, TypeOK
<1>1. /\ UNCHANGED <<tokenVars, refreshing, slot, auth, tainted, recovering, login, news, op,
                     signedOut>>
      /\ server' = [server EXCEPT ![s] = new]
      /\ codes' = {c \in codes : c.server # s}
  BY DEF ServerExits
<1>2. new \in Servers /\ Fallen(server[s], new)
  BY <1>0 DEF Servers, Fallen
<1> HIDE DEF new
<1>3. OpsStay
  BY <1>1 DEF OpsStay
<1>4. ServersFollow /\ SignInGoes /\ SignOutGoes
  BY <1>0, <1>1, <1>2, <1>3, ExitFollows, SignOutGoesOn DEF SignInGoes, tokenVars
<1>5. codes' \in SUBSET [id : Nat, server : Nat] /\ events' \in Nat
  BY <1>0, <1>1 DEF ServerExits, Happens, TypeOK
<1>6. RestTyped
  BY <1>0, <1>1, <1>5 DEF TypeOK, RestTyped, tokenVars
<1> QED
  BY <1>3, <1>4, <1>6, OtherStepKeeps

\* A watcher ends.
LEMMA WatchEndsKeeps ==
    ASSUME IInv, NEW s \in DOMAIN server, WatchEnds(s)
    PROVE  IInv' /\ Stays
<1> DEFINE new == [server[s] EXCEPT !.alive = FALSE, !.up = FALSE, !.watched = FALSE]
<1>0. TypeOK /\ server \in Seq(Servers) /\ server[s] \in Servers /\ login \in Logins
  BY DEF IInv, TypeOK
<1>1. /\ UNCHANGED <<tokenVars, refreshing, slot, auth, tainted, recovering, op, events, signedOut>>
      /\ codes' = {c \in codes : c.server # s}
      /\ news' = {n \in news : n.server # s}
  BY DEF WatchEnds
<1>2. server' = [server EXCEPT ![s] = new]
  BY <1>0 DEF WatchEnds
<1>3. new \in Servers /\ Fallen(server[s], new)
  BY <1>0 DEF Servers, Fallen
<1> HIDE DEF new
<1>4. login' \in Logins /\ login'.id = login.id
  <2>1. login' = login \/ login' = [login EXCEPT !.state = "failed"]
    BY DEF WatchEnds
  <2> QED
    BY <1>0, <2>1 DEF Logins
<1>5. OpsStay
  BY <1>1, <1>4 DEF OpsStay
<1>6. ServersFollow /\ SignInGoes /\ SignOutGoes
  BY <1>0, <1>1, <1>2, <1>3, <1>5, ExitFollows, SignOutGoesOn DEF SignInGoes, tokenVars
<1>7. codes' \in SUBSET [id : Nat, server : Nat] /\ news' \in SUBSET [id : Nat, server : Nat, ok : BOOLEAN]
  BY <1>0, <1>1 DEF TypeOK
<1>8. RestTyped
  BY <1>0, <1>1, <1>4, <1>7 DEF TypeOK, RestTyped, tokenVars
<1> QED
  BY <1>5, <1>6, <1>8, OtherStepKeeps

\* Time passes.
LEMMA TimeKeeps ==
    ASSUME IInv, Time
    PROVE  IInv' /\ Stays
<1>0. /\ TypeOK /\ login \in Logins /\ token \in [signIn : Nat, fresh : BOOLEAN]
      /\ failedLately \in BOOLEAN
  BY DEF IInv, TypeOK
<1>1. UNCHANGED <<lastSignIn, refreshing, slot, server, auth, tainted, recovering, codes, news,
                  op, signedOut>>
  BY DEF Time
<1>2. token' \in [signIn : Nat, fresh : BOOLEAN] /\ token'.signIn = token.signIn
  <2>1. token' = token \/ token' = [token EXCEPT !.fresh = FALSE]
    BY DEF Time
  <2> QED
    BY <1>0, <2>1
<1>3. login' \in Logins /\ login'.id = login.id
  <2>1. login' = login \/ login' = [login EXCEPT !.old = TRUE]
    BY DEF Time
  <2> QED
    BY <1>0, <2>1 DEF Logins
<1>4. failedLately' \in BOOLEAN /\ events' \in Nat
  <2>1. failedLately' = failedLately \/ failedLately' = FALSE
    BY DEF Time
  <2>2. events' \in Nat
    BY <1>0 DEF Time, Happens, TypeOK
  <2> QED
    BY <1>0, <2>1, <2>2
<1>5. OpsStay
  BY <1>1, <1>3 DEF OpsStay
<1>6. ServersFollow /\ SignInGoes /\ SignOutGoes
  BY <1>0, <1>1, <1>2, <1>5, ServersStay, SignOutGoesOn DEF SignInGoes
<1>7. RestTyped
  BY <1>0, <1>1, <1>2, <1>3, <1>4 DEF TypeOK, RestTyped
<1> QED
  BY <1>5, <1>6, <1>7, OtherStepKeeps

-----------------------------------------------------------------------------
(* The theorems *)

\* It holds at first.
LEMMA InitHolds == Init => IInv
<1> SUFFICES ASSUME Init
             PROVE  IInv
  OBVIOUS
<1>1. server = <<>> /\ op = <<>> /\ signedOut = {}
  BY DEF Init
<1>2. TypeOK
  <2>1. /\ token \in [signIn : Nat, fresh : BOOLEAN] /\ lastSignIn \in Nat /\ failedLately \in BOOLEAN
        /\ refreshing \in Nat /\ tainted \in BOOLEAN /\ events \in Nat
    BY DEF Init, None
  <2>2. slot \in [Owners -> Slots]
    <3>1. [lock |-> None, server |-> None] \in Slots
      BY DEF Slots, None
    <3> QED
      BY <3>1 DEF Init
  <2>3. login \in Logins
    BY DEF Init, Logins, None
  <2>4. server \in Seq(Servers) /\ op \in Seq(Ops)
    BY <1>1
  <2>5. auth \in [Users -> {"missing", "link", "file", "other"}]
    BY SupervisorAssumption DEF Init
  <2>6. /\ recovering \in SUBSET Users /\ codes \in SUBSET [id : Nat, server : Nat]
        /\ news \in SUBSET [id : Nat, server : Nat, ok : BOOLEAN] /\ signedOut \in SUBSET Nat
    BY DEF Init
  <2> QED
    BY <2>1, <2>2, <2>3, <2>4, <2>5, <2>6 DEF TypeOK
<1>3. DOMAIN server = {} /\ DOMAIN op = {}
  BY <1>1
<1> QED
  BY <1>1, <1>2, <1>3
  DEF IInv, Init, OpsAreProper, LocksHeld, StartingIsThere, OneEach, SignInsEnd,
      SignedOutEverywhere, RunningIsWatched, LoginIsDone, None

\* A request's step keeps it.
LEMMA OpStepKeeps ==
    ASSUME IInv, NEW i \in DOMAIN op, OpStep(i)
    PROVE  IInv' /\ Asks(i)
<1>1. CASE GetHousehold(i) \/ \E ok \in BOOLEAN : HouseholdStarted(i, ok)
  BY <1>1, GetHouseholdKeeps, HouseholdStartedKeeps
<1>2. CASE \E ok \in BOOLEAN : OwnSignedOut(i, ok) \/ UserStarted(i, ok)
  BY <1>2, OwnSignedOutKeeps, UserStartedKeeps
<1>3. CASE LookAtExpiry(i) \/ AskRefresh(i) \/ Refreshed(i)
  BY <1>3, LookAtExpiryKeeps, AskRefreshKeeps, RefreshedKeeps
<1>4. CASE UseSlot(i) \/ Replace(i) \/ BeginRecovery(i)
  BY <1>4, UseSlotKeeps, ReplaceKeeps, BeginRecoveryKeeps
<1>5. CASE Cancel(i) \/ CancelCode(i) \/ AskCode(i) \/ KeepLogin(i)
  BY <1>5, CancelKeeps, CancelCodeKeeps, AskCodeKeeps, KeepLoginKeeps
<1>6. CASE AskSignOut(i) \/ SignOutAnswered(i) \/ StopUsers(i)
  BY <1>6, AskSignOutKeeps, SignOutAnsweredKeeps, StopUsersKeeps
<1> QED
  BY <1>1, <1>2, <1>3, <1>4, <1>5, <1>6 DEF OpStep

\* Nothing that is read changes in a stuttering step.
LEMMA StutterKeeps ==
    ASSUME IInv, UNCHANGED vars
    PROVE  IInv' /\ Stays
<1>1. UNCHANGED <<token, lastSignIn, failedLately, refreshing, slot, server, auth, tainted,
                  recovering, login, codes, news, op, events, signedOut>>
  BY DEF vars, tokenVars, loginVars
<1>2. Stays
  BY <1>1 DEF Stays
<1> QED
  BY <1>1, <1>2 DEF IInv, TypeOK, OpsAreProper, LocksHeld, StartingIsThere, HasServer, OneEach, Newest,
      SignInsEnd, SignedOutEverywhere, RunningIsWatched, LoginIsDone

\* Every step keeps it; one that is no request's changes none.
LEMMA StepIs ==
    ASSUME IInv, [Next]_vars
    PROVE  /\ IInv'
           /\ Stays \/ \E i \in DOMAIN op : OpStep(i) /\ Asks(i)
<1>1. CASE UNCHANGED vars
  BY <1>1, StutterKeeps
<1>2. CASE \E kind \in Kinds \ {"recover"}, u \in Users : Ask(kind, u)
  BY <1>2, AskKeeps
<1>3. CASE \E i \in DOMAIN op : OpStep(i)
  BY <1>3, OpStepKeeps
<1>4. CASE SeeLogin \/ Time \/ \E u \in Users : StopUser(u)
  BY <1>4, SeeLoginKeeps, TimeKeeps, StopUserKeeps
<1>5. CASE \E c \in codes, ok \in BOOLEAN : CodeEnds(c, ok)
  BY <1>5, CodeEndsKeeps
<1>6. CASE \E n \in news : LoginReported(n)
  BY <1>6, LoginReportedKeeps
<1>7. CASE \E s \in DOMAIN server : \E completed \in BOOLEAN : TurnEnded(s, completed)
  BY <1>7, TurnEndedKeeps
<1>8. CASE \E s \in DOMAIN server : Violation(s) \/ ServerExits(s) \/ WatchEnds(s)
  BY <1>8, ViolationKeeps, ServerExitsKeeps, WatchEndsKeeps
<1> QED
  BY <1>1, <1>2, <1>3, <1>4, <1>5, <1>6, <1>7, <1>8 DEF Next

\* The invariant holds in every state the supervisor reaches: among it that
\* each user has one app server at most that may run, with its slot's lock held
\* while it starts (`runtime`).
THEOREM InvariantHolds == Spec => []IInv
<1>1. IInv /\ [Next]_vars => IInv'
  BY StepIs
<1> QED
  BY InitHolds, <1>1, PTL DEF Spec

\* What was told to stop does, whatever was starting meanwhile: a signed-out
\* sign-in is nobody's, and nothing runs once a safety rule was broken
\* (`sign_out_household`, `Latch`).
THEOREM StopsHold == Spec => []StopsAreReal
<1>1. IInv => StopsAreReal
  <2> SUFFICES ASSUME IInv
               PROVE  StopsAreReal
    OBVIOUS
  <2>1. SignedOutEverywhere /\ RunningIsWatched
    BY DEF IInv
  <2>2. ASSUME tainted, NEW s \in DOMAIN server, ~MayEnd(s)
        PROVE  ~server[s].alive /\ ~server[s].up
    BY <2>1, <2>2 DEF MayEnd, TaintStops, RunningIsWatched
  <2>3. TaintStopsAll
    BY <2>2 DEF TaintStopsAll
  <2> QED
    BY <2>1, <2>3 DEF StopsAreReal
<1> QED
  BY InvariantHolds, <1>1, PTL

\* A refresh is asked for only when the token needs one, never while another
\* or a sign-out is under way (`ensure_household`).
THEOREM RefreshesOnceHolds == Spec => RefreshesOnce
<1> DEFINE Once ==
        \A i \in DOMAIN op : op'[i].at = "asking" /\ op[i].at # "asking" =>
            /\ ~token.fresh /\ ~failedLately
            /\ \A j \in DOMAIN op : op[j].at \notin {"asking", "signingOutAll"}
<1>1. IInv /\ [Next]_vars => Once
  <2> SUFFICES ASSUME IInv, [Next]_vars, NEW i \in DOMAIN op,
                      op'[i].at = "asking", op[i].at # "asking"
               PROVE  /\ ~token.fresh /\ ~failedLately
                      /\ \A j \in DOMAIN op : op[j].at \notin {"asking", "signingOutAll"}
    OBVIOUS
  <2>1. Asks(i)
    BY StepIs DEF Asks, Stays
  <2>2. NeedsRefresh /\ refreshing = None
    BY <2>1 DEF Asks
  <2>3. \A j \in DOMAIN op : j # None
    BY DEF IInv, TypeOK, None
  <2> QED
    BY <2>2, <2>3 DEF NeedsRefresh, IInv, LocksHeld
<1>2. IInv /\ [Next]_vars => [Once]_vars
  BY <1>1
<1> HIDE DEF Once
<1>3. Spec => [][Once]_vars
  BY <1>2, InvariantHolds, PTL DEF Spec
<1> QED
  BY <1>3 DEF RefreshesOnce, Once

\* A restart for a failed credential stops the app server that failed, and no
\* other (`recover`).
THEOREM RestartsOnlyFailedHolds == Spec => RestartsOnlyFailed
<1> DEFINE Only ==
        \A i \in DOMAIN op : op[i].at = "replace" /\ op'[i].at # "replace" =>
            \A s \in DOMAIN server : server[s].alive /\ ~server'[s].alive => s = op[i].of
<1>1. IInv /\ [Next]_vars => Only
  <2> SUFFICES ASSUME IInv, [Next]_vars, NEW i \in DOMAIN op,
                      op[i].at = "replace", op'[i].at # "replace",
                      NEW s \in DOMAIN server, server[s].alive, ~server'[s].alive
               PROVE  s = op[i].of
    OBVIOUS
  <2>1. OpStep(i)
    BY StepIs DEF Asks, Stays
  <2>2. Replace(i)
    BY <2>1 DEF OpStep, At, GetHousehold, HouseholdStarted, OwnSignedOut, UserStarted, LookAtExpiry,
        AskRefresh, Refreshed, UseSlot, BeginRecovery, Cancel, CancelCode, AskCode, KeepLogin,
        AskSignOut, SignOutAnswered, StopUsers
  <2>3. CASE ~Replaces(i)
    BY <2>2, <2>3 DEF Replace
  <2>4. CASE Replaces(i)
    <3>1. server' = Stopped({op[i].of})
      BY <2>2, <2>4 DEF Replace, Replaces
    <3>2. s \notin {op[i].of} => server'[s] = server[s]
      BY <3>1 DEF Stopped
    <3> QED
      BY <3>2
  <2> QED
    BY <2>3, <2>4
<1>2. IInv /\ [Next]_vars => [Only]_vars
  BY <1>1
<1> HIDE DEF Only
<1>3. Spec => [][Only]_vars
  BY <1>2, InvariantHolds, PTL DEF Spec
<1> QED
  BY <1>3 DEF RestartsOnlyFailed, Only

\* A request that keeps its code as the latest sign-in's makes another of it.
LEMMA NewLogin ==
    ASSUME IInv, NEW i \in DOMAIN op, KeepLogin(i)
    PROVE  login'.id # login.id
<1>1. op[i].at = "hasCode" /\ login'.id = i
  BY DEF KeepLogin, At
<1>2. i # None
  BY <1>1, AtWork DEF None, IInv, TypeOK
<1> QED
  BY <1>1, <1>2 DEF IInv, LoginIsDone

\* Who else changes the sign-in.
LEMMA LoginChanges ==
    ASSUME IInv, [Next]_vars, login' # login
    PROVE  \/ \E i \in DOMAIN op : Cancel(i) \/ KeepLogin(i)
           \/ SeeLogin \/ Time
           \/ \E n \in news : LoginReported(n)
           \/ \E s \in DOMAIN server : WatchEnds(s)
<1>1. CASE UNCHANGED vars
  BY <1>1 DEF vars, loginVars
<1>2. CASE \E kind \in Kinds \ {"recover"}, u \in Users : Ask(kind, u)
  BY <1>2 DEF Ask, loginVars
<1>3. ASSUME NEW i \in DOMAIN op, OpStep(i)
      PROVE  Cancel(i) \/ KeepLogin(i)
  <2>1. ~GetHousehold(i) /\ \A ok \in BOOLEAN : ~HouseholdStarted(i, ok)
    BY DEF GetHousehold, HouseholdStarted, loginVars
  <2>2. \A ok \in BOOLEAN : ~OwnSignedOut(i, ok) /\ ~UserStarted(i, ok)
    BY DEF OwnSignedOut, UserStarted, loginVars
  <2>3. ~LookAtExpiry(i) /\ ~AskRefresh(i) /\ ~Refreshed(i)
    BY DEF LookAtExpiry, AskRefresh, Refreshed, loginVars
  <2>4. ~UseSlot(i) /\ ~Replace(i) /\ ~BeginRecovery(i)
    BY DEF UseSlot, Replace, BeginRecovery, loginVars
  <2>5. ~CancelCode(i) /\ ~AskCode(i) /\ ~AskSignOut(i) /\ ~SignOutAnswered(i) /\ ~StopUsers(i)
    BY DEF CancelCode, AskCode, AskSignOut, SignOutAnswered, StopUsers, loginVars
  <2> QED
    BY <1>3, <2>1, <2>2, <2>3, <2>4, <2>5 DEF OpStep
<1>4. CASE \E u \in Users : StopUser(u)
  BY <1>4 DEF StopUser, loginVars
<1>5. CASE \E c \in codes, ok \in BOOLEAN : CodeEnds(c, ok)
  BY <1>5 DEF CodeEnds
<1>6. CASE \E s \in DOMAIN server : \/ \E completed \in BOOLEAN : TurnEnded(s, completed)
                                    \/ Violation(s) \/ ServerExits(s)
  BY <1>6 DEF TurnEnded, Violation, ServerExits, loginVars
<1> QED
  BY <1>1, <1>2, <1>3, <1>4, <1>5, <1>6 DEF Next

\* A sign-in ends once, and an app server that closed fails only its own
\* (`Login::completed`, `household_exited`).
THEOREM LoginEndsOnceHolds == Spec => LoginEndsOnce
<1> DEFINE Ends ==
        login'.id = login.id /\ login'.state # login.state =>
            /\ login.state = "pending"
            /\ login'.state = "failed" =>
                   \/ \E n \in news : n.id = login.id /\ ~n.ok
                   \/ ~server[login.server].up \/ tainted
<1>1. IInv /\ [Next]_vars => Ends
  <2> SUFFICES ASSUME IInv, [Next]_vars, login'.id = login.id, login'.state # login.state
               PROVE  /\ login.state = "pending"
                      /\ login'.state = "failed" =>
                             \/ \E n \in news : n.id = login.id /\ ~n.ok
                             \/ ~server[login.server].up \/ tainted
    OBVIOUS
  <2>0. login \in Logins
    BY DEF IInv, TypeOK
  <2>1. Expire(login).state # login.state =>
            login.state = "pending" /\ Expire(login).state = "expired"
    BY <2>0, ExpireTypes
  <2>2. CASE \E i \in DOMAIN op : Cancel(i)
    <3>1. \/ Expire(login).state = "pending" /\ login' = [Expire(login) EXCEPT !.state = "cancelled"]
          \/ login' = Expire(login)
      BY <2>2 DEF Cancel
    <3>2. Expire(login) \in Logins /\ (Expire(login).state = "pending" => Expire(login) = login)
      BY <2>0, ExpireTypes
    <3>3. [Expire(login) EXCEPT !.state = "cancelled"].state = "cancelled"
      BY <3>2 DEF Logins
    <3> QED
      BY <2>1, <3>1, <3>2, <3>3
  <2>3. CASE \E i \in DOMAIN op : KeepLogin(i)
    BY <2>3, NewLogin
  <2>4. CASE SeeLogin
    BY <2>1, <2>4 DEF SeeLogin
  <2>5. CASE Time
    <3>1. login' = login \/ login' = [login EXCEPT !.old = TRUE]
      BY <2>5 DEF Time
    <3> QED
      BY <2>0, <3>1 DEF Logins
  <2>6. CASE \E n \in news : LoginReported(n)
    <3>1. PICK n \in news : LoginReported(n)
      BY <2>6
    <3>2. login.id = n.id /\ login' = Completed(login, n.ok)
      BY <3>1 DEF LoginReported
    <3>3. /\ login.state = "pending"
          /\ login'.state = IF n.ok THEN "completed" ELSE "failed"
      BY <2>0, <3>2 DEF Completed, Logins
    <3> QED
      BY <3>2, <3>3
  <2>7. CASE \E s \in DOMAIN server : WatchEnds(s)
    <3>1. PICK s \in DOMAIN server : WatchEnds(s)
      BY <2>7
    <3>2. PendingOn(s)
      BY <3>1 DEF WatchEnds
    <3>3. tainted \/ ~server[s].up
      BY <3>1 DEF WatchEnds, MayEnd, TaintStops
    <3> QED
      BY <3>2, <3>3 DEF PendingOn
  <2> QED
    BY <2>2, <2>3, <2>4, <2>5, <2>6, <2>7, LoginChanges
<1>2. IInv /\ [Next]_vars => [Ends]_vars
  BY <1>1
<1> HIDE DEF Ends
<1>3. Spec => [][Ends]_vars
  BY <1>2, InvariantHolds, PTL DEF Spec
<1> QED
  BY <1>3 DEF LoginEndsOnce, Ends

-----------------------------------------------------------------------------
(* The client of an app-server *)

\* The variables of AppServer, by their names.
serial == x1
alive == x2
appPending == x3
closed == x4
ended == x5
incoming == x6
watching == x7
served == x8
refused == x9
appTainted == x10
appRequests == x11
appCalls == x12
appChecks == x13
USE DEF serial, alive, appPending, closed, ended, incoming, watching, served, refused,
        appTainted, appRequests, appCalls, appChecks

\* What a request to the app-server is, and how it ended.
AppRequests ==
    [kind : {"resume", "turn"}, thread : Threads, serial : Nat,
     state : {"waiting", "answered", "failed", "done"}]

\* What a call of the app-server is, and how often it was answered.
AppCalls ==
    [thread : Threads, what : {"granted", "other", "approval"},
     state : {"asked", "serving", "done"}, answers : {0, 1}]

\* The client's state.
AppTypes ==
    /\ serial \in Nat
    /\ alive \in BOOLEAN /\ closed \in BOOLEAN /\ ended \in BOOLEAN
    /\ watching \in BOOLEAN /\ appTainted \in BOOLEAN
    /\ served \subseteq Threads /\ refused \subseteq Threads
    /\ appChecks \subseteq [serial : Nat, thread : Threads, ok : BOOLEAN]
    /\ appRequests \in Seq(AppRequests)
    /\ appCalls \in Seq(AppCalls)
    /\ incoming \in Seq(Nat)

\* A connection that ended is closed, and one that no loop reads is, unless
\* Codex is tainted, so that no app server starts while a request waits.
AppWaits ==
    /\ App!PendingIsWaiting
    /\ ended => closed
    /\ ~watching => closed \/ appTainted

\* What waits for the loop was asked, once each, and is not answered.
AppAsked ==
    /\ \A k \in DOMAIN incoming : incoming[k] \in DOMAIN appCalls /\ appCalls[incoming[k]].state = "asked"
    /\ \A k, l \in DOMAIN incoming : k # l => incoming[k] # incoming[l]
    /\ \A n \in DOMAIN appCalls :
        /\ appCalls[n].state = "asked" => appCalls[n].answers = 0
        /\ appCalls[n].state = "done" => appCalls[n].answers = 1

\* A thread that is served passed its checks here, and one that failed any is
\* refused.
AppChecked ==
    /\ \A t \in served : [serial |-> serial, thread |-> t, ok |-> TRUE] \in appChecks
    /\ \A c \in appChecks : ~c.ok => c.thread \in refused

\* The inductive invariant: PendingIsWaiting alone says nothing of the calls that wait to
\* be served, nor of what was checked.
AppInv == AppTypes /\ AppWaits /\ AppAsked /\ AppChecked

\* The empty sequence.
LEMMA NoElements == ASSUME NEW S PROVE <<>> \in Seq(S) /\ DOMAIN <<>> = {}
OBVIOUS

\* A request, and what an answer makes of it.
LEMMA AppRequestType ==
    ASSUME AppTypes, NEW i \in DOMAIN appRequests
    PROVE  /\ appRequests[i] \in AppRequests
           /\ appRequests[i].thread \in Threads /\ appRequests[i].serial \in Nat
           /\ \A state \in {"answered", "failed", "done"} :
               /\ [appRequests[i] EXCEPT !.state = state] \in AppRequests
               /\ [appRequests[i] EXCEPT !.state = state].state = state
<1>1. appRequests[i] \in AppRequests
    BY DEF AppTypes
<1> QED BY <1>1 DEF AppRequests

\* A call.
LEMMA AppCallType ==
    ASSUME AppTypes, NEW n \in DOMAIN appCalls
    PROVE  appCalls[n] \in AppCalls /\ appCalls[n].thread \in Threads /\ appCalls[n].answers \in {0, 1}
<1>1. appCalls[n] \in AppCalls
    BY DEF AppTypes
<1> QED BY <1>1 DEF AppCalls

\* What an answer makes of a call, and the mark that it had one.
LEMMA AppCallChanges ==
    ASSUME NEW call \in AppCalls
    PROVE  /\ call.answers = 0 =>
               LET done == [call EXCEPT !.state = "done", !.answers = @ + 1]
               IN  done \in AppCalls /\ done.state = "done" /\ done.answers = 1
           /\ LET taken == [call EXCEPT !.answers = 1]
               IN  taken \in AppCalls /\ taken.state = call.state
           /\ call.answers = 1 => call = [call EXCEPT !.answers = 1]
           /\ LET done == [call EXCEPT !.state = "done"]
               IN  done \in AppCalls /\ done.state = "done" /\ done.answers = call.answers
           /\ LET serving == [call EXCEPT !.state = "serving"]
               IN  serving \in AppCalls /\ serving.state = "serving"
<1> DEFINE answeredCall == [call EXCEPT !.state = "done", !.answers = @ + 1]
           taken == [call EXCEPT !.answers = 1]
           done == [call EXCEPT !.state = "done"]
           serving == [call EXCEPT !.state = "serving"]
<1>1. ASSUME call.answers = 0
      PROVE answeredCall \in AppCalls /\ answeredCall.state = "done" /\ answeredCall.answers = 1
    <2>1. call.answers + 1 = 1
        BY <1>1
    <2>2. answeredCall = [call EXCEPT !.state = "done", !.answers = 1]
        BY <2>1
    <2> HIDE DEF answeredCall
    <2> QED BY <2>2 DEF AppCalls
<1>2. taken \in AppCalls /\ taken.state = call.state
    BY DEF AppCalls
<1>3. ASSUME call.answers = 1 PROVE call = taken
    BY <1>3 DEF AppCalls
<1>4. done \in AppCalls /\ done.state = "done" /\ done.answers = call.answers
    BY DEF AppCalls
<1>5. serving \in AppCalls /\ serving.state = "serving"
    BY DEF AppCalls
<1> QED BY <1>1, <1>2, <1>3, <1>4, <1>5

\* A client that was just started keeps the invariant.
LEMMA AppInit == App!Init => AppInv
<1> SUFFICES ASSUME App!Init PROVE AppInv
    OBVIOUS
<1>1. AppTypes
    BY NoElements DEF App!Init, AppTypes
<1>2. AppWaits
    BY NoElements DEF App!Init, AppWaits, App!PendingIsWaiting
<1>3. AppAsked /\ AppChecked
    BY NoElements DEF App!Init, AppAsked, AppChecked
<1> QED BY <1>1, <1>2, <1>3 DEF AppInv

\* A request sent, and entered among the pending ones.
LEMMA AppStart ==
    ASSUME AppInv, App!Start
    PROVE  AppInv'
<1> USE DEF App!Start
<1>1. AppTypes'
    <2>1. incoming' \in Seq(Nat)
        BY NoElements
    <2>2. serial' \in Nat /\ served' \subseteq Threads
        BY DEF AppInv, AppTypes
    <2> QED BY <2>1, <2>2 DEF AppInv, AppTypes
<1>2. AppWaits'
    BY DEF AppInv, AppWaits, App!PendingIsWaiting
<1>3. AppAsked'
    BY NoElements DEF AppInv, AppAsked
<1>4. AppChecked'
    BY DEF AppInv, AppTypes, AppChecked
<1> QED BY <1>1, <1>2, <1>3, <1>4 DEF AppInv

\* A request is added to those that wait.
LEMMA AppRequest ==
    ASSUME AppInv, NEW kind \in {"resume", "turn"}, NEW t \in Threads, App!Request(kind, t),
           UNCHANGED <<App!conn, closed, served, refused, appTainted, appCalls, appChecks>>
    PROVE  AppInv'
<1> DEFINE new == [kind |-> kind, thread |-> t, serial |-> serial, state |-> "waiting"]
<1>1. new \in AppRequests
    BY DEF AppInv, AppTypes, AppRequests
<1>2. /\ appRequests \in Seq(AppRequests)
      /\ appRequests' = Append(appRequests, new)
      /\ appRequests' \in Seq(AppRequests)
      /\ DOMAIN appRequests' = DOMAIN appRequests \cup {Len(appRequests) + 1}
      /\ Len(appRequests) + 1 \notin DOMAIN appRequests
      /\ appRequests'[Len(appRequests) + 1] = new
      /\ \A i \in DOMAIN appRequests : appRequests'[i] = appRequests[i]
    BY <1>1 DEF AppInv, AppTypes, App!Request
<1>3. AppTypes'
    BY <1>2 DEF AppInv, AppTypes, App!conn
<1>4. AppWaits'
    <2>1. new.state = "waiting"
        OBVIOUS
    <2> HIDE DEF new
    <2>2. appPending' = {i \in DOMAIN appRequests' : appRequests'[i].state = "waiting"}
        BY <1>2, <2>1 DEF AppInv, AppWaits, App!PendingIsWaiting, App!Request
    <2> QED BY <2>2 DEF AppInv, AppWaits, App!PendingIsWaiting, App!Request, App!conn
<1>5. AppAsked' /\ AppChecked'
    BY DEF AppInv, AppAsked, AppChecked, App!conn
<1> QED BY <1>3, <1>4, <1>5 DEF AppInv

\* A request that waits comes to its end, or one that was answered is checked:
\* only its state changes.
LEMMA AppRequestMoves ==
    ASSUME AppInv, NEW i \in DOMAIN appRequests, NEW state \in {"answered", "failed", "done"},
           appRequests' = [appRequests EXCEPT ![i].state = state],
           appRequests[i].state = "waiting" <=> state # "done",
           appPending' = IF state = "done" THEN appPending ELSE appPending \ {i},
           UNCHANGED <<App!conn, closed, appTainted>>
    PROVE  appRequests' \in Seq(AppRequests) /\ AppWaits'
<1>1. appRequests[i] \in AppRequests
    BY DEF AppInv, AppTypes
<1>2. [appRequests[i] EXCEPT !.state = state] \in AppRequests
    BY <1>1 DEF AppRequests
<1>3. /\ appRequests' \in Seq(AppRequests)
      /\ DOMAIN appRequests' = DOMAIN appRequests
      /\ \A j \in DOMAIN appRequests :
          appRequests'[j].state = IF j = i THEN state ELSE appRequests[j].state
    BY <1>1, <1>2 DEF AppInv, AppTypes, AppRequests
<1>4. appPending' = {j \in DOMAIN appRequests' : appRequests'[j].state = "waiting"}
    BY <1>3 DEF AppInv, AppWaits, App!PendingIsWaiting
<1> QED BY <1>3, <1>4 DEF AppInv, AppWaits, App!PendingIsWaiting, App!conn

\* An answer takes its request out of the pending ones.
LEMMA AppAnswer ==
    ASSUME AppInv, NEW i \in DOMAIN appRequests, NEW ok \in BOOLEAN, App!Answer(i, ok)
    PROVE  AppInv'
<1>1. appRequests[i].state = "waiting"
    BY DEF App!Answer, AppInv, AppWaits, App!PendingIsWaiting
<1>2. appRequests' \in Seq(AppRequests) /\ AppWaits'
    <2> DEFINE state == IF ok THEN "answered" ELSE "failed"
    <2>1. state \in {"answered", "failed", "done"} /\ state # "done"
        OBVIOUS
    <2>2. appRequests' = [appRequests EXCEPT ![i].state = state] /\ appPending' = appPending \ {i}
          /\ UNCHANGED <<App!conn, closed, appTainted>>
        BY DEF App!Answer
    <2> HIDE DEF state
    <2> QED BY <1>1, <2>1, <2>2, AppRequestMoves
<1>3. AppTypes' /\ AppAsked' /\ AppChecked'
    BY <1>2 DEF App!Answer, AppInv, AppTypes, AppAsked, AppChecked, App!conn
<1> QED BY <1>2, <1>3 DEF AppInv

\* So does the end of a caller's patience.
LEMMA AppGiveUp ==
    ASSUME AppInv, NEW i \in DOMAIN appRequests, App!GiveUp(i)
    PROVE  AppInv'
<1>1. ~closed
    BY DEF App!GiveUp, AppInv, AppWaits, App!PendingIsWaiting
<1>2. appRequests' \in Seq(AppRequests) /\ AppWaits'
    BY <1>1, AppRequestMoves DEF App!GiveUp, App!GivenUp
<1>3. AppTypes' /\ AppAsked' /\ AppChecked'
    BY <1>2 DEF App!GiveUp, AppInv, AppTypes, AppAsked, AppChecked, App!conn
<1> QED BY <1>2, <1>3 DEF AppInv

\* The answer to a start or to a resume, after what it says was checked.
LEMMA AppServe ==
    ASSUME AppInv, NEW i \in DOMAIN appRequests, NEW passes \in BOOLEAN, App!Serve(i, passes)
    PROVE  AppInv'
<1>1. appRequests' \in Seq(AppRequests) /\ AppWaits'
    BY AppRequestMoves DEF App!Serve
<1> DEFINE t == appRequests[i].thread
           here == appRequests[i].serial = serial
<1>2. t \in Threads /\ appRequests[i].serial \in Nat
    BY AppRequestType DEF AppInv
<1>3. /\ served' = IF passes /\ here THEN served \cup {t} ELSE IF here THEN served \ {t} ELSE served
      /\ refused' = IF passes THEN refused ELSE refused \cup {t}
      /\ appChecks' = appChecks \cup {[serial |-> appRequests[i].serial, thread |-> t, ok |-> passes]}
      /\ UNCHANGED <<serial, alive, ended, incoming, watching, closed, appTainted, appCalls>>
    BY DEF App!Serve, App!conn
<1>4. AppTypes' /\ AppAsked'
    BY <1>1, <1>2, <1>3 DEF AppInv, AppTypes, AppAsked
<1>5. AppChecked'
    <2>1. \A u \in served' : [serial |-> serial, thread |-> u, ok |-> TRUE] \in appChecks'
        BY <1>3 DEF AppInv, AppChecked
    <2>2. \A c \in appChecks' : ~c.ok => c.thread \in refused'
        BY <1>3 DEF AppInv, AppChecked
    <2> QED BY <1>3, <2>1, <2>2 DEF AppChecked
<1> QED BY <1>1, <1>4, <1>5 DEF AppInv

\* The end of the output closes the client: what is pending fails.
LEMMA AppClose ==
    ASSUME AppInv, NEW output \in BOOLEAN, App!Close(output)
    PROVE  AppInv'
<1>1. /\ appRequests' \in Seq(AppRequests)
      /\ DOMAIN appRequests' = DOMAIN appRequests
      /\ \A i \in DOMAIN appRequests : appRequests'[i].state # "waiting"
    <2>1. \A i \in DOMAIN appRequests :
            /\ appRequests[i] \in AppRequests
            /\ [appRequests[i] EXCEPT !.state = "failed"] \in AppRequests
            /\ [appRequests[i] EXCEPT !.state = "failed"].state = "failed"
        BY AppRequestType DEF AppInv
    <2>2. appRequests' = [i \in DOMAIN appRequests |-> IF i \in appPending
                             THEN [appRequests[i] EXCEPT !.state = "failed"] ELSE appRequests[i]]
        BY DEF App!Close, App!Failed
    <2>3. \A i \in DOMAIN appRequests : i \in appPending <=> appRequests[i].state = "waiting"
        BY DEF AppInv, AppWaits, App!PendingIsWaiting
    <2>4. DOMAIN appRequests = 1..Len(appRequests) /\ Len(appRequests) \in Nat
        BY DEF AppInv, AppTypes
    <2> QED BY <2>1, <2>2, <2>3, <2>4
<1>2. AppWaits'
    BY <1>1 DEF App!Close, AppInv, AppWaits, App!PendingIsWaiting
<1>3. AppTypes' /\ AppAsked' /\ AppChecked'
    BY <1>1 DEF App!Close, AppInv, AppTypes, AppAsked, AppChecked
<1> QED BY <1>2, <1>3 DEF AppInv

\* A call of the app-server is queued, or refused at once.
LEMMA AppAsks ==
    ASSUME AppInv, NEW t \in Threads, NEW what \in {"granted", "other", "approval"}, App!Asks(t, what)
    PROVE  AppInv'
<1> DEFINE new == [thread |-> t, what |-> what, state |-> "asked", answers |-> 0]
           n == Len(appCalls) + 1
<1>1. new \in AppCalls
    BY DEF AppCalls
<1>2. /\ appCalls' \in Seq(AppCalls)
      /\ DOMAIN appCalls' = DOMAIN appCalls \cup {n}
      /\ n \in Nat /\ n \notin DOMAIN appCalls
      /\ appCalls'[n] = new
      /\ \A m \in DOMAIN appCalls : appCalls'[m] = appCalls[m]
    BY <1>1 DEF App!Asks, AppInv, AppTypes
<1>3. /\ incoming' \in Seq(Nat)
      /\ DOMAIN incoming' = DOMAIN incoming \cup {Len(incoming) + 1}
      /\ Len(incoming) + 1 \notin DOMAIN incoming
      /\ incoming'[Len(incoming) + 1] = n
      /\ \A k \in DOMAIN incoming : incoming'[k] = incoming[k]
    BY <1>2 DEF App!Asks, AppInv, AppTypes
<1>4. AppTypes'
    BY <1>2, <1>3 DEF App!Asks, AppInv, AppTypes
<1>5. AppWaits' /\ AppChecked'
    BY DEF App!Asks, AppInv, AppWaits, App!PendingIsWaiting, AppChecked
<1>6. AppAsked'
    <2>1. new.state = "asked" /\ new.answers = 0
        OBVIOUS
    <2> HIDE DEF new, n
    <2> QED BY <1>2, <1>3, <2>1 DEF AppInv, AppAsked
<1> QED BY <1>4, <1>5, <1>6 DEF AppInv

\* A call that is not waiting for the loop changes.
LEMMA AppCallMoves ==
    ASSUME AppInv, NEW n \in DOMAIN appCalls, NEW call \in AppCalls,
           appCalls' = [appCalls EXCEPT ![n] = call],
           call.state # "asked", call.state = "done" => call.answers = 1,
           \/ incoming' = incoming /\ appCalls[n].state # "asked"
           \/ incoming # <<>> /\ incoming' = Tail(incoming) /\ n = Head(incoming)
    PROVE  appCalls' \in Seq(AppCalls) /\ incoming' \in Seq(Nat) /\ AppAsked'
<1>1. /\ appCalls' \in Seq(AppCalls)
      /\ DOMAIN appCalls' = DOMAIN appCalls
      /\ \A m \in DOMAIN appCalls : appCalls'[m] = IF m = n THEN call ELSE appCalls[m]
    BY DEF AppInv, AppTypes
<1>2. \A m \in DOMAIN appCalls' :
        /\ appCalls'[m].state = "asked" => appCalls'[m].answers = 0
        /\ appCalls'[m].state = "done" => appCalls'[m].answers = 1
    BY <1>1 DEF AppInv, AppAsked
<1>3. CASE incoming' = incoming /\ appCalls[n].state # "asked"
    BY <1>1, <1>2, <1>3 DEF AppInv, AppTypes, AppAsked
<1>4. CASE incoming # <<>> /\ incoming' = Tail(incoming) /\ n = Head(incoming)
    <2>1. /\ incoming \in Seq(Nat) /\ incoming' \in Seq(Nat)
          /\ DOMAIN incoming' = 1..(Len(incoming) - 1)
          /\ DOMAIN incoming = 1..Len(incoming) /\ Len(incoming) \in Nat /\ Len(incoming) > 0
          /\ \A k \in DOMAIN incoming' : incoming'[k] = incoming[k + 1]
          /\ incoming[1] = n
        BY <1>4 DEF AppInv, AppTypes
    <2>2. \A k \in DOMAIN incoming' : k + 1 \in DOMAIN incoming /\ k + 1 # 1 /\ 1 \in DOMAIN incoming
        BY SMTT(30), <2>1
    <2>3. \A k \in DOMAIN incoming' : incoming'[k] # n /\ incoming'[k] \in DOMAIN appCalls
                                      /\ appCalls[incoming'[k]].state = "asked"
        BY SMTT(30), <2>1, <2>2 DEF AppInv, AppAsked
    <2>4. \A k, l \in DOMAIN incoming' : k # l => incoming'[k] # incoming'[l]
        BY <2>1, <2>2 DEF AppInv, AppAsked
    <2> QED BY <1>1, <1>2, <2>1, <2>3, <2>4 DEF AppAsked
<1> QED BY <1>3, <1>4

\* The connection takes the next call from the queue.
LEMMA AppWatch ==
    ASSUME AppInv, App!Watch
    PROVE  AppInv'
<1> DEFINE n == Head(incoming)
           call == appCalls[n]
<1>1. /\ incoming \in Seq(Nat) /\ incoming # <<>>
      /\ n \in DOMAIN appCalls /\ call.state = "asked" /\ call.answers = 0
      /\ call \in AppCalls /\ call.thread \in Threads
    <2>1. incoming \in Seq(Nat) /\ incoming # <<>> /\ 1 \in DOMAIN incoming /\ n = incoming[1]
        BY DEF App!Watch, AppInv, AppTypes
    <2>2. n \in DOMAIN appCalls /\ call.state = "asked" /\ call.answers = 0
        BY <2>1 DEF AppInv, AppAsked
    <2> QED BY <2>1, <2>2, AppCallType DEF AppInv
<1>2. PICK next \in AppCalls :
        /\ appCalls' = [appCalls EXCEPT ![n] = next]
        /\ next.state # "asked" /\ (next.state = "done" => next.answers = 1)
    <2>1. CASE appCalls' = [appCalls EXCEPT ![n].state = "serving"]
        <3>1. [call EXCEPT !.state = "serving"] \in AppCalls
              /\ [call EXCEPT !.state = "serving"].state = "serving"
            BY <1>1 DEF AppCalls
        <3> QED BY <2>1, <3>1
    <2>2. CASE appCalls' = App!Answered(n)
        <3> DEFINE done == [call EXCEPT !.state = "done", !.answers = @ + 1]
        <3>1. done \in AppCalls /\ done.state = "done" /\ done.answers = 1
            <4> HIDE DEF call
            <4> QED BY <1>1, AppCallChanges
        <3>2. appCalls' = [appCalls EXCEPT ![n] = done]
            BY <2>2 DEF App!Answered
        <3> HIDE DEF done
        <3> QED BY <3>1, <3>2
    <2> QED BY <2>1, <2>2 DEF App!Watch
<1>3. incoming' = Tail(incoming)
    BY DEF App!Watch
<1>4. appCalls' \in Seq(AppCalls) /\ incoming' \in Seq(Nat) /\ AppAsked'
    <2> HIDE DEF call
    <2> QED BY <1>1, <1>2, <1>3, AppCallMoves
<1>5. /\ served' \subseteq served /\ refused \subseteq refused' /\ refused' \subseteq Threads
      /\ appTainted' \in BOOLEAN /\ alive' \in BOOLEAN /\ (appTainted => appTainted')
      /\ UNCHANGED <<serial, appPending, closed, ended, watching, appRequests, appChecks>>
    <2>1. UNCHANGED <<serial, appPending, closed, ended, watching, appRequests, appChecks>>
        BY DEF App!Watch
    <2>2. CASE UNCHANGED <<served, refused, appTainted, alive>>
        BY <2>1, <2>2 DEF AppInv, AppTypes
    <2>3. CASE App!Violation(call.thread)
        BY <1>1, <2>1, <2>3 DEF AppInv, AppTypes, App!Violation
    <2> QED BY <2>2, <2>3 DEF App!Watch
<1>6. AppTypes' /\ AppWaits' /\ AppChecked'
    BY <1>4, <1>5 DEF AppInv, AppTypes, AppWaits, App!PendingIsWaiting, AppChecked
<1> QED BY <1>4, <1>6 DEF AppInv

\* A call is answered, or dropped.
LEMMA AppReply ==
    ASSUME AppInv, NEW n \in DOMAIN appCalls, App!Reply(n) \/ App!Drop(n)
    PROVE  AppInv'
<1>1. appCalls[n] \in AppCalls /\ appCalls[n].state = "serving"
    BY AppCallType DEF AppInv, App!Reply, App!Drop
<1>2. PICK next \in AppCalls :
        /\ appCalls' = [appCalls EXCEPT ![n] = next]
        /\ next.state # "asked" /\ (next.state = "done" => next.answers = 1)
    <2> DEFINE taken == [appCalls[n] EXCEPT !.answers = 1]
    <2>1. taken \in AppCalls /\ taken.state = "serving"
          /\ [taken EXCEPT !.state = "done"] \in AppCalls
          /\ [taken EXCEPT !.state = "done"].state = "done"
          /\ [taken EXCEPT !.state = "done"].answers = 1
        BY <1>1 DEF AppCalls
    <2>2. App!Taken(n) = [appCalls EXCEPT ![n] = taken]
        <3>1. CASE appCalls[n].answers = 0
            BY <1>1, <3>1 DEF App!Taken
        <3>2. CASE appCalls[n].answers = 1
            <4>1. appCalls[n] = taken
                BY <1>1, <3>2, AppCallChanges
            <4>2. App!Taken(n) = appCalls /\ appCalls = [appCalls EXCEPT ![n] = appCalls[n]]
                BY <3>2 DEF App!Taken, AppInv, AppTypes
            <4> HIDE DEF taken
            <4> QED BY <4>1, <4>2
        <3> QED BY <1>1, <3>1, <3>2, AppCallType DEF AppInv
    <2>3. CASE App!Reply(n)
        <3> HIDE DEF taken
        <3> QED BY <2>1, <2>2, <2>3 DEF App!Reply
    <2>4. CASE App!Drop(n)
        <3>1. appCalls' = [appCalls EXCEPT ![n] = [taken EXCEPT !.state = "done"]]
            BY <2>2, <2>4 DEF App!Drop, AppInv, AppTypes
        <3> HIDE DEF taken
        <3> QED BY <2>1, <3>1
    <2> QED BY <2>3, <2>4
<1>3. incoming' = incoming
    BY DEF App!Reply, App!Drop, App!conn
<1>4. appCalls' \in Seq(AppCalls) /\ incoming' \in Seq(Nat) /\ AppAsked'
    BY <1>1, <1>2, <1>3, AppCallMoves
<1>5. AppTypes' /\ AppWaits' /\ AppChecked'
    BY <1>4 DEF App!Reply, App!Drop, App!conn, AppInv, AppTypes, AppWaits, App!PendingIsWaiting, AppChecked
<1> QED BY <1>4, <1>5 DEF AppInv

\* The app-server stops, or nobody takes its calls any more.
LEMMA AppStops ==
    ASSUME AppInv, App!Stop \/ App!Unwatch
    PROVE  AppInv'
<1>1. AppTypes'
    BY DEF App!Stop, App!Unwatch, AppInv, AppTypes
<1>2. AppWaits'
    BY DEF App!Stop, App!Unwatch, AppInv, AppWaits, App!PendingIsWaiting
<1>3. AppAsked' /\ AppChecked'
    BY DEF App!Stop, App!Unwatch, AppInv, AppAsked, AppChecked
<1> QED BY <1>1, <1>2, <1>3 DEF AppInv

\* Every step keeps the invariant.
LEMMA AppStep ==
    ASSUME AppInv, [App!Next]_App!vars
    PROVE  AppInv'
<1>1. CASE UNCHANGED App!vars
    BY <1>1 DEF App!vars, AppInv, AppTypes, AppWaits, App!PendingIsWaiting, AppAsked, AppChecked
<1>2. ASSUME NEW t \in Threads, App!Resume(t) PROVE AppInv'
    BY <1>2, AppRequest DEF App!Resume
<1>3. ASSUME NEW t \in Threads, App!StartTurn(t) PROVE AppInv'
    BY <1>3, AppRequest DEF App!StartTurn
<1> QED
    BY <1>1, <1>2, <1>3, AppStart, AppWatch, AppStops, AppAsks, AppGiveUp, AppAnswer, AppServe,
       AppClose, AppReply
       DEF App!Next

\* The inductive invariant holds of every reachable state of the client.
THEOREM AppInvariant == App!Spec => []AppInv
BY AppInit, AppStep, PTL DEF App!Spec

\* The invariant says of requests and calls what is promised of them.
LEMMA AppSays ==
    ASSUME AppInv
    PROVE  App!PendingIsWaiting /\ App!AnsweredOnce
<1>1. \A n \in DOMAIN appCalls : appCalls[n].answers \in {0, 1}
    BY AppCallType DEF AppInv
<1>2. App!AnsweredOnce
    BY <1>1 DEF AppInv, AppAsked, App!AnsweredOnce
<1> QED BY <1>2 DEF AppInv, AppWaits

\* The table of pending requests holds exactly those that wait, and none once the
\* connection is closed (`PendingGuard`, `read_loop`); and every call of the app-server is
\* answered once by the time it is over (`ToolReply`).
THEOREM AppWaiting == App!Spec => [](App!PendingIsWaiting /\ App!AnsweredOnce)
BY AppSays, AppInvariant, PTL

\* A step starts no turn on a thread whose tools were not checked.
LEMMA AppTurnsChecked ==
    ASSUME AppInv, [App!Next]_App!vars
    PROVE  [App!AsksCheckedTurns]_App!vars
<1> SUFFICES ASSUME App!Next, NEW i \in DOMAIN appRequests' \ DOMAIN appRequests, appRequests'[i].kind = "turn"
             PROVE  /\ [serial |-> serial, thread |-> appRequests'[i].thread, ok |-> TRUE] \in appChecks
                    /\ \A c \in appChecks : c.thread = appRequests'[i].thread => c.ok
                    /\ ~appTainted
    BY DEF App!AsksCheckedTurns
<1>1. PICK kind \in {"resume", "turn"}, t \in Threads :
        App!Request(kind, t) /\ (kind = "turn" => App!MayTurn(t))
    <2>1. DOMAIN appRequests' # DOMAIN appRequests
        OBVIOUS
    <2> QED
        BY <2>1 DEF App!Next, App!Start, App!Watch, App!Unwatch, App!Stop, App!Resume, App!StartTurn,
           App!Asks, App!GiveUp, App!Answer, App!Serve,
                  App!Close, App!Failed, App!Reply, App!Drop, App!conn
<1>2. appRequests'[i].kind = kind /\ appRequests'[i].thread = t
    BY <1>1 DEF App!Request, AppInv, AppTypes
<1>3. App!MayTurn(t)
    BY <1>1, <1>2
<1> QED BY <1>2, <1>3 DEF App!MayTurn, App!NotRefused, AppInv, AppChecked

\* A turn is asked for only on a thread that passed its checks on this app-server, and
\* failed none (`ensure_served`, `Latch`).
THEOREM AppChecksTurns == App!Spec => App!TurnsChecked
BY AppInvariant, AppTurnsChecked, PTL DEF App!Spec, App!TurnsChecked

HIDE DEF serial, alive, appPending, closed, ended, incoming, watching, served, refused,
         appTainted, appRequests, appCalls, appChecks

-----------------------------------------------------------------------------
(* Tool calls *)

\* The variables of Tools, by their names.
now == x1
grants == x2
toolCalls == x3
counting == x4
inFlight == x5
writer == x6
toolNotes == x7
log == x8
running == x9
fetched == x10
unseen == x11
faults == x12
USE DEF now, grants, toolCalls, counting, inFlight, writer, toolNotes, log, running,
        fetched, unseen, faults

\* The operators of the library are the same in the instance.
LEMMA ToolLibrary ==
    /\ \A S : Tool!Cardinality(S) = Cardinality(S)
    /\ \A s, t : Tool!IsPrefix(s, t) = IsPrefix(s, t)
BY DEF Tool!Cardinality, Cardinality, Tool!IsPrefix, IsPrefix

\* The limits, and a day's length, are natural numbers.
ToolConstants == PerTurn \in Nat /\ PerDay \in Nat /\ DayMs \in Nat

\* How far a call may be.
ToolSteps == {"served", "counting", "counted", "fetching", "writing", "ended", "recorded", "over"}
\* What a call holds while it is served.
ToolServed == [turn : Turns \cup {"none"}, kind : {"fetch", "append", "replace"}, today : Nat, inTurn : Nat,
               draft : Seq(Nat), at : ToolSteps, refused : BOOLEAN]

\* A row of the log.
ToolLogs == [call : Nat, turn : Turns \cup {"none"}, kind : {"fetch", "append", "replace"},
             refused : BOOLEAN, time : Nat, run : BOOLEAN]

\* The calls, the log and the fetches made.
ToolTypes ==
    /\ now \in Nat
    /\ grants \in {{"fetch"}, {"append", "replace"}}
    /\ toolCalls \in Seq(ToolServed)
    /\ inFlight \subseteq DOMAIN toolCalls /\ IsFiniteSet(inFlight)
    /\ toolNotes \in Seq(Nat)
    /\ IsFiniteSet(log)
    /\ log \subseteq ToolLogs
    /\ \A f \in fetched : f.call \in DOMAIN toolCalls /\ f.time \in Nat /\ f.time =< now
    /\ IsFiniteSet(fetched)

\* Who counts, who fetches and who writes.
ToolPlaces ==
    /\ counting # 0 => counting \in DOMAIN toolCalls /\ toolCalls[counting].at \in {"counting", "counted"}
    /\ \A i \in DOMAIN toolCalls :
          /\ toolCalls[i].at \in {"counting", "counted"} => i = counting
          /\ toolCalls[i].at = "writing" => writer = i /\ toolCalls[i].draft = toolNotes
          /\ toolCalls[i].at = "fetching" => i \in inFlight
          /\ toolCalls[i].at \in {"served", "counting", "counted"} => ~toolCalls[i].refused
    /\ \A i \in inFlight : /\ toolCalls[i].at \in {"fetching", "ended", "recorded"}
                           /\ toolCalls[i].kind = "fetch" /\ ~toolCalls[i].refused

\* Every fetch the counts may see is under way, or in the log.
ToolSeen ==
    /\ \A f \in fetched :
          /\ toolCalls[f.call].at \notin {"served", "counting", "counted"}
          /\ f.call \in inFlight => toolCalls[f.call].turn = f.turn
          /\ \/ f.call \in unseen
             \/ f.call \in inFlight /\ toolCalls[f.call].at \in {"fetching", "ended"}
             \/ \E row \in log : /\ row.call = f.call /\ row.kind = "fetch" /\ ~row.refused
                                 /\ row.turn = f.turn /\ row.time >= f.time
    /\ \A f, g \in fetched : f.call = g.call => f = g

\* The fetches of the last day that the counts may see.
ToolInDay == {f \in fetched : f.call \notin unseen /\ f.time > now - DayMs}
\* The fetches of a turn that the counts may see.
ToolInTurn(t) == {f \in fetched : f.call \notin unseen /\ f.turn = t}
\* Those of the last day no longer under way.
ToolOutDay == {f \in fetched : f.call \notin unseen /\ f.time > now - DayMs /\ f.call \notin inFlight}
\* Those of a turn no longer under way.
ToolOutTurn(t) == {f \in fetched : f.call \notin unseen /\ f.turn = t /\ f.call \notin inFlight}

\* What the call that counts has read is no less than there is.
ToolCounts ==
    counting # 0 =>
        /\ Cardinality(ToolOutDay) =< toolCalls[counting].today
        /\ toolCalls[counting].at = "counted" =>
              Cardinality(ToolOutTurn(toolCalls[counting].turn)) =< toolCalls[counting].inTurn

\* The fetches that the counts may see are within the limits.
ToolLimits ==
    /\ \A t \in Turns : Cardinality(ToolInTurn(t)) =< PerTurn
    /\ Cardinality(ToolInDay) =< PerDay

\* The inductive invariant: that the limits hold needs that what the call that counts has
\* read in the log is no less than what is there, and that every fetch is in the log before
\* it leaves the ones under way.
ToolInv == ToolTypes /\ ToolPlaces /\ ToolSeen /\ ToolCounts /\ ToolLimits /\ Tool!RunHasItsCalls

\* They are finite.
LEMMA ToolSets ==
    ASSUME ToolTypes
    PROVE  /\ IsFiniteSet(ToolInDay) /\ Cardinality(ToolInDay) \in Nat
           /\ IsFiniteSet(ToolOutDay) /\ Cardinality(ToolOutDay) \in Nat
           /\ \A t : /\ IsFiniteSet(ToolInTurn(t)) /\ Cardinality(ToolInTurn(t)) \in Nat
                     /\ IsFiniteSet(ToolOutTurn(t)) /\ Cardinality(ToolOutTurn(t)) \in Nat
<1>1. IsFiniteSet(fetched)
    BY DEF ToolTypes
<1>2. /\ ToolInDay \in SUBSET fetched /\ ToolOutDay \in SUBSET fetched
      /\ \A t : ToolInTurn(t) \in SUBSET fetched /\ ToolOutTurn(t) \in SUBSET fetched
    BY DEF ToolInDay, ToolOutDay, ToolInTurn, ToolOutTurn
<1>3. \A T \in SUBSET fetched : IsFiniteSet(T) /\ Cardinality(T) \in Nat
    BY <1>1, FS_Subset, FS_CardinalityType
<1> QED BY <1>2, <1>3

\* A set is within a limit if the part of it that is counted is.
LEMMA ToolWithin ==
    ASSUME NEW made, IsFiniteSet(made), NEW limit \in Nat,
           Cardinality({f \in made : f.call \notin unseen}) =< limit
    PROVE  Tool!Within(made, limit)
<1> DEFINE seen == {f \in made : f.call \notin unseen}
           rest_ == {f \in made : f.call \in unseen}
<1>1. IsFiniteSet(seen) /\ IsFiniteSet(rest_) /\ seen \cap rest_ = {} /\ seen \cup rest_ = made
    <2>1. seen \in SUBSET made /\ rest_ \in SUBSET made
        OBVIOUS
    <2> QED BY <2>1, FS_Subset
<1>2. /\ Cardinality(seen) \in Nat /\ Cardinality(rest_) \in Nat
      /\ Cardinality(seen \cap rest_) = 0
    BY <1>1, FS_CardinalityType, FS_EmptySet
<1>3. Cardinality(made) = Cardinality(seen) + Cardinality(rest_)
    <2>1. Cardinality(seen \cup rest_)
            = Cardinality(seen) + Cardinality(rest_) - Cardinality(seen \cap rest_)
        BY <1>1, FS_Union
    <2> HIDE DEF seen, rest_
    <2>2. PICK a \in Nat : a = Cardinality(seen)
        BY <1>2
    <2>3. PICK b \in Nat : b = Cardinality(rest_)
        BY <1>2
    <2>4. Cardinality(made) = a + b - 0
        BY <1>1, <1>2, <2>1, <2>2, <2>3
    <2>5. a + b - 0 = a + b
        OBVIOUS
    <2> QED BY <2>2, <2>3, <2>4, <2>5
<1>4. Cardinality(seen) =< limit
    OBVIOUS
<1>5. Cardinality(made) =< limit + Cardinality(rest_)
    <2> HIDE DEF seen, rest_
    <2>2. PICK a \in Nat : a = Cardinality(seen)
        BY <1>2
    <2>3. PICK b \in Nat : b = Cardinality(rest_)
        BY <1>2
    <2> QED BY <1>3, <1>4, <2>2, <2>3
<1> QED BY <1>5, ToolLibrary DEF Tool!Within

\* The invariant says that the limits are kept.
LEMMA ToolSays ==
    ASSUME ToolConstants, ToolInv
    PROVE  Tool!FetchLimitKept
<1>1. IsFiniteSet(fetched)
    BY DEF ToolInv, ToolTypes
<1>2. ASSUME NEW t \in Turns
      PROVE  Tool!Within({f \in fetched : f.turn = t}, PerTurn)
    <2> DEFINE made == {f \in fetched : f.turn = t}
    <2>1. made \in SUBSET fetched /\ {f \in made : f.call \notin unseen} = ToolInTurn(t)
        BY DEF ToolInTurn
    <2>2. IsFiniteSet(made)
        BY <1>1, <2>1, FS_Subset
    <2>3. Cardinality(ToolInTurn(t)) =< PerTurn
        BY DEF ToolInv, ToolLimits
    <2> HIDE DEF made
    <2>4. Tool!Within(made, PerTurn)
        BY <2>1, <2>2, <2>3, ToolWithin DEF ToolConstants
    <2> QED BY <2>4 DEF made
<1>3. Tool!Within({f \in fetched : f.time > now - DayMs}, PerDay)
    <2> DEFINE made == {f \in fetched : f.time > now - DayMs}
    <2>1. made \in SUBSET fetched /\ {f \in made : f.call \notin unseen} = ToolInDay
        BY DEF ToolInDay
    <2>2. IsFiniteSet(made)
        BY <1>1, <2>1, FS_Subset
    <2>3. Cardinality(ToolInDay) =< PerDay
        BY DEF ToolInv, ToolLimits
    <2> HIDE DEF made
    <2>4. Tool!Within(made, PerDay)
        BY <2>1, <2>2, <2>3, ToolWithin DEF ToolConstants
    <2> QED BY <2>4 DEF made
<1> QED BY <1>2, <1>3 DEF Tool!FetchLimitKept

\* Each of a set of fetches has an entry of its own.
LEMMA ToolFits ==
    ASSUME NEW A, NEW B, IsFiniteSet(B), \A a \in A : \E b \in B : b.call = a.call,
           \A a, c \in A : a.call = c.call => a = c
    PROVE  IsFiniteSet(A) /\ Cardinality(A) =< Cardinality(B)
<1> DEFINE f == [a \in A |-> CHOOSE b \in B : b.call = a.call]
<1>1. \A a \in A : f[a] \in B /\ f[a].call = a.call
    OBVIOUS
<1>2. f \in Injection(A, B)
    BY <1>1 DEF Injection, IsInjective
<1> HIDE DEF f
<1> QED BY <1>2, FS_Injection

\* Or is one of them.
LEMMA ToolFitsIn ==
    ASSUME NEW A, NEW B, IsFiniteSet(B), \A a \in A : a.call \in B,
           \A a, c \in A : a.call = c.call => a = c
    PROVE  IsFiniteSet(A) /\ Cardinality(A) =< Cardinality(B)
<1> DEFINE f == [a \in A |-> a.call]
<1>1. f \in Injection(A, B)
    BY DEF Injection, IsInjective
<1> HIDE DEF f
<1> QED BY <1>1, FS_Injection

\* A broker that has served nothing.
LEMMA ToolInit ==
    ASSUME ToolConstants, Tool!Init
    PROVE  ToolInv
<1>1. /\ grants \in {{"fetch"}, {"append", "replace"}}
      /\ now = 0 /\ toolCalls = <<>> /\ counting = 0 /\ inFlight = {} /\ writer = 0
      /\ toolNotes = <<>> /\ log = {} /\ running = {} /\ fetched = {} /\ unseen = {}
    BY DEF Tool!Init
<1>2. toolCalls \in Seq(ToolServed) /\ DOMAIN toolCalls = {} /\ toolNotes \in Seq(Nat)
    BY <1>1
<1>3. ToolInDay = {} /\ ToolOutDay = {} /\ \A t : ToolInTurn(t) = {} /\ ToolOutTurn(t) = {}
    BY <1>1 DEF ToolInDay, ToolOutDay, ToolInTurn, ToolOutTurn
<1>4. ToolTypes
    <2>2. inFlight \subseteq DOMAIN toolCalls /\ IsFiniteSet(inFlight) /\ IsFiniteSet(log)
          /\ IsFiniteSet(fetched)
        BY <1>1, FS_EmptySet
    <2> QED BY <1>1, <1>2, <2>2 DEF ToolTypes
<1>5. ToolPlaces /\ ToolSeen /\ ToolCounts /\ Tool!RunHasItsCalls
    BY <1>1, <1>2 DEF ToolPlaces, ToolSeen, ToolCounts, Tool!RunHasItsCalls
<1>6. ToolLimits
    BY <1>3, FS_EmptySet DEF ToolLimits, ToolConstants
<1> QED BY <1>4, <1>5, <1>6 DEF ToolInv

\* Who counts, and who fetches.
LEMMA ToolWho ==
    ASSUME ToolInv, NEW i \in DOMAIN toolCalls
    PROVE  /\ i # 0
           /\ toolCalls[i].at \notin {"counting", "counted"} => counting # i
           /\ toolCalls[i].at \in {"counting", "counted"} => counting = i
           /\ toolCalls[i].at \notin {"fetching", "ended", "recorded"} => i \notin inFlight
           /\ toolCalls[i].at = "writing" => writer = i
<1>1. i # 0
    BY DEF ToolInv, ToolTypes
<1> QED BY <1>1 DEF ToolInv, ToolPlaces

\* What a step leaves of the counts and the limits when it makes no fetch.
LEMMA ToolCountsOn ==
    ASSUME ToolConstants, ToolInv, fetched' = fetched, unseen \subseteq unseen',
           now' \in Nat, now' >= now,
           counting' # 0 =>
               /\ counting' = counting
               /\ toolCalls'[counting].today = toolCalls[counting].today
               /\ toolCalls'[counting].inTurn = toolCalls[counting].inTurn
               /\ toolCalls'[counting].turn = toolCalls[counting].turn
               /\ toolCalls'[counting].at = toolCalls[counting].at
               /\ \A f \in fetched :
                      f.call \in inFlight => f.call \in inFlight' \/ f.call \in unseen'
    PROVE  ToolCounts' /\ ToolLimits'
<1>1. /\ now \in Nat /\ DayMs \in Nat /\ PerTurn \in Nat /\ PerDay \in Nat
      /\ \A f \in fetched : f.time \in Nat
    BY DEF ToolInv, ToolTypes, ToolConstants
<1>2. /\ IsFiniteSet(ToolInDay) /\ Cardinality(ToolInDay) \in Nat
      /\ IsFiniteSet(ToolOutDay) /\ Cardinality(ToolOutDay) \in Nat
      /\ \A t : /\ IsFiniteSet(ToolInTurn(t)) /\ Cardinality(ToolInTurn(t)) \in Nat
                /\ IsFiniteSet(ToolOutTurn(t)) /\ Cardinality(ToolOutTurn(t)) \in Nat
    BY ToolSets DEF ToolInv
<1>3. \A f \in fetched : f.time > now' - DayMs => f.time > now - DayMs
    BY <1>1
<1>4. ToolInDay' \in SUBSET ToolInDay
    BY <1>3 DEF ToolInDay
<1>5. \A t : ToolInTurn(t)' \in SUBSET ToolInTurn(t)
    BY DEF ToolInTurn
<1>6. Cardinality(ToolInDay') =< PerDay
    <2>1. Cardinality(ToolInDay') =< Cardinality(ToolInDay) /\ Cardinality(ToolInDay') \in Nat
        BY <1>2, <1>4, FS_Subset, FS_CardinalityType
    <2>2. Cardinality(ToolInDay) =< PerDay
        BY DEF ToolInv, ToolLimits
    <2> QED BY <1>1, <1>2, <2>1, <2>2
<1>7. ASSUME NEW t \in Turns PROVE Cardinality(ToolInTurn(t)') =< PerTurn
    <2>1. Cardinality(ToolInTurn(t)') =< Cardinality(ToolInTurn(t)) /\ Cardinality(ToolInTurn(t)') \in Nat
        BY <1>2, <1>5, FS_Subset, FS_CardinalityType
    <2>2. Cardinality(ToolInTurn(t)) =< PerTurn
        BY DEF ToolInv, ToolLimits
    <2> QED BY <1>1, <1>2, <2>1, <2>2
<1>8. ASSUME counting' # 0 PROVE ToolCounts'
    <2>1. /\ counting' = counting /\ counting # 0
          /\ toolCalls'[counting].today = toolCalls[counting].today
          /\ toolCalls'[counting].inTurn = toolCalls[counting].inTurn
          /\ toolCalls'[counting].turn = toolCalls[counting].turn
          /\ toolCalls'[counting].at = toolCalls[counting].at
          /\ \A f \in fetched :
                 f.call \in inFlight => f.call \in inFlight' \/ f.call \in unseen'
        BY <1>8
    <2>2. ToolOutDay' \in SUBSET ToolOutDay
        BY <1>3, <2>1 DEF ToolOutDay
    <2>3. \A t : ToolOutTurn(t)' \in SUBSET ToolOutTurn(t)
        BY <2>1 DEF ToolOutTurn
    <2>4. Cardinality(ToolOutDay') =< Cardinality(ToolOutDay) /\ Cardinality(ToolOutDay') \in Nat
        BY <1>2, <2>2, FS_Subset, FS_CardinalityType
    <2>5. \A t : /\ Cardinality(ToolOutTurn(t)') =< Cardinality(ToolOutTurn(t))
                 /\ Cardinality(ToolOutTurn(t)') \in Nat
        BY <1>2, <2>3, FS_Subset, FS_CardinalityType
    <2>6. PICK c \in ToolServed : c = toolCalls[counting]
        <3>1. counting \in DOMAIN toolCalls /\ toolCalls \in Seq(ToolServed)
            BY <2>1 DEF ToolInv, ToolTypes, ToolPlaces
        <3> QED BY <3>1
    <2>7. c.today \in Nat /\ c.inTurn \in Nat
        BY DEF ToolServed
    <2>8. /\ Cardinality(ToolOutDay) =< c.today
          /\ c.at = "counted" => Cardinality(ToolOutTurn(c.turn)) =< c.inTurn
        BY <2>1, <2>6 DEF ToolInv, ToolCounts
    <2>9. Cardinality(ToolOutDay') =< c.today
        BY <1>2, <2>4, <2>7, <2>8
    <2>10. c.at = "counted" => Cardinality(ToolOutTurn(c.turn)') =< c.inTurn
        BY <1>2, <2>5, <2>7, <2>8
    <2>11. /\ toolCalls'[counting'].today = c.today /\ toolCalls'[counting'].inTurn = c.inTurn
           /\ toolCalls'[counting'].turn = c.turn /\ toolCalls'[counting'].at = c.at
        BY <2>1, <2>6
    <2>12. (ToolOutTurn(toolCalls[counting].turn))' = ToolOutTurn(c.turn)'
        BY <2>11 DEF ToolOutTurn
    <2> QED BY <2>9, <2>10, <2>11, <2>12 DEF ToolCounts
<1>9. ToolCounts'
    BY <1>8 DEF ToolCounts
<1> QED BY <1>6, <1>7, <1>9 DEF ToolLimits

\* A call that goes on leaves the others as they are.
LEMMA ToolOne ==
    ASSUME NEW S, toolCalls \in Seq(S), NEW i \in DOMAIN toolCalls, NEW c \in S,
           toolCalls' = [toolCalls EXCEPT ![i] = c]
    PROVE  /\ toolCalls' \in Seq(S) /\ DOMAIN toolCalls' = DOMAIN toolCalls /\ toolCalls'[i] = c
           /\ \A j \in DOMAIN toolCalls : j # i => toolCalls'[j] = toolCalls[j]
OBVIOUS

\* What the invariant says of a call that may go on.
LEMMA ToolCall ==
    ASSUME ToolInv, NEW i \in DOMAIN toolCalls
    PROVE  /\ toolCalls \in Seq(ToolServed) /\ i \in Nat
           /\ toolCalls[i] \in ToolServed
           /\ toolCalls[i].turn \in Turns \cup {"none"} /\ toolCalls[i].today \in Nat
           /\ toolCalls[i].inTurn \in Nat /\ toolCalls[i].draft \in Seq(Nat)
           /\ toolCalls[i].kind \in {"fetch", "append", "replace"}
           /\ toolCalls[i].at \in ToolSteps /\ toolCalls[i].refused \in BOOLEAN
<1>1. toolCalls \in Seq(ToolServed)
    BY DEF ToolInv, ToolTypes
<1>2. toolCalls[i] \in ToolServed /\ i \in Nat
    BY <1>1
<1>3. /\ toolCalls[i].turn \in Turns \cup {"none"} /\ toolCalls[i].today \in Nat
      /\ toolCalls[i].inTurn \in Nat /\ toolCalls[i].draft \in Seq(Nat)
      /\ toolCalls[i].kind \in {"fetch", "append", "replace"}
      /\ toolCalls[i].at \in ToolSteps
    BY <1>2 DEF ToolServed
<1>4. toolCalls[i].refused \in BOOLEAN
    BY <1>2 DEF ToolServed
<1> QED BY <1>1, <1>2, <1>3, <1>4

\* A step of one call that leaves the log, the runs, the time and the fetches
\* made as they are keeps the invariant, if what the call becomes is right.
LEMMA ToolSmall ==
    ASSUME ToolConstants, ToolInv, NEW i \in DOMAIN toolCalls, NEW c \in ToolServed,
           toolCalls' = [toolCalls EXCEPT ![i] = c],
           UNCHANGED <<now, grants, inFlight, log, running, fetched, unseen>>,
           toolNotes' \in Seq(Nat),
           \/ counting' = counting /\ counting # i
           \/ counting' = 0 /\ counting \in {0, i},
           c.at \notin {"served", "counting", "counted", "fetching"},
           c.at = "writing" => writer' = i /\ c.draft = toolNotes',
           i \in inFlight => /\ c.at = "ended" /\ c.kind = "fetch" /\ ~c.refused
                             /\ c.turn = toolCalls[i].turn,
           \A j \in DOMAIN toolCalls :
               j # i /\ toolCalls[j].at = "writing" => writer' = j /\ toolNotes' = toolNotes
    PROVE  ToolInv'
<1>1. /\ toolCalls' \in Seq(ToolServed) /\ DOMAIN toolCalls' = DOMAIN toolCalls /\ toolCalls'[i] = c
      /\ \A j \in DOMAIN toolCalls : j # i => toolCalls'[j] = toolCalls[j]
    <2>1. toolCalls \in Seq(ToolServed)
        BY ToolCall
    <2> QED BY <2>1, ToolOne
<1>2. ToolTypes'
    BY <1>1 DEF ToolInv, ToolTypes
<1>3. ToolPlaces'
    <2>1. ToolPlaces
        BY DEF ToolInv
    <2>2. counting' # 0 => /\ counting' \in DOMAIN toolCalls'
                           /\ toolCalls'[counting'].at \in {"counting", "counted"}
        BY <1>1, <2>1 DEF ToolPlaces
    <2>3. ASSUME NEW j \in DOMAIN toolCalls
          PROVE  /\ toolCalls'[j].at \in {"counting", "counted"} => j = counting'
                 /\ toolCalls'[j].at = "writing" => writer' = j /\ toolCalls'[j].draft = toolNotes'
                 /\ toolCalls'[j].at = "fetching" => j \in inFlight'
                 /\ toolCalls'[j].at \in {"served", "counting", "counted"} => ~toolCalls'[j].refused
        <3>1. CASE j = i
            BY <1>1, <3>1
        <3>2. CASE j # i
            BY <1>1, <2>1, <3>2 DEF ToolPlaces
        <3> QED BY <3>1, <3>2
    <2>4. ASSUME NEW j \in inFlight
          PROVE  /\ toolCalls'[j].at \in {"fetching", "ended", "recorded"}
                 /\ toolCalls'[j].kind = "fetch" /\ ~toolCalls'[j].refused
        <3>1. j \in DOMAIN toolCalls
            BY DEF ToolInv, ToolTypes
        <3>2. CASE j = i
            BY <1>1, <3>2
        <3>3. CASE j # i
            BY <1>1, <2>1, <3>1, <3>3 DEF ToolPlaces
        <3> QED BY <3>2, <3>3
    <2> QED BY <1>1, <2>2, <2>3, <2>4 DEF ToolPlaces
<1>4. ToolSeen'
    <2>1. ToolSeen /\ \A f \in fetched : f.call \in DOMAIN toolCalls
        BY DEF ToolInv, ToolTypes
    <2>2. ASSUME NEW f \in fetched
          PROVE  /\ toolCalls'[f.call].at \notin {"served", "counting", "counted"}
                 /\ f.call \in inFlight' => toolCalls'[f.call].turn = f.turn
                 /\ \/ f.call \in unseen'
                    \/ f.call \in inFlight' /\ toolCalls'[f.call].at \in {"fetching", "ended"}
                    \/ \E row \in log' : /\ row.call = f.call /\ row.kind = "fetch"
                                         /\ ~row.refused /\ row.turn = f.turn
                                         /\ row.time >= f.time
        <3>1. CASE f.call = i
            BY <1>1, <2>1, <3>1 DEF ToolSeen
        <3>2. CASE f.call # i
            BY <1>1, <2>1, <3>2 DEF ToolSeen
        <3> QED BY <3>1, <3>2
    <2>3. \A f, g \in fetched' : f.call = g.call => f = g
        BY <2>1 DEF ToolSeen
    <2> QED BY <2>2, <2>3 DEF ToolSeen
<1>5. ToolCounts' /\ ToolLimits'
    <2>1. now' \in Nat /\ now' >= now
        BY DEF ToolInv, ToolTypes
    <2>2. counting' # 0 => counting' = counting /\ counting # i /\ counting \in DOMAIN toolCalls
        BY DEF ToolInv, ToolPlaces
    <2>3. counting' # 0 => counting' = counting /\ toolCalls'[counting] = toolCalls[counting]
        BY <1>1, <2>2
    <2> QED BY <2>1, <2>3, ToolCountsOn
<1>6. Tool!RunHasItsCalls'
    BY DEF ToolInv, Tool!RunHasItsCalls
<1> QED BY <1>2, <1>3, <1>4, <1>5, <1>6 DEF ToolInv

\* What a call is once it came to its outcome.
LEMMA ToolEnds ==
    ASSUME ToolInv, NEW i \in DOMAIN toolCalls, NEW r \in BOOLEAN, Tool!Ends(i, r)
    PROVE  \E c \in ToolServed : /\ toolCalls' = [toolCalls EXCEPT ![i] = c]
                                 /\ c.at = "ended" /\ c.kind = toolCalls[i].kind
                                 /\ c.turn = toolCalls[i].turn /\ c.refused = r
<1> DEFINE o == Tool!Over(toolCalls[i].kind)
           c == [o EXCEPT !.turn = toolCalls[i].turn, !.at = "ended", !.refused = r]
<1>1. o \in ToolServed /\ o.kind = toolCalls[i].kind
    <2>1. toolCalls[i].kind \in {"fetch", "append", "replace"}
        BY ToolCall
    <2>2. <<>> \in Seq(Nat) /\ 0 \in Nat /\ "over" \in ToolSteps
        BY DEF ToolSteps
    <2> QED BY <2>1, <2>2 DEF ToolServed, Tool!Over
<1>2. toolCalls' = [toolCalls EXCEPT ![i] = c]
    BY DEF Tool!Ends
<1>3. toolCalls[i].turn \in Turns \cup {"none"} /\ "ended" \in ToolSteps
    BY ToolCall DEF ToolSteps
<1> HIDE DEF o
<1>4. c \in ToolServed
    BY <1>1, <1>3 DEF ToolServed
<1>5. c.at = "ended" /\ c.kind = toolCalls[i].kind /\ c.turn = toolCalls[i].turn
    BY <1>1 DEF ToolServed
<1>6. c.refused = r
    BY <1>1 DEF ToolServed
<1> HIDE DEF c
<1> QED BY <1>2, <1>4, <1>5, <1>6

\* A step that ends the call i, on the notes or on nothing.
LEMMA ToolEndsKeeps ==
    ASSUME ToolConstants, ToolInv, NEW i \in DOMAIN toolCalls, NEW r \in BOOLEAN, Tool!Ends(i, r),
           UNCHANGED <<now, grants, inFlight, log, running, fetched, unseen>>,
           toolNotes' \in Seq(Nat),
           \/ counting' = counting /\ counting # i
           \/ counting' = 0 /\ counting \in {0, i},
           i \in inFlight => ~r,
           \A j \in DOMAIN toolCalls :
               j # i /\ toolCalls[j].at = "writing" => writer' = j /\ toolNotes' = toolNotes
    PROVE  ToolInv'
<1>1. PICK c \in ToolServed : /\ toolCalls' = [toolCalls EXCEPT ![i] = c]
                              /\ c.at = "ended" /\ c.kind = toolCalls[i].kind
                              /\ c.turn = toolCalls[i].turn /\ c.refused = r
    BY ToolEnds
<1>2. i \in inFlight => toolCalls[i].kind = "fetch"
    BY DEF ToolInv, ToolPlaces
<1>3. c.at \notin {"served", "counting", "counted", "fetching"} /\ c.at # "writing"
    BY <1>1
<1>4. i \in inFlight => /\ c.at = "ended" /\ c.kind = "fetch" /\ ~c.refused
                        /\ c.turn = toolCalls[i].turn
    BY <1>1, <1>2
<1> QED BY <1>1, <1>3, <1>4, ToolSmall

\* A link that does not parse ends its call.
LEMMA ToolBadLink ==
    ASSUME ToolConstants, ToolInv, NEW i \in DOMAIN toolCalls, Tool!BadLink(i),
           UNCHANGED <<now, grants, writer, toolNotes, log, running, faults>>
    PROVE  ToolInv'
<1>1. /\ toolCalls[i].at = "served" /\ Tool!Ends(i, FALSE)
      /\ UNCHANGED <<counting, inFlight, fetched, unseen>>
    BY DEF Tool!BadLink, Tool!Is
<1>2. counting # i /\ i \notin inFlight /\ toolNotes' \in Seq(Nat)
    BY <1>1, ToolWho DEF ToolInv, ToolTypes
<1>3. \A j \in DOMAIN toolCalls : toolCalls[j].at = "writing" => writer' = j
    BY DEF ToolInv, ToolPlaces
<1> QED BY <1>1, <1>2, <1>3, ToolEndsKeeps

\* A fetch ends.
LEMMA ToolFetch ==
    ASSUME ToolConstants, ToolInv, NEW i \in DOMAIN toolCalls, Tool!Fetch(i),
           UNCHANGED <<now, grants, writer, toolNotes, log, running, faults>>
    PROVE  ToolInv'
<1>1. /\ toolCalls[i].at = "fetching" /\ Tool!Ends(i, FALSE)
      /\ UNCHANGED <<counting, inFlight, fetched, unseen>>
    BY DEF Tool!Fetch, Tool!Is
<1>2. counting # i /\ toolNotes' \in Seq(Nat)
    BY <1>1, ToolWho DEF ToolInv, ToolTypes
<1>3. \A j \in DOMAIN toolCalls : toolCalls[j].at = "writing" => writer' = j
    BY DEF ToolInv, ToolPlaces
<1> QED BY <1>1, <1>2, <1>3, ToolEndsKeeps

\* Neither of the counts could be read.
LEMMA ToolCountFails ==
    ASSUME ToolConstants, ToolInv, NEW i \in DOMAIN toolCalls, Tool!CountFails(i)
    PROVE  ToolInv'
<1>1. /\ toolCalls[i].at \in {"counting", "counted"} /\ Tool!Ends(i, TRUE) /\ counting' = 0
      /\ UNCHANGED <<now, grants, inFlight, writer, toolNotes, log, running, fetched, unseen>>
    BY DEF Tool!CountFails
<1>2. counting = i /\ i \notin inFlight /\ toolNotes' \in Seq(Nat)
    BY <1>1, ToolWho DEF ToolInv, ToolTypes
<1>3. \A j \in DOMAIN toolCalls : toolCalls[j].at = "writing" => writer' = j
    BY <1>1 DEF ToolInv, ToolPlaces
<1> QED BY <1>1, <1>2, <1>3, ToolEndsKeeps

\* The notes are replaced.
LEMMA ToolReplace ==
    ASSUME ToolConstants, ToolInv, NEW i \in DOMAIN toolCalls, Tool!Replace(i)
    PROVE  ToolInv'
<1>1. /\ toolCalls[i].at = "served" /\ writer = 0 /\ toolNotes' \in {toolNotes, <<i>>} /\ Tool!Ends(i, FALSE)
      /\ UNCHANGED <<now, grants, counting, inFlight, log, running, fetched, unseen, writer>>
    BY DEF Tool!Replace, Tool!Is, Tool!rest
<1>2. counting # i /\ i \notin inFlight /\ toolNotes \in Seq(Nat)
    <2>1. counting # i /\ i \notin inFlight
        BY <1>1, ToolWho
    <2> QED BY <2>1 DEF ToolInv, ToolTypes
<1>3. i \in Nat /\ i # 0
    BY DEF ToolInv, ToolTypes
<1>4. <<i>> \in Seq(Nat)
    BY <1>3
<1>5. \A j \in DOMAIN toolCalls : toolCalls[j].at # "writing"
    <2>1. 0 \notin DOMAIN toolCalls
        BY DEF ToolInv, ToolTypes
    <2> QED BY <1>1, <2>1 DEF ToolInv, ToolPlaces
<1>6. toolNotes' \in Seq(Nat)
    BY <1>1, <1>2, <1>4
<1> QED BY <1>1, <1>2, <1>5, <1>6, ToolEndsKeeps

\* An append opens its transaction.
LEMMA ToolBeginAppend ==
    ASSUME ToolConstants, ToolInv, NEW i \in DOMAIN toolCalls, Tool!BeginAppend(i)
    PROVE  ToolInv'
<1>1. /\ toolCalls[i].at = "served" /\ writer = 0 /\ writer' = i
      /\ toolCalls' = [toolCalls EXCEPT ![i].at = "writing", ![i].draft = toolNotes]
      /\ UNCHANGED <<now, grants, counting, inFlight, log, running, fetched, unseen, toolNotes>>
    BY DEF Tool!BeginAppend, Tool!Is, Tool!rest, Tool!MayAppend
<1>2. counting # i /\ i \notin inFlight /\ toolNotes \in Seq(Nat)
    <2>1. counting # i /\ i \notin inFlight
        BY <1>1, ToolWho
    <2> QED BY <2>1 DEF ToolInv, ToolTypes
<1>3. \A j \in DOMAIN toolCalls : toolCalls[j].at # "writing"
    <2>1. 0 \notin DOMAIN toolCalls
        BY DEF ToolInv, ToolTypes
    <2> QED BY <1>1, <2>1 DEF ToolInv, ToolPlaces
<1> DEFINE c == [toolCalls[i] EXCEPT !.at = "writing", !.draft = toolNotes]
<1>4. c \in ToolServed /\ c.at = "writing" /\ c.draft = toolNotes
    <2>1. toolCalls[i] \in ToolServed /\ "writing" \in ToolSteps
        BY ToolCall DEF ToolSteps
    <2> QED BY <1>2, <2>1 DEF ToolServed
<1>5. toolCalls' = [toolCalls EXCEPT ![i] = c]
    BY <1>1
<1> HIDE DEF c
<1>6. c.at \notin {"served", "counting", "counted", "fetching"}
    BY <1>4
<1> QED BY <1>1, <1>2, <1>3, <1>4, <1>5, <1>6, ToolSmall

\* And commits it, or gives it up.
LEMMA ToolEndAppend ==
    ASSUME ToolConstants, ToolInv, NEW i \in DOMAIN toolCalls, Tool!EndAppend(i)
    PROVE  ToolInv'
<1>1. /\ toolCalls[i].at = "writing" /\ Tool!Ends(i, FALSE)
      /\ toolNotes' = toolNotes \/ toolNotes' = Append(toolCalls[i].draft, i)
      /\ UNCHANGED <<now, grants, counting, inFlight, log, running, fetched, unseen>>
    BY DEF Tool!EndAppend, Tool!Is, Tool!rest
<1>2. counting # i /\ i \notin inFlight /\ writer = i /\ toolNotes \in Seq(Nat)
    BY <1>1, ToolWho DEF ToolInv, ToolTypes
<1>3. toolCalls[i].draft \in Seq(Nat) /\ i \in Nat
    BY ToolCall
<1>4. Append(toolCalls[i].draft, i) \in Seq(Nat)
    BY <1>3
<1>5. toolNotes' \in Seq(Nat)
    BY <1>1, <1>2, <1>4
<1>6. \A j \in DOMAIN toolCalls : j # i => toolCalls[j].at # "writing"
    BY <1>2 DEF ToolInv, ToolPlaces
<1> QED BY <1>1, <1>2, <1>5, <1>6, ToolEndsKeeps

\* A call is answered.
LEMMA ToolAnswer ==
    ASSUME ToolConstants, ToolInv, NEW i \in DOMAIN toolCalls, Tool!Answer(i)
    PROVE  ToolInv'
<1>1. /\ toolCalls[i].at = "recorded" /\ i \notin inFlight
      /\ toolCalls' = [toolCalls EXCEPT ![i] = Tool!Over(toolCalls[i].kind)]
      /\ UNCHANGED <<now, grants, counting, inFlight, log, running, fetched, unseen, writer, toolNotes>>
    BY DEF Tool!Answer, Tool!rest
<1>2. counting # i /\ toolNotes' \in Seq(Nat)
    BY <1>1, ToolWho DEF ToolInv, ToolTypes
<1> DEFINE c == Tool!Over(toolCalls[i].kind)
<1>3. c \in ToolServed /\ c.at = "over"
    <2>1. toolCalls[i].kind \in {"fetch", "append", "replace"}
        BY ToolCall
    <2>2. <<>> \in Seq(Nat) /\ 0 \in Nat /\ "over" \in ToolSteps
        BY DEF ToolSteps
    <2> QED BY <2>1, <2>2 DEF ToolServed, Tool!Over
<1>4. toolCalls' = [toolCalls EXCEPT ![i] = c]
    BY <1>1
<1> HIDE DEF c
<1>5. c.at \notin {"served", "counting", "counted", "fetching"} /\ c.at # "writing"
    BY <1>3
<1>6. \A j \in DOMAIN toolCalls : toolCalls[j].at = "writing" => writer' = j
    BY <1>1 DEF ToolInv, ToolPlaces
<1> QED BY <1>1, <1>2, <1>3, <1>4, <1>5, <1>6, ToolSmall

\* The fetches no longer under way that the counts may see are in the log.
LEMMA ToolLogged ==
    ASSUME ToolConstants, ToolInv
    PROVE  /\ Tool!Logged({row \in log : row.time > now - DayMs}) \in Nat
           /\ Cardinality(ToolOutDay) =< Tool!Logged({row \in log : row.time > now - DayMs})
           /\ \A t : /\ Tool!Logged({row \in log : row.turn = t}) \in Nat
                     /\ Cardinality(ToolOutTurn(t)) =< Tool!Logged({row \in log : row.turn = t})
<1>1. /\ IsFiniteSet(log) /\ now \in Nat /\ DayMs \in Nat
      /\ \A f \in fetched : f.time \in Nat
      /\ \A row \in log : row.time \in Nat
    BY DEF ToolInv, ToolTypes, ToolConstants, ToolLogs
<1>2. /\ \A f \in fetched :
            \/ f.call \in unseen
            \/ f.call \in inFlight
            \/ \E row \in log : /\ row.call = f.call /\ row.kind = "fetch" /\ ~row.refused
                                /\ row.turn = f.turn /\ row.time >= f.time
      /\ \A f, g \in fetched : f.call = g.call => f = g
    BY DEF ToolInv, ToolSeen
<1> DEFINE day == {row \in log : row.time > now - DayMs}
           rowsOf(S) == {row \in S : row.kind = "fetch" /\ ~row.refused}
<1>3. /\ IsFiniteSet(rowsOf(day)) /\ Cardinality(rowsOf(day)) \in Nat
      /\ Cardinality(ToolOutDay) =< Cardinality(rowsOf(day))
    <2>1. rowsOf(day) \in SUBSET log
        OBVIOUS
    <2>2. IsFiniteSet(rowsOf(day)) /\ Cardinality(rowsOf(day)) \in Nat
        BY <1>1, <2>1, FS_Subset, FS_CardinalityType
    <2>3. \A f \in ToolOutDay : \E row \in rowsOf(day) : row.call = f.call
        BY <1>1, <1>2 DEF ToolOutDay
    <2>4. \A f, g \in ToolOutDay : f.call = g.call => f = g
        BY <1>2 DEF ToolOutDay
    <2> HIDE DEF rowsOf, day
    <2> QED BY <2>2, <2>3, <2>4, ToolFits
<1>4. ASSUME NEW t
      PROVE  /\ Cardinality(rowsOf({row \in log : row.turn = t})) \in Nat
             /\ Cardinality(ToolOutTurn(t)) =< Cardinality(rowsOf({row \in log : row.turn = t}))
    <2> DEFINE its == rowsOf({row \in log : row.turn = t})
    <2>1. its \in SUBSET log
        OBVIOUS
    <2>2. IsFiniteSet(its) /\ Cardinality(its) \in Nat
        BY <1>1, <2>1, FS_Subset, FS_CardinalityType
    <2>3. \A f \in ToolOutTurn(t) : \E row \in its : row.call = f.call
        BY <1>2 DEF ToolOutTurn
    <2>4. \A f, g \in ToolOutTurn(t) : f.call = g.call => f = g
        BY <1>2 DEF ToolOutTurn
    <2>5. Cardinality(ToolOutTurn(t)) =< Cardinality(its)
        <3> HIDE DEF its
        <3> QED BY <2>2, <2>3, <2>4, ToolFits
    <2> QED BY <2>2, <2>5
<1> QED BY <1>3, <1>4, ToolLibrary DEF Tool!Logged

\* A call that counts keeps all but what the counts say.
LEMMA ToolCounting ==
    ASSUME ToolConstants, ToolInv, NEW i \in DOMAIN toolCalls, NEW c \in ToolServed,
           toolCalls' = [toolCalls EXCEPT ![i] = c],
           UNCHANGED <<now, grants, inFlight, writer, toolNotes, log, running, fetched, unseen>>,
           toolCalls[i].at \in {"served", "counting"}, counting \in {0, i}, counting' = i,
           c.at \in {"counting", "counted"}, i # 0, ~c.refused,
           Cardinality(ToolOutDay) =< c.today,
           c.at = "counted" => Cardinality(ToolOutTurn(c.turn)) =< c.inTurn
    PROVE  ToolInv'
<1>1. /\ toolCalls' \in Seq(ToolServed) /\ DOMAIN toolCalls' = DOMAIN toolCalls /\ toolCalls'[i] = c
      /\ \A j \in DOMAIN toolCalls : j # i => toolCalls'[j] = toolCalls[j]
    <2>1. toolCalls \in Seq(ToolServed)
        BY ToolCall
    <2> QED BY <2>1, ToolOne
<1>2. ToolTypes'
    BY <1>1 DEF ToolInv, ToolTypes
<1>3. i \notin inFlight /\ \A f \in fetched : f.call # i /\ f.call \in DOMAIN toolCalls
    BY DEF ToolInv, ToolTypes, ToolPlaces, ToolSeen
<1>4. ToolPlaces'
    <2>1. ToolPlaces /\ inFlight \subseteq DOMAIN toolCalls
        BY DEF ToolInv, ToolTypes
    <2>2. ASSUME NEW j \in DOMAIN toolCalls
          PROVE  /\ toolCalls'[j].at \in {"counting", "counted"} => j = counting'
                 /\ toolCalls'[j].at = "writing" => writer' = j /\ toolCalls'[j].draft = toolNotes'
                 /\ toolCalls'[j].at = "fetching" => j \in inFlight'
                 /\ ~toolCalls'[j].refused \/ toolCalls'[j].at \notin {"served", "counting", "counted"}
        <3>1. CASE j = i
            BY <1>1, <3>1
        <3>2. CASE j # i
            BY <1>1, <2>1, <3>2 DEF ToolPlaces
        <3> QED BY <3>1, <3>2
    <2>3. \A j \in inFlight : toolCalls'[j] = toolCalls[j]
        BY <1>1, <1>3, <2>1
    <2> QED BY <1>1, <2>1, <2>2, <2>3 DEF ToolPlaces
<1>5. ToolSeen'
    <2>1. ToolSeen
        BY DEF ToolInv
    <2>2. \A f \in fetched : toolCalls'[f.call] = toolCalls[f.call]
        BY <1>1, <1>3
    <2> QED BY <2>1, <2>2 DEF ToolSeen
<1>6. ToolLimits'
    <2>1. ToolInDay' = ToolInDay /\ \A t : ToolInTurn(t)' = ToolInTurn(t)
        BY DEF ToolInDay, ToolInTurn
    <2> QED BY <2>1 DEF ToolInv, ToolLimits
<1>7. ToolCounts'
    <2>1. ToolOutDay' = ToolOutDay /\ (ToolOutTurn(toolCalls[counting].turn))' = ToolOutTurn(c.turn)
        BY <1>1 DEF ToolOutDay, ToolOutTurn
    <2> QED BY <1>1, <2>1 DEF ToolCounts
<1>8. Tool!RunHasItsCalls'
    BY DEF ToolInv, Tool!RunHasItsCalls
<1> QED BY <1>2, <1>4, <1>5, <1>6, <1>7, <1>8 DEF ToolInv

\* A call reads the fetches of the day in the log.
LEMMA ToolCountDay ==
    ASSUME ToolConstants, ToolInv, NEW i \in DOMAIN toolCalls, Tool!CountDay(i),
           UNCHANGED <<now, grants, writer, toolNotes, log, running, faults>>
    PROVE  ToolInv'
<1> DEFINE n == Tool!Logged({row \in log : row.time > now - DayMs})
           c == [toolCalls[i] EXCEPT !.at = "counting", !.today = n]
<1>1. /\ toolCalls[i].at = "served" /\ counting = 0 /\ counting' = i
      /\ UNCHANGED <<inFlight, fetched, unseen>>
    BY DEF Tool!CountDay, Tool!Is
<1>6. toolCalls' = [toolCalls EXCEPT ![i] = c]
    <2>1. toolCalls' = [toolCalls EXCEPT ![i].at = "counting", ![i].today = n]
        BY DEF Tool!CountDay
    <2> HIDE DEF n
    <2> QED BY <2>1
<1>2. n \in Nat /\ Cardinality(ToolOutDay) =< n
    BY ToolLogged
<1>3. toolCalls[i] \in ToolServed /\ "counting" \in ToolSteps /\ i # 0
    <2>1. i # 0
        BY DEF ToolInv, ToolTypes
    <2> QED BY <2>1, ToolCall DEF ToolSteps
<1> HIDE DEF n
<1>4. c \in ToolServed /\ c.today = n /\ c.at = "counting"
    BY <1>2, <1>3 DEF ToolServed
<1>7. ~c.refused
    <2>1. ~toolCalls[i].refused
        BY <1>1 DEF ToolInv, ToolPlaces
    <2> QED BY <1>3, <2>1 DEF ToolServed
<1> HIDE DEF c
<1> QED BY <1>1, <1>2, <1>3, <1>4, <1>6, <1>7, ToolCounting

\* And those of its turn.
LEMMA ToolCountTurn ==
    ASSUME ToolConstants, ToolInv, NEW i \in DOMAIN toolCalls, Tool!CountTurn(i),
           UNCHANGED <<now, grants, writer, toolNotes, log, running, faults>>
    PROVE  ToolInv'
<1> DEFINE n == Tool!Logged({row \in log : row.turn = toolCalls[i].turn})
           c == [toolCalls[i] EXCEPT !.at = "counted", !.inTurn = n]
<1>1. /\ toolCalls[i].at = "counting"
      /\ UNCHANGED <<counting, inFlight, fetched, unseen>>
    BY DEF Tool!CountTurn, Tool!Is
<1>6. toolCalls' = [toolCalls EXCEPT ![i] = c]
    <2>1. toolCalls' = [toolCalls EXCEPT ![i].at = "counted", ![i].inTurn = n]
        BY DEF Tool!CountTurn
    <2> HIDE DEF n
    <2> QED BY <2>1
<1>2. n \in Nat /\ Cardinality(ToolOutTurn(toolCalls[i].turn)) =< n
    BY ToolLogged
<1>3. toolCalls[i] \in ToolServed /\ "counted" \in ToolSteps /\ i # 0
    <2>1. i # 0
        BY DEF ToolInv, ToolTypes
    <2> QED BY <2>1, ToolCall DEF ToolSteps
<1>4. counting = i /\ Cardinality(ToolOutDay) =< toolCalls[i].today
    <2>1. counting = i
        BY <1>1 DEF ToolInv, ToolPlaces
    <2> QED BY <1>3, <2>1 DEF ToolInv, ToolCounts
<1> HIDE DEF n
<1>5. /\ c \in ToolServed /\ c.inTurn = n /\ c.at = "counted" /\ c.turn = toolCalls[i].turn
      /\ c.today = toolCalls[i].today
    BY <1>2, <1>3 DEF ToolServed
<1>7. ~c.refused
    <2>1. ~toolCalls[i].refused
        BY <1>1 DEF ToolInv, ToolPlaces
    <2> QED BY <1>3, <2>1 DEF ToolServed
<1> HIDE DEF c
<1> QED BY <1>1, <1>2, <1>3, <1>4, <1>5, <1>6, <1>7, ToolCounting

\* How many fetches the counts may see, at most.
LEMMA ToolFetched ==
    ASSUME ToolConstants, ToolInv
    PROVE  /\ Cardinality(inFlight) \in Nat
           /\ Cardinality(ToolInDay) =< Cardinality(ToolOutDay) + Cardinality(inFlight)
           /\ \A t : /\ Cardinality({j \in inFlight : toolCalls[j].turn = t}) \in Nat
                     /\ Cardinality(ToolInTurn(t)) =<
                            Cardinality(ToolOutTurn(t))
                                + Cardinality({j \in inFlight : toolCalls[j].turn = t})
<1>1. /\ IsFiniteSet(inFlight) /\ IsFiniteSet(fetched)
      /\ \A f, g \in fetched : f.call = g.call => f = g
      /\ \A f \in fetched : f.call \in inFlight => toolCalls[f.call].turn = f.turn
    BY DEF ToolInv, ToolTypes, ToolSeen
<1>2. ASSUME NEW A, NEW B, IsFiniteSet(A), IsFiniteSet(B)
      PROVE  Cardinality(A \cup B) =< Cardinality(A) + Cardinality(B)
    <2>1. PICK a \in Nat : a = Cardinality(A)
        BY <1>2, FS_CardinalityType
    <2>2. PICK b \in Nat : b = Cardinality(B)
        BY <1>2, FS_CardinalityType
    <2>3. PICK d \in Nat : d = Cardinality(A \cap B)
        <3>1. A \cap B \in SUBSET A
            OBVIOUS
        <3> QED BY <1>2, <3>1, FS_Subset, FS_CardinalityType
    <2>4. Cardinality(A \cup B) = a + b - d
        BY <1>2, <2>1, <2>2, <2>3, FS_Union
    <2> QED BY <2>1, <2>2, <2>3, <2>4
<1>3. ASSUME NEW S \in SUBSET fetched, NEW B \in SUBSET inFlight,
             \A f \in S : f.call \in inFlight => f.call \in B
      PROVE  /\ Cardinality(B) \in Nat
             /\ Cardinality(S) =< Cardinality({f \in S : f.call \notin inFlight}) + Cardinality(B)
    <2> DEFINE out == {f \in S : f.call \notin inFlight}
               in == {f \in S : f.call \in inFlight}
    <2>1. out \in SUBSET fetched /\ in \in SUBSET fetched /\ S = out \cup in
        BY <1>3
    <2>2. IsFiniteSet(out) /\ IsFiniteSet(in) /\ IsFiniteSet(B)
        BY <1>1, <2>1, FS_Subset
    <2>3. \A f \in in : f.call \in B
        BY <1>3
    <2>4. \A f, g \in in : f.call = g.call => f = g
        BY <1>1
    <2> HIDE DEF out, in
    <2>5. Cardinality(in) =< Cardinality(B)
        BY <2>2, <2>3, <2>4, ToolFitsIn
    <2>6. Cardinality(S) =< Cardinality(out) + Cardinality(in)
        BY <1>2, <2>1, <2>2
    <2>7. PICK a \in Nat : a = Cardinality(out)
        BY <2>2, FS_CardinalityType
    <2>8. PICK b \in Nat : b = Cardinality(in)
        BY <2>2, FS_CardinalityType
    <2>9. PICK d \in Nat : d = Cardinality(B)
        BY <2>2, FS_CardinalityType
    <2>10. PICK s \in Nat : s = Cardinality(S)
        BY <1>1, <1>3, FS_Subset, FS_CardinalityType
    <2>11. s =< a + d
        BY <2>5, <2>6, <2>7, <2>8, <2>9, <2>10
    <2>12. Cardinality(S) =< Cardinality(out) + Cardinality(B)
        BY <2>7, <2>9, <2>10, <2>11
    <2> QED BY <2>9, <2>12 DEF out
<1>4. Cardinality(ToolInDay) =< Cardinality(ToolOutDay) + Cardinality(inFlight)
    <2>1. ToolInDay \in SUBSET fetched /\ {f \in ToolInDay : f.call \notin inFlight} = ToolOutDay
        BY DEF ToolInDay, ToolOutDay
    <2>2. inFlight \in SUBSET inFlight
        OBVIOUS
    <2> QED BY <1>3, <2>1, <2>2
<1>5. ASSUME NEW t
      PROVE  /\ Cardinality({j \in inFlight : toolCalls[j].turn = t}) \in Nat
             /\ Cardinality(ToolInTurn(t)) =<
                    Cardinality(ToolOutTurn(t)) + Cardinality({j \in inFlight : toolCalls[j].turn = t})
    <2> DEFINE B == {j \in inFlight : toolCalls[j].turn = t}
    <2>1. ToolInTurn(t) \in SUBSET fetched /\ {f \in ToolInTurn(t) : f.call \notin inFlight} = ToolOutTurn(t)
        BY DEF ToolInTurn, ToolOutTurn
    <2>2. B \in SUBSET inFlight /\ \A f \in ToolInTurn(t) : f.call \in inFlight => f.call \in B
        BY <1>1 DEF ToolInTurn
    <2> HIDE DEF B
    <2>3. /\ Cardinality(B) \in Nat
          /\ Cardinality(ToolInTurn(t)) =< Cardinality(ToolOutTurn(t)) + Cardinality(B)
        BY <1>3, <2>1, <2>2
    <2> QED BY <2>3 DEF B
<1>6. Cardinality(inFlight) \in Nat
    BY <1>1, FS_CardinalityType
<1> QED BY <1>4, <1>5, <1>6

\* A fetch that has its place.
LEMMA ToolPlaced ==
    ASSUME ToolConstants, ToolInv, NEW i \in DOMAIN toolCalls, toolCalls[i].kind = "fetch",
           toolCalls[i].at = "counted", Tool!HasPlace(i), counting' = 0,
           toolCalls' = [toolCalls EXCEPT ![i].at = "fetching", ![i].today = 0, ![i].inTurn = 0],
           inFlight' = inFlight \cup {i},
           fetched' = fetched \cup {[call |-> i, turn |-> toolCalls[i].turn, time |-> now]},
           UNCHANGED <<now, grants, writer, toolNotes, log, running, unseen>>
    PROVE  ToolInv'
<1> DEFINE c == [toolCalls[i] EXCEPT !.at = "fetching", !.today = 0, !.inTurn = 0]
           g == [call |-> i, turn |-> toolCalls[i].turn, time |-> now]
<1>1. /\ c \in ToolServed /\ c.at = "fetching" /\ c.turn = toolCalls[i].turn /\ c.kind = "fetch"
    <2>1. toolCalls[i] \in ToolServed /\ "fetching" \in ToolSteps
        BY ToolCall DEF ToolSteps
    <2> QED BY <2>1 DEF ToolServed
<1>2. ~c.refused
    <2>1. toolCalls[i] \in ToolServed /\ ~toolCalls[i].refused
        BY ToolCall DEF ToolInv, ToolPlaces
    <2> QED BY <2>1 DEF ToolServed
<1>3. /\ toolCalls' \in Seq(ToolServed) /\ DOMAIN toolCalls' = DOMAIN toolCalls /\ toolCalls'[i] = c
      /\ \A j \in DOMAIN toolCalls : j # i => toolCalls'[j] = toolCalls[j]
    <2>1. toolCalls \in Seq(ToolServed) /\ toolCalls' = [toolCalls EXCEPT ![i] = c]
        BY ToolCall
    <2> HIDE DEF c
    <2> QED BY <1>1, <2>1, ToolOne
<1>4. g.call = i /\ g.turn = toolCalls[i].turn /\ g.time = now /\ fetched' = fetched \cup {g}
    OBVIOUS
<1> HIDE DEF c, g
<1>5. /\ ToolTypes /\ ToolPlaces /\ ToolSeen /\ now \in Nat
      /\ inFlight \subseteq DOMAIN toolCalls /\ \A f \in fetched : f.call \in DOMAIN toolCalls
      /\ IsFiniteSet(inFlight) /\ IsFiniteSet(fetched)
    BY DEF ToolInv, ToolTypes
<1>6. counting = i /\ i # 0 /\ i \notin inFlight /\ \A f \in fetched : f.call # i
    <2>1. counting = i /\ i \notin inFlight
        BY <1>5 DEF ToolPlaces
    <2>2. i # 0
        BY <1>5 DEF ToolTypes
    <2>3. \A f \in fetched : f.call # i
        BY <1>5 DEF ToolSeen
    <2> QED BY <2>1, <2>2, <2>3
<1>7. ToolTypes'
    <2>1. inFlight' \subseteq DOMAIN toolCalls' /\ IsFiniteSet(inFlight')
        BY <1>3, <1>5, FS_AddElement
    <2>2. IsFiniteSet(fetched')
        BY <1>4, <1>5, FS_AddElement
    <2>3. \A f \in fetched' : f.call \in DOMAIN toolCalls' /\ f.time \in Nat /\ f.time =< now'
        BY <1>3, <1>4, <1>5 DEF ToolTypes
    <2> QED BY <1>3, <1>5, <2>1, <2>2, <2>3 DEF ToolTypes
<1>8. ToolPlaces'
    <2>1. ASSUME NEW j \in DOMAIN toolCalls
          PROVE  /\ toolCalls'[j].at \notin {"counting", "counted"}
                 /\ toolCalls'[j].at = "served" => ~toolCalls'[j].refused
                 /\ toolCalls'[j].at = "writing" => writer' = j /\ toolCalls'[j].draft = toolNotes'
                 /\ toolCalls'[j].at = "fetching" => j \in inFlight'
        <3>1. CASE j = i
            BY <1>1, <1>3, <3>1
        <3>2. CASE j # i
            BY <1>3, <1>5, <1>6, <3>2 DEF ToolPlaces
        <3> QED BY <3>1, <3>2
    <2>2. ASSUME NEW j \in inFlight'
          PROVE  /\ toolCalls'[j].at \in {"fetching", "ended", "recorded"}
                 /\ toolCalls'[j].kind = "fetch" /\ ~toolCalls'[j].refused
        <3>1. CASE j = i
            BY <1>1, <1>2, <1>3, <3>1
        <3>2. CASE j # i
            BY <1>3, <1>5, <3>2 DEF ToolPlaces
        <3> QED BY <3>1, <3>2
    <2>3. counting' = 0
        OBVIOUS
    <2>4. \A j \in DOMAIN toolCalls' :
              /\ toolCalls'[j].at \in {"counting", "counted"} => j = counting'
              /\ toolCalls'[j].at = "writing" => writer' = j /\ toolCalls'[j].draft = toolNotes'
              /\ toolCalls'[j].at = "fetching" => j \in inFlight'
              /\ toolCalls'[j].at \in {"served", "counting", "counted"} => ~toolCalls'[j].refused
        BY <1>3, <2>1
    <2> QED BY <2>2, <2>3, <2>4 DEF ToolPlaces
<1>9. ToolSeen'
    <2>1. ASSUME NEW f \in fetched
          PROVE  /\ toolCalls'[f.call].at \notin {"served", "counting", "counted"}
                 /\ f.call \in inFlight' => toolCalls'[f.call].turn = f.turn
                 /\ \/ f.call \in unseen'
                    \/ f.call \in inFlight' /\ toolCalls'[f.call].at \in {"fetching", "ended"}
                    \/ \E row \in log' : /\ row.call = f.call /\ row.kind = "fetch"
                                         /\ ~row.refused /\ row.turn = f.turn
                                         /\ row.time >= f.time
        <3>1. f.call # i /\ toolCalls'[f.call] = toolCalls[f.call]
            BY <1>3, <1>5, <1>6
        <3> QED BY <1>5, <3>1 DEF ToolSeen
    <2>2. /\ toolCalls'[g.call].at = "fetching" /\ toolCalls'[g.call].turn = g.turn
          /\ g.call \in inFlight'
        BY <1>1, <1>3, <1>4
    <2>3. \A f, h \in fetched' : f.call = h.call => f = h
        BY <1>4, <1>5, <1>6 DEF ToolSeen
    <2> QED BY <1>4, <2>1, <2>2, <2>3 DEF ToolSeen
<1>10. ToolCounts'
    BY DEF ToolCounts
<1>11. PICK s \in ToolServed : s = toolCalls[i]
    BY ToolCall
<1>12. /\ s.today \in Nat /\ s.inTurn \in Nat
       /\ Cardinality(ToolOutDay) =< s.today /\ Cardinality(ToolOutTurn(s.turn)) =< s.inTurn
       /\ s.today + Cardinality(inFlight) < PerDay
       /\ s.inTurn + Cardinality({j \in inFlight : toolCalls[j].turn = s.turn}) < PerTurn
    BY <1>6, <1>11, ToolLibrary DEF ToolServed, ToolInv, ToolCounts, Tool!HasPlace
<1>13. /\ IsFiniteSet(ToolInDay) /\ Cardinality(ToolInDay) \in Nat
       /\ IsFiniteSet(ToolOutDay) /\ Cardinality(ToolOutDay) \in Nat
       /\ \A t : /\ IsFiniteSet(ToolInTurn(t)) /\ Cardinality(ToolInTurn(t)) \in Nat
                 /\ IsFiniteSet(ToolOutTurn(t)) /\ Cardinality(ToolOutTurn(t)) \in Nat
    BY <1>5, ToolSets
<1>14. PerDay \in Nat /\ PerTurn \in Nat
    BY DEF ToolConstants
<1>15. ASSUME NEW S, NEW T, IsFiniteSet(S), T \in SUBSET (S \cup {g})
       PROVE  /\ Cardinality(T) \in Nat /\ Cardinality(T) =< Cardinality(S) + 1
    <2>1. /\ IsFiniteSet(S \cup {g})
          /\ Cardinality(S \cup {g}) \in {Cardinality(S), Cardinality(S) + 1}
        BY <1>15, FS_AddElement
    <2>2. /\ Cardinality(T) =< Cardinality(S \cup {g})
          /\ IsFiniteSet(T)
        BY <1>15, <2>1, FS_Subset
    <2>3. PICK a \in Nat : a = Cardinality(S)
        BY <1>15, FS_CardinalityType
    <2>4. PICK b \in Nat : b = Cardinality(T)
        BY <2>2, FS_CardinalityType
    <2>5. PICK d \in Nat : d = Cardinality(S \cup {g})
        BY <2>1, FS_CardinalityType
    <2> QED BY <2>1, <2>2, <2>3, <2>4, <2>5
<1>16. Cardinality(ToolInDay') =< PerDay
    <2>1. ToolInDay' \in SUBSET (ToolInDay \cup {g})
        BY <1>4 DEF ToolInDay
    <2>2. Cardinality(ToolInDay') \in Nat /\ Cardinality(ToolInDay') =< Cardinality(ToolInDay) + 1
        BY <1>13, <1>15, <2>1
    <2>3. PICK a \in Nat : a = Cardinality(ToolInDay)
        BY <1>13
    <2>4. PICK b \in Nat : b = Cardinality(ToolOutDay)
        BY <1>13
    <2>5. PICK d \in Nat : d = Cardinality(inFlight)
        BY ToolFetched
    <2>6. a =< b + d
        BY <2>3, <2>4, <2>5, ToolFetched
    <2>7. s.today + d < PerDay /\ b =< s.today
        BY <1>12, <2>4, <2>5
    <2> QED BY <1>12, <1>14, <2>2, <2>3, <2>6, <2>7
<1>17. ASSUME NEW t \in Turns PROVE Cardinality(ToolInTurn(t)') =< PerTurn
    <2>1. CASE t = s.turn
        <3>1. ToolInTurn(t)' \in SUBSET (ToolInTurn(t) \cup {g})
            BY <1>4 DEF ToolInTurn
        <3>2. Cardinality(ToolInTurn(t)') \in Nat /\ Cardinality(ToolInTurn(t)') =< Cardinality(ToolInTurn(t)) + 1
            BY <1>13, <1>15, <3>1
        <3>3. PICK a \in Nat : a = Cardinality(ToolInTurn(t))
            BY <1>13
        <3>4. PICK b \in Nat : b = Cardinality(ToolOutTurn(t))
            BY <1>13
        <3>5. PICK d \in Nat : d = Cardinality({j \in inFlight : toolCalls[j].turn = t})
            BY ToolFetched
        <3>6. a =< b + d
            BY <3>3, <3>4, <3>5, ToolFetched
        <3>7. s.inTurn + d < PerTurn /\ b =< s.inTurn
            BY <1>12, <2>1, <3>4, <3>5
        <3> QED BY <1>12, <1>14, <3>2, <3>3, <3>6, <3>7
    <2>2. CASE t # s.turn
        <3>1. g.turn # t
            BY <1>4, <1>11, <2>2
        <3>2. ToolInTurn(t)' = ToolInTurn(t)
            BY <1>4, <3>1 DEF ToolInTurn
        <3> QED BY <3>2 DEF ToolInv, ToolLimits
    <2> QED BY <2>1, <2>2
<1>18. Tool!RunHasItsCalls'
    BY DEF ToolInv, Tool!RunHasItsCalls
<1> QED BY <1>7, <1>8, <1>9, <1>10, <1>16, <1>17, <1>18 DEF ToolInv, ToolLimits

\* It takes its place, or is refused.
LEMMA ToolReserve ==
    ASSUME ToolConstants, ToolInv, NEW i \in DOMAIN toolCalls, Tool!Reserve(i),
           UNCHANGED <<now, grants, writer, toolNotes, log, running, faults>>
    PROVE  ToolInv'
<1>1. toolCalls[i].kind = "fetch" /\ toolCalls[i].at = "counted" /\ counting' = 0 /\ unseen' = unseen
    BY DEF Tool!Reserve, Tool!Is
<1>2. CASE Tool!HasPlace(i)
    <2>1. /\ toolCalls' = [toolCalls EXCEPT ![i].at = "fetching", ![i].today = 0, ![i].inTurn = 0]
          /\ inFlight' = inFlight \cup {i}
          /\ fetched' = fetched \cup {[call |-> i, turn |-> toolCalls[i].turn, time |-> now]}
        BY <1>2 DEF Tool!Reserve
    <2> QED BY <1>1, <1>2, <2>1, ToolPlaced
<1>3. CASE ~Tool!HasPlace(i)
    <2>1. Tool!Ends(i, TRUE) /\ UNCHANGED <<inFlight, fetched>>
        BY <1>3 DEF Tool!Reserve
    <2>2. counting = i /\ i \notin inFlight
        BY <1>1 DEF ToolInv, ToolPlaces
    <2>3. toolNotes' \in Seq(Nat)
        BY DEF ToolInv, ToolTypes
    <2>4. \A j \in DOMAIN toolCalls : toolCalls[j].at = "writing" => writer' = j
        BY DEF ToolInv, ToolPlaces
    <2> QED BY <1>1, <2>1, <2>2, <2>3, <2>4, ToolEndsKeeps
<1> QED BY <1>2, <1>3

\* A step that leaves the calls as they are, and makes no fetch.
LEMMA ToolIdle ==
    ASSUME ToolConstants, ToolInv,
           UNCHANGED <<grants, toolCalls, counting, inFlight, writer, fetched, unseen>>,
           now' \in Nat, now' >= now, toolNotes' \in Seq(Nat), IsFiniteSet(log'),
           toolNotes' = toolNotes \/ writer = 0,
           log' \subseteq ToolLogs,
           \A row \in log : \E new \in log' :
               /\ new.call = row.call /\ new.kind = row.kind /\ new.refused = row.refused
               /\ new.turn = row.turn /\ new.time = row.time,
           Tool!RunHasItsCalls'
    PROVE  ToolInv'
<1>1. ToolTypes /\ ToolPlaces /\ ToolSeen
    BY DEF ToolInv
<1>2. ToolTypes'
    <2>1. \A f \in fetched : f.time \in Nat /\ f.time =< now'
        BY <1>1 DEF ToolTypes
    <2> QED BY <1>1, <2>1 DEF ToolTypes
<1>3. ToolPlaces'
    <2>1. 0 \notin DOMAIN toolCalls
        BY <1>1 DEF ToolTypes
    <2>2. \A i \in DOMAIN toolCalls : toolCalls[i].at = "writing" => toolNotes' = toolNotes
        BY <1>1, <2>1 DEF ToolPlaces
    <2> QED BY <1>1, <2>2 DEF ToolPlaces
<1>4. ToolSeen'
    <2>1. ASSUME NEW f \in fetched
          PROVE  /\ toolCalls[f.call].at \notin {"served", "counting", "counted"}
                 /\ f.call \in inFlight => toolCalls[f.call].turn = f.turn
                 /\ \/ f.call \in unseen
                    \/ f.call \in inFlight /\ toolCalls[f.call].at \in {"fetching", "ended"}
                    \/ \E row \in log' : /\ row.call = f.call /\ row.kind = "fetch"
                                         /\ ~row.refused /\ row.turn = f.turn
                                         /\ row.time >= f.time
        <3>1. CASE \E row \in log : /\ row.call = f.call /\ row.kind = "fetch"
                                    /\ ~row.refused /\ row.turn = f.turn /\ row.time >= f.time
            <4>1. PICK row \in log : /\ row.call = f.call /\ row.kind = "fetch"
                                     /\ ~row.refused /\ row.turn = f.turn /\ row.time >= f.time
                BY <3>1
            <4>2. PICK new \in log' :
                      /\ new.call = row.call /\ new.kind = row.kind /\ new.refused = row.refused
                      /\ new.turn = row.turn /\ new.time = row.time
                OBVIOUS
            <4>3. /\ new.call = f.call /\ new.kind = "fetch" /\ ~new.refused
                  /\ new.turn = f.turn /\ new.time >= f.time
                BY <4>1, <4>2
            <4> QED BY <1>1, <4>3 DEF ToolSeen
        <3>2. CASE ~\E row \in log : /\ row.call = f.call /\ row.kind = "fetch"
                                     /\ ~row.refused /\ row.turn = f.turn /\ row.time >= f.time
            BY <1>1, <3>2 DEF ToolSeen
        <3> QED BY <3>1, <3>2
    <2>2. \A f, g \in fetched' : f.call = g.call => f = g
        BY <1>1 DEF ToolSeen
    <2> QED BY <2>1, <2>2 DEF ToolSeen
<1>5. ToolCounts' /\ ToolLimits'
    BY ToolCountsOn
<1> QED BY <1>2, <1>3, <1>4, <1>5 DEF ToolInv

\* The notes are cleared.
LEMMA ToolClearNotes ==
    ASSUME ToolConstants, ToolInv, Tool!ClearNotes
    PROVE  ToolInv'
<1>1. /\ writer = 0 /\ toolNotes' = <<>>
      /\ UNCHANGED <<now, grants, counting, inFlight, log, running, fetched, unseen, toolCalls, writer>>
    BY DEF Tool!ClearNotes, Tool!rest
<1>2. toolNotes' \in Seq(Nat)
    BY <1>1
<1>3. /\ now' \in Nat /\ now' >= now /\ IsFiniteSet(log')
      /\ log' \subseteq ToolLogs
    BY <1>1 DEF ToolInv, ToolTypes
<1>4. Tool!RunHasItsCalls'
    BY <1>1 DEF ToolInv, Tool!RunHasItsCalls
<1> QED BY <1>1, <1>2, <1>3, <1>4, ToolIdle

\* Time passes.
LEMMA ToolClock ==
    ASSUME ToolConstants, ToolInv, Tool!Clock
    PROVE  ToolInv'
<1>1. /\ now' = now + 1
      /\ UNCHANGED <<grants, toolCalls, counting, inFlight, writer, toolNotes, log, running, fetched, unseen>>
    BY DEF Tool!Clock
<1>2. /\ now \in Nat /\ toolNotes' \in Seq(Nat) /\ IsFiniteSet(log')
      /\ log' \subseteq ToolLogs
    BY <1>1 DEF ToolInv, ToolTypes
<1>3. Tool!RunHasItsCalls'
    BY <1>1 DEF ToolInv, Tool!RunHasItsCalls
<1>4. now' \in Nat /\ now' >= now
    BY <1>1, <1>2
<1> QED BY <1>1, <1>2, <1>3, <1>4, ToolIdle

\* A run is recorded running in its turn, and gets the calls made.
LEMMA ToolSetRunning ==
    ASSUME ToolConstants, ToolInv, NEW t \in Turns, Tool!SetRunning(t)
    PROVE  ToolInv'
<1>1. /\ running' = running \cup {t} /\ log' = Tool!Attributed(t)
      /\ UNCHANGED <<now, grants, toolCalls, counting, inFlight, writer, toolNotes, fetched, unseen>>
    BY DEF Tool!SetRunning
<1>2. /\ now' \in Nat /\ now' >= now /\ toolNotes' \in Seq(Nat) /\ IsFiniteSet(log)
      /\ log \subseteq ToolLogs
    BY <1>1 DEF ToolInv, ToolTypes
<1> DEFINE at(row) == [row EXCEPT !.run = row.run \/ row.turn = t]
<1>3. log' = {at(row) : row \in log}
    BY <1>1 DEF Tool!Attributed
<1>4. IsFiniteSet(log')
    <2> DEFINE f == [row \in log |-> at(row)]
    <2>1. f \in Surjection(log, log')
        BY <1>3 DEF Surjection
    <2> HIDE DEF f
    <2> QED BY <1>2, <2>1, FS_Surjection
<1>5. ASSUME NEW row \in log
      PROVE  /\ at(row) \in ToolLogs
             /\ at(row).call = row.call /\ at(row).kind = row.kind
             /\ at(row).turn = row.turn /\ at(row).time = row.time
             /\ at(row).refused = row.refused
             /\ row.turn \in running' => at(row).run
    <2>1. row \in ToolLogs
        BY <1>2
    <2>2. PICK b \in BOOLEAN : b = (row.run \/ row.turn = t)
        BY <2>1 DEF ToolLogs
    <2>3. at(row) = [row EXCEPT !.run = b]
        BY <2>2
    <2> HIDE DEF at
    <2>4. at(row) \in ToolLogs
        BY <2>1, <2>3 DEF ToolLogs
    <2>5. /\ at(row).call = row.call /\ at(row).kind = row.kind
          /\ at(row).turn = row.turn /\ at(row).time = row.time
        BY <2>1, <2>3 DEF ToolLogs
    <2>6. at(row).refused = row.refused
        BY <2>1, <2>3 DEF ToolLogs
    <2>7. at(row).run = b
        BY <2>1, <2>3 DEF ToolLogs
    <2>8. row.turn \in running' => b
        BY <1>1, <2>2 DEF ToolInv, Tool!RunHasItsCalls
    <2> QED BY <2>4, <2>5, <2>6, <2>7, <2>8
<1> HIDE DEF at
<1>6. log' \subseteq ToolLogs
    BY <1>3, <1>5
<1>7. \A row \in log : \E new \in log' :
          /\ new.call = row.call /\ new.kind = row.kind /\ new.refused = row.refused
          /\ new.turn = row.turn /\ new.time = row.time
    BY <1>3, <1>5
<1>8. Tool!RunHasItsCalls'
    BY <1>3, <1>5 DEF Tool!RunHasItsCalls
<1> QED BY <1>1, <1>2, <1>4, <1>6, <1>7, <1>8, ToolIdle

\* One call more.
LEMMA ToolCalled ==
    ASSUME ToolConstants, ToolInv, NEW c \in ToolServed, toolCalls' = Append(toolCalls, c),
           c.at \in {"served", "ended", "over"}, c.at = "served" => ~c.refused,
           UNCHANGED <<now, grants, counting, inFlight, writer, toolNotes, log, running, fetched, unseen>>
    PROVE  ToolInv'
<1>1. /\ ToolTypes /\ ToolPlaces /\ ToolSeen /\ toolCalls \in Seq(ToolServed)
      /\ inFlight \subseteq DOMAIN toolCalls /\ \A f \in fetched : f.call \in DOMAIN toolCalls
    BY DEF ToolInv, ToolTypes
<1>2. PICK n \in Nat : n = Len(toolCalls)
    BY <1>1
<1>3. /\ toolCalls' \in Seq(ToolServed) /\ DOMAIN toolCalls = 1..n /\ DOMAIN toolCalls' = 1..(n + 1)
      /\ toolCalls'[n + 1] = c /\ \A j \in 1..n : toolCalls'[j] = toolCalls[j]
    BY <1>1, <1>2
<1>4. ToolTypes'
    BY <1>1, <1>3 DEF ToolTypes
<1>5. ToolPlaces'
    <2>1. counting' # 0 => /\ counting' \in DOMAIN toolCalls'
                           /\ toolCalls'[counting'].at \in {"counting", "counted"}
        BY <1>1, <1>3 DEF ToolPlaces
    <2>2. ASSUME NEW j \in DOMAIN toolCalls'
          PROVE  /\ toolCalls'[j].at \in {"counting", "counted"} => j = counting'
                 /\ toolCalls'[j].at = "writing" => writer' = j /\ toolCalls'[j].draft = toolNotes'
                 /\ toolCalls'[j].at = "fetching" => j \in inFlight'
                 /\ toolCalls'[j].at \in {"served", "counting", "counted"} => ~toolCalls'[j].refused
        <3>1. CASE j = n + 1
            BY <1>3, <3>1
        <3>2. CASE j \in 1..n
            BY <1>1, <1>3, <3>2 DEF ToolPlaces
        <3> QED BY <1>3, <3>1, <3>2
    <2>3. \A j \in inFlight : toolCalls'[j] = toolCalls[j]
        BY <1>1, <1>3
    <2> QED BY <1>1, <2>1, <2>2, <2>3 DEF ToolPlaces
<1>6. ToolSeen'
    <2>1. \A f \in fetched : toolCalls'[f.call] = toolCalls[f.call]
        BY <1>1, <1>3
    <2> QED BY <1>1, <2>1 DEF ToolSeen
<1>7. ToolCounts' /\ ToolLimits'
    <2>1. now' \in Nat /\ now' >= now
        BY <1>1 DEF ToolTypes
    <2>2. counting # 0 => toolCalls'[counting] = toolCalls[counting]
        BY <1>1, <1>3 DEF ToolPlaces
    <2> QED BY <2>1, <2>2, ToolCountsOn
<1>8. Tool!RunHasItsCalls'
    BY DEF ToolInv, Tool!RunHasItsCalls
<1> QED BY <1>4, <1>5, <1>6, <1>7, <1>8 DEF ToolInv

\* A call of a turn.
LEMMA ToolCallStep ==
    ASSUME ToolConstants, ToolInv, NEW t \in Turns, Tool!Call(t)
    PROVE  ToolInv'
<1>1. UNCHANGED <<now, grants, counting, inFlight, writer, toolNotes, log, running, fetched, unseen>>
    BY SMTT(30) DEF Tool!Call
<1>2. PICK kind \in grants :
          LET call == [Tool!Over(kind) EXCEPT !.turn = t, !.at = "served"] IN
          \/ toolCalls' = Append(toolCalls, call)
          \/ toolCalls' = Append(toolCalls, [call EXCEPT !.at = "ended", !.refused = TRUE])
          \/ toolCalls' = Append(toolCalls, Tool!Over(kind))
    BY DEF Tool!Call
<1> DEFINE o == Tool!Over(kind)
           c == [o EXCEPT !.turn = t, !.at = "served"]
           d == [c EXCEPT !.at = "ended", !.refused = TRUE]
<1>3. o \in ToolServed /\ o.at = "over"
    <2>1. kind \in {"fetch", "append", "replace"}
        BY <1>2 DEF ToolInv, ToolTypes
    <2>2. <<>> \in Seq(Nat) /\ 0 \in Nat /\ "over" \in ToolSteps
        BY DEF ToolSteps
    <2> QED BY <2>1, <2>2 DEF ToolServed, Tool!Over
<1>4. ~o.refused
    BY DEF Tool!Over
<1>5. "served" \in ToolSteps /\ "ended" \in ToolSteps
    BY DEF ToolSteps
<1>6. toolCalls' = Append(toolCalls, c) \/ toolCalls' = Append(toolCalls, d) \/ toolCalls' = Append(toolCalls, o)
    BY <1>2
<1> HIDE DEF o
<1>7. c \in ToolServed /\ c.at = "served"
    BY <1>3, <1>5 DEF ToolServed
<1>8. ~c.refused
    BY <1>3, <1>4 DEF ToolServed
<1> HIDE DEF c
<1>9. d \in ToolServed /\ d.at = "ended"
    BY <1>5, <1>7 DEF ToolServed
<1> HIDE DEF d
<1>10. CASE toolCalls' = Append(toolCalls, c)
    BY <1>1, <1>7, <1>8, <1>10, ToolCalled
<1>11. CASE toolCalls' = Append(toolCalls, d)
    BY <1>1, <1>9, <1>11, ToolCalled
<1>12. CASE toolCalls' = Append(toolCalls, o)
    BY <1>1, <1>3, <1>12, ToolCalled
<1> QED BY <1>6, <1>10, <1>11, <1>12

\* A call is recorded, or is not.
LEMMA ToolRecord ==
    ASSUME ToolConstants, ToolInv, NEW i \in DOMAIN toolCalls, Tool!Record(i)
    PROVE  ToolInv'
<1> DEFINE c == [toolCalls[i] EXCEPT !.at = "recorded"]
<1>1. /\ toolCalls[i].at = "ended" /\ toolCalls' = [toolCalls EXCEPT ![i] = c]
      /\ UNCHANGED <<now, grants, counting, inFlight, writer, toolNotes, running, fetched>>
    BY DEF Tool!Record, Tool!Goes
<1>2. \/ log' = log \cup {Tool!Row(i)} /\ unseen' = unseen
      \/ log' = log /\ unseen' = unseen \cup ({i} \cap inFlight)
    BY DEF Tool!Record
<1>3. /\ ToolTypes /\ ToolPlaces /\ ToolSeen /\ toolCalls \in Seq(ToolServed) /\ now \in Nat
      /\ inFlight \subseteq DOMAIN toolCalls /\ i \in Nat
      /\ \A f \in fetched : f.call \in DOMAIN toolCalls /\ f.time \in Nat /\ f.time =< now
      /\ log \subseteq ToolLogs /\ IsFiniteSet(log)
    BY DEF ToolInv, ToolTypes
<1>4. c \in ToolServed /\ c.at = "recorded" /\ c.kind = toolCalls[i].kind /\ c.turn = toolCalls[i].turn
    <2>1. toolCalls[i] \in ToolServed /\ "recorded" \in ToolSteps
        BY ToolCall DEF ToolSteps
    <2> QED BY <2>1 DEF ToolServed
<1>5. c.refused = toolCalls[i].refused
    <2>1. toolCalls[i] \in ToolServed
        BY ToolCall
    <2> QED BY <2>1 DEF ToolServed
<1> HIDE DEF c
<1>6. /\ toolCalls' \in Seq(ToolServed) /\ DOMAIN toolCalls' = DOMAIN toolCalls /\ toolCalls'[i] = c
      /\ \A j \in DOMAIN toolCalls : j # i => toolCalls'[j] = toolCalls[j]
    BY <1>1, <1>3, <1>4, ToolOne
<1>7. /\ Tool!Row(i).call = i /\ Tool!Row(i).turn = toolCalls[i].turn /\ Tool!Row(i).kind = toolCalls[i].kind
      /\ Tool!Row(i).time = now
    BY DEF Tool!Row
<1>8. Tool!Row(i).refused = toolCalls[i].refused
    BY DEF Tool!Row
<1>9. Tool!Row(i).run = (toolCalls[i].turn \in running)
    BY DEF Tool!Row
<1>10. Tool!Row(i) \in ToolLogs
    <2>1. /\ toolCalls[i].turn \in Turns \cup {"none"} /\ toolCalls[i].kind \in {"fetch", "append", "replace"}
        BY ToolCall
    <2>2. toolCalls[i].refused \in BOOLEAN
        BY ToolCall
    <2>3. PICK b \in BOOLEAN : b = (toolCalls[i].turn \in running)
        <3> DEFINE b == toolCalls[i].turn \in running
        <3>1. b \in BOOLEAN
            OBVIOUS
        <3> HIDE DEF b
        <3>2. \E d \in BOOLEAN : d = b
            BY <3>1
        <3> QED BY <3>2 DEF b
    <2>4. Tool!Row(i) = [call |-> i, turn |-> toolCalls[i].turn, kind |-> toolCalls[i].kind,
                         refused |-> toolCalls[i].refused, time |-> now, run |-> b]
        BY <2>3 DEF Tool!Row
    <2> QED BY <1>3, <2>1, <2>2, <2>4 DEF ToolLogs
<1>11. ToolTypes'
    <2>1. log' \subseteq ToolLogs
        BY <1>2, <1>3, <1>10
    <2>2. IsFiniteSet(log')
        BY <1>2, <1>3, FS_AddElement
    <2> QED BY <1>1, <1>3, <1>6, <2>1, <2>2 DEF ToolTypes
<1>12. counting # i /\ i # 0
    BY <1>1, ToolWho
<1>13. ToolPlaces'
    <2>1. counting' # 0 => /\ counting' \in DOMAIN toolCalls'
                           /\ toolCalls'[counting'].at \in {"counting", "counted"}
        BY <1>1, <1>3, <1>6, <1>12 DEF ToolPlaces
    <2>2. ASSUME NEW j \in DOMAIN toolCalls
          PROVE  /\ toolCalls'[j].at \in {"counting", "counted"} => j = counting'
                 /\ toolCalls'[j].at = "writing" => writer' = j /\ toolCalls'[j].draft = toolNotes'
                 /\ toolCalls'[j].at = "fetching" => j \in inFlight'
                 /\ toolCalls'[j].at \in {"served", "counting", "counted"} => ~toolCalls'[j].refused
        <3>1. CASE j = i
            BY <1>4, <1>6, <3>1
        <3>2. CASE j # i
            BY <1>1, <1>3, <1>6, <3>2 DEF ToolPlaces
        <3> QED BY <3>1, <3>2
    <2>3. ASSUME NEW j \in inFlight
          PROVE  /\ toolCalls'[j].at \in {"fetching", "ended", "recorded"}
                 /\ toolCalls'[j].kind = "fetch" /\ ~toolCalls'[j].refused
        <3>1. CASE j = i
            BY <1>3, <1>4, <1>5, <1>6, <3>1 DEF ToolPlaces
        <3>2. CASE j # i
            BY <1>3, <1>6, <3>2 DEF ToolPlaces
        <3> QED BY <3>1, <3>2
    <2> QED BY <1>1, <1>6, <2>1, <2>2, <2>3 DEF ToolPlaces
<1>14. ToolSeen'
    <2>1. ASSUME NEW f \in fetched
          PROVE  /\ toolCalls'[f.call].at \notin {"served", "counting", "counted"}
                 /\ f.call \in inFlight => toolCalls'[f.call].turn = f.turn
                 /\ \/ f.call \in unseen'
                    \/ f.call \in inFlight /\ toolCalls'[f.call].at \in {"fetching", "ended"}
                    \/ \E row \in log' : /\ row.call = f.call /\ row.kind = "fetch"
                                         /\ ~row.refused /\ row.turn = f.turn
                                         /\ row.time >= f.time
        <3>1. CASE f.call # i
            <4>1. toolCalls'[f.call] = toolCalls[f.call] /\ log \subseteq log' /\ unseen \subseteq unseen'
                BY <1>2, <1>3, <1>6, <3>1
            <4> QED BY <1>3, <4>1 DEF ToolSeen
        <3>2. CASE f.call = i /\ i \notin inFlight
            <4>1. log \subseteq log' /\ unseen \subseteq unseen'
                BY <1>2
            <4> QED BY <1>3, <1>4, <1>6, <3>2, <4>1 DEF ToolSeen
        <3>3. CASE f.call = i /\ i \in inFlight
            <4>1. toolCalls[i].kind = "fetch" /\ ~toolCalls[i].refused /\ toolCalls[i].turn = f.turn
                BY <1>3, <3>3 DEF ToolPlaces, ToolSeen
            <4>2. CASE log' = log \cup {Tool!Row(i)}
                <5>1. /\ Tool!Row(i).call = f.call /\ Tool!Row(i).kind = "fetch" /\ ~Tool!Row(i).refused
                      /\ Tool!Row(i).turn = f.turn /\ Tool!Row(i).time >= f.time
                    BY <1>3, <1>7, <1>8, <3>3, <4>1
                <5> QED BY <1>4, <1>6, <3>3, <4>1, <4>2, <5>1
            <4>3. CASE unseen' = unseen \cup ({i} \cap inFlight)
                BY <1>4, <1>6, <3>3, <4>1, <4>3
            <4> QED BY <1>2, <4>2, <4>3
        <3> QED BY <3>1, <3>2, <3>3
    <2>2. \A f, g \in fetched' : f.call = g.call => f = g
        BY <1>1, <1>3 DEF ToolSeen
    <2> QED BY <1>1, <2>1, <2>2 DEF ToolSeen
<1>15. ToolCounts' /\ ToolLimits'
    <2>1. now' \in Nat /\ now' >= now /\ fetched' = fetched /\ unseen \subseteq unseen'
        BY <1>1, <1>2, <1>3
    <2>2. counting # 0 => toolCalls'[counting] = toolCalls[counting]
        BY <1>3, <1>6, <1>12 DEF ToolPlaces
    <2> QED BY <1>1, <2>1, <2>2, ToolCountsOn
<1>16. Tool!RunHasItsCalls'
    <2>1. \A row \in log : row.turn \in running => row.run
        BY DEF ToolInv, Tool!RunHasItsCalls
    <2>2. Tool!Row(i).turn \in running => Tool!Row(i).run
        BY <1>7, <1>9
    <2> QED BY <1>1, <1>2, <2>1, <2>2 DEF Tool!RunHasItsCalls
<1> QED BY <1>11, <1>13, <1>14, <1>15, <1>16 DEF ToolInv

\* A fetch that was recorded leaves those under way.
LEMMA ToolRelease ==
    ASSUME ToolConstants, ToolInv, NEW i \in DOMAIN toolCalls, Tool!Release(i)
    PROVE  ToolInv'
<1>1. /\ toolCalls[i].at = "recorded" /\ i \in inFlight /\ inFlight' = inFlight \ {i}
      /\ unseen' = (IF counting = 0 THEN unseen ELSE unseen \cup {i})
      /\ UNCHANGED <<now, grants, toolCalls, counting, writer, toolNotes, log, running, fetched>>
    BY DEF Tool!Release, Tool!LetsGo
<1>2. ToolTypes /\ ToolPlaces /\ ToolSeen /\ unseen \subseteq unseen'
    BY <1>1 DEF ToolInv
<1>3. ToolTypes'
    <2>1. inFlight' \in SUBSET inFlight
        BY <1>1
    <2>2. IsFiniteSet(inFlight')
        BY <1>2, <2>1, FS_Subset DEF ToolTypes
    <2> QED BY <1>1, <1>2, <2>1, <2>2 DEF ToolTypes
<1>4. ToolPlaces'
    <2>1. \A j \in DOMAIN toolCalls : toolCalls[j].at = "fetching" => j # i
        BY <1>1
    <2> QED BY <1>1, <1>2, <2>1 DEF ToolPlaces
<1>5. ToolSeen'
    <2>1. ASSUME NEW f \in fetched
          PROVE  /\ toolCalls[f.call].at \notin {"served", "counting", "counted"}
                 /\ f.call \in inFlight' => toolCalls[f.call].turn = f.turn
                 /\ \/ f.call \in unseen'
                    \/ f.call \in inFlight' /\ toolCalls[f.call].at \in {"fetching", "ended"}
                    \/ \E row \in log : /\ row.call = f.call /\ row.kind = "fetch"
                                        /\ ~row.refused /\ row.turn = f.turn
                                        /\ row.time >= f.time
        <3>1. CASE f.call = i
            BY <1>1, <1>2, <3>1 DEF ToolSeen
        <3>2. CASE f.call # i
            BY <1>1, <1>2, <3>2 DEF ToolSeen
        <3> QED BY <3>1, <3>2
    <2>2. \A f, g \in fetched' : f.call = g.call => f = g
        BY <1>1, <1>2 DEF ToolSeen
    <2> QED BY <1>1, <2>1, <2>2 DEF ToolSeen
<1>6. ToolCounts' /\ ToolLimits'
    <2>1. now' \in Nat /\ now' >= now
        BY <1>1, <1>2 DEF ToolTypes
    <2>2. counting # 0 => \A f \in fetched :
              f.call \in inFlight => f.call \in inFlight' \/ f.call \in unseen'
        BY <1>1
    <2> QED BY <1>1, <1>2, <2>1, <2>2, ToolCountsOn
<1>7. Tool!RunHasItsCalls'
    BY <1>1 DEF ToolInv, Tool!RunHasItsCalls
<1> QED BY <1>3, <1>4, <1>5, <1>6, <1>7 DEF ToolInv

\* A restart loses the calls in hand.
LEMMA ToolRestart ==
    ASSUME ToolConstants, ToolInv, Tool!Restart
    PROVE  ToolInv'
<1>1. /\ toolCalls' = [i \in DOMAIN toolCalls |-> Tool!Over(toolCalls[i].kind)]
      /\ counting' = 0 /\ inFlight' = {} /\ writer' = 0 /\ unseen' = unseen \cup inFlight
      /\ UNCHANGED <<now, grants, toolNotes, log, running, fetched>>
    BY DEF Tool!Restart
<1>2. /\ ToolTypes /\ ToolPlaces /\ ToolSeen /\ toolCalls \in Seq(ToolServed)
      /\ \A f \in fetched : f.call \in DOMAIN toolCalls
    BY DEF ToolInv, ToolTypes
<1>3. ASSUME NEW i \in DOMAIN toolCalls
      PROVE  Tool!Over(toolCalls[i].kind) \in ToolServed /\ Tool!Over(toolCalls[i].kind).at = "over"
    <2>1. toolCalls[i].kind \in {"fetch", "append", "replace"}
        BY ToolCall
    <2>2. <<>> \in Seq(Nat) /\ 0 \in Nat /\ "over" \in ToolSteps
        BY DEF ToolSteps
    <2> QED BY <2>1, <2>2 DEF ToolServed, Tool!Over
<1>4. /\ toolCalls' \in Seq(ToolServed) /\ DOMAIN toolCalls' = DOMAIN toolCalls
      /\ \A i \in DOMAIN toolCalls : toolCalls'[i].at = "over"
    <2>1. PICK n \in Nat : DOMAIN toolCalls = 1..n
        BY <1>2
    <2>2. \A i \in 1..n : toolCalls'[i] \in ToolServed /\ toolCalls'[i].at = "over"
        BY <1>1, <1>3, <2>1
    <2>3. toolCalls' \in [1..n -> ToolServed]
        BY <1>1, <2>1, <2>2
    <2> QED BY <2>1, <2>2, <2>3
<1>5. ToolTypes'
    BY <1>1, <1>2, <1>4, FS_EmptySet DEF ToolTypes
<1>6. ToolPlaces'
    BY <1>1, <1>4 DEF ToolPlaces
<1>7. ToolSeen'
    <2>1. ASSUME NEW f \in fetched
          PROVE  \/ f.call \in unseen'
                 \/ \E row \in log : /\ row.call = f.call /\ row.kind = "fetch"
                                     /\ ~row.refused /\ row.turn = f.turn
                                     /\ row.time >= f.time
        BY <1>1, <1>2 DEF ToolSeen
    <2>2. \A f, g \in fetched' : f.call = g.call => f = g
        BY <1>1, <1>2 DEF ToolSeen
    <2> QED BY <1>1, <1>2, <1>4, <2>1, <2>2 DEF ToolSeen
<1>8. ToolCounts' /\ ToolLimits'
    <2>1. now' \in Nat /\ now' >= now /\ unseen \subseteq unseen'
        BY <1>1, <1>2 DEF ToolTypes
    <2> QED BY <1>1, <2>1, ToolCountsOn
<1>9. Tool!RunHasItsCalls'
    BY <1>1 DEF ToolInv, Tool!RunHasItsCalls
<1> QED BY <1>5, <1>6, <1>7, <1>8, <1>9 DEF ToolInv

\* Every step keeps the invariant.
LEMMA ToolNext ==
    ASSUME ToolConstants, ToolInv, [Tool!Next]_Tool!vars
    PROVE  ToolInv'
<1>1. CASE UNCHANGED Tool!vars
    <2>1. /\ UNCHANGED <<grants, toolCalls, counting, inFlight, writer, fetched, unseen>>
          /\ UNCHANGED <<now, toolNotes, log, running>>
        BY <1>1 DEF Tool!vars
    <2>2. /\ now' \in Nat /\ now' >= now /\ toolNotes' \in Seq(Nat) /\ IsFiniteSet(log')
          /\ log' \subseteq ToolLogs
        BY <2>1 DEF ToolInv, ToolTypes
    <2>3. Tool!RunHasItsCalls'
        BY <2>1 DEF ToolInv, Tool!RunHasItsCalls
    <2> QED BY <2>1, <2>2, <2>3, ToolIdle
<1>2. CASE Tool!Next
    <2>1. CASE \E t \in Turns : Tool!Call(t)
        BY <2>1, ToolCallStep
    <2>2. ASSUME NEW i \in DOMAIN toolCalls, Tool!CallStep(i)
          PROVE  ToolInv'
        <3>1. CASE Tool!FetchStep(i)
            <4>1. CASE Tool!CountFails(i)
                BY <4>1, ToolCountFails
            <4>2. CASE ~Tool!CountFails(i)
                <5>1. /\ Tool!BadLink(i) \/ Tool!CountDay(i) \/ Tool!CountTurn(i) \/ Tool!Reserve(i) \/ Tool!Fetch(i)
                      /\ UNCHANGED <<now, grants, writer, toolNotes, log, running, faults>>
                    BY <3>1, <4>2 DEF Tool!FetchStep
                <5> QED
                    BY <5>1, ToolBadLink, ToolCountDay, ToolCountTurn, ToolReserve, ToolFetch
            <4> QED BY <4>1, <4>2
        <3>2. CASE Tool!Replace(i) \/ Tool!BeginAppend(i) \/ Tool!EndAppend(i)
            BY <3>2, ToolReplace, ToolBeginAppend, ToolEndAppend
        <3>3. CASE Tool!Record(i) \/ Tool!Release(i) \/ Tool!Answer(i)
            BY <3>3, ToolRecord, ToolRelease, ToolAnswer
        <3> QED BY <2>2, <3>1, <3>2, <3>3 DEF Tool!CallStep
    <2>3. CASE \E t \in Turns : Tool!SetRunning(t)
        BY <2>3, ToolSetRunning
    <2>4. CASE Tool!ClearNotes \/ Tool!Clock \/ Tool!Restart
        BY <2>4, ToolClearNotes, ToolClock, ToolRestart
    <2> QED BY <1>2, <2>1, <2>2, <2>3, <2>4 DEF Tool!Next
<1> QED BY <1>1, <1>2

\* The inductive invariant holds of every reachable state of the broker.
THEOREM ToolInvariant ==
    ASSUME ToolConstants
    PROVE  Tool!Spec => []ToolInv
<1>1. Tool!Init => ToolInv
    BY ToolInit
<1>2. ToolInv /\ [Tool!Next]_Tool!vars => ToolInv'
    BY ToolNext
<1> QED BY <1>1, <1>2, PTL DEF Tool!Spec

\* A turn fetches no more than it may, nor its user in a day, but for the fetches no count
\* saw (`reserve`), and a run has every call of its turn (`record`, `attribute_to_run`).
THEOREM ToolLimitsKept ==
    ASSUME ToolConstants
    PROVE  Tool!Spec => [](Tool!FetchLimitKept /\ Tool!RunHasItsCalls)
<1>1. ToolInv => Tool!FetchLimitKept /\ Tool!RunHasItsCalls
    BY ToolSays DEF ToolInv
<1> QED BY <1>1, ToolInvariant, PTL

\* A step loses no note but to a replacement or to the owner.
LEMMA ToolKeeps ==
    ASSUME ToolInv, [Tool!Next]_Tool!vars
    PROVE  Tool!KeepsNotes \/ UNCHANGED Tool!vars
<1>1. toolNotes \in Seq(Nat)
    BY DEF ToolInv, ToolTypes
<1>2. ASSUME toolNotes' = toolNotes PROVE Tool!KeepsNotes
    <2>1. IsPrefix(toolNotes, toolNotes')
        BY <1>1, <1>2 DEF IsPrefix
    <2> QED BY <2>1, ToolLibrary DEF Tool!KeepsNotes
<1>3. ASSUME NEW i \in DOMAIN toolCalls, Tool!Replace(i) PROVE Tool!KeepsNotes
    <2>1. toolCalls[i].kind = "replace" /\ toolNotes' \in {toolNotes, <<i>>}
        BY <1>3 DEF Tool!Replace, Tool!Is
    <2> QED BY <1>2, <2>1 DEF Tool!KeepsNotes
<1>4. ASSUME NEW i \in DOMAIN toolCalls, Tool!EndAppend(i) PROVE Tool!KeepsNotes
    <2>1. toolCalls[i].at = "writing" /\ (toolNotes' = toolNotes \/ toolNotes' = Append(toolCalls[i].draft, i))
        BY <1>4 DEF Tool!EndAppend, Tool!Is
    <2>2. toolCalls[i].draft = toolNotes
        BY <2>1 DEF ToolInv, ToolPlaces
    <2>3. ASSUME toolNotes' = Append(toolNotes, i) PROVE IsPrefix(toolNotes, toolNotes')
        <3>1. PICK n \in Nat : n = Len(toolNotes)
            BY <1>1
        <3>2. i \in Nat
            BY ToolCall
        <3>3. Len(toolNotes') = n + 1
            BY <1>1, <2>3, <3>1, <3>2
        <3>4. SubSeq(toolNotes', 1, n) = SubSeq(toolNotes, 1, n)
            BY <1>1, <2>3, <3>1, <3>2
        <3> QED BY <3>1, <3>3, <3>4 DEF IsPrefix
    <2> QED BY <1>2, <2>1, <2>2, <2>3, ToolLibrary DEF Tool!KeepsNotes
<1>5. ASSUME Tool!ClearNotes PROVE Tool!KeepsNotes
    BY <1>5 DEF Tool!ClearNotes, Tool!KeepsNotes
<1>6. ASSUME NEW i \in DOMAIN toolCalls, Tool!CallStep(i) PROVE Tool!KeepsNotes
    <2>1. CASE Tool!FetchStep(i)
        <3>1. toolNotes' = toolNotes
            BY <2>1 DEF Tool!FetchStep, Tool!CountFails
        <3> QED BY <1>2, <3>1
    <2>2. CASE Tool!Replace(i) \/ Tool!EndAppend(i)
        BY <1>3, <1>4, <2>2
    <2>3. CASE Tool!BeginAppend(i) \/ Tool!Record(i) \/ Tool!Release(i) \/ Tool!Answer(i)
        <3>1. toolNotes' = toolNotes
            BY <2>3 DEF Tool!BeginAppend, Tool!Record, Tool!Release, Tool!Answer, Tool!rest
        <3> QED BY <1>2, <3>1
    <2> QED BY <1>6, <2>1, <2>2, <2>3 DEF Tool!CallStep
<1>7. CASE \E t \in Turns : Tool!Call(t) \/ Tool!SetRunning(t)
    <2>1. toolNotes' = toolNotes
        BY <1>7 DEF Tool!Call, Tool!SetRunning
    <2> QED BY <1>2, <2>1
<1>8. CASE Tool!Clock \/ Tool!Restart
    <2>1. toolNotes' = toolNotes
        BY <1>8 DEF Tool!Clock, Tool!Restart
    <2> QED BY <1>2, <2>1
<1> QED BY <1>5, <1>6, <1>7, <1>8 DEF Tool!Next

\* What a Bot noted is lost only to a replacement or to its owner, appends made at once
\* included (`append_tool`).
THEOREM ToolKeepsNotes ==
    ASSUME ToolConstants
    PROVE  Tool!Spec => Tool!NotesOnlyReplaced
<1>1. ToolInv /\ [Tool!Next]_Tool!vars => [Tool!KeepsNotes]_Tool!vars
    BY ToolKeeps
<1> QED BY <1>1, ToolInvariant, PTL DEF Tool!Spec, Tool!NotesOnlyReplaced

HIDE DEF now, grants, toolCalls, counting, inFlight, writer, toolNotes, log, running,
         fetched, unseen, faults

-----------------------------------------------------------------------------
(* What follows of MCSupervisor. *)

\* The client's table of pending requests, the answers to the app server's calls and the
\* checks before a turn (`PendingGuard`, `ToolReply`, `ensure_served`), for any threads,
\* requests, calls and restarts.
THEOREM ServersAreKept == CodexSpec => ServersKept
<1>1. CodexInit => (part = "app_server" => AppInv)
    BY AppInit DEF CodexInit
<1>2. [CodexNext]_all => (part' = part /\ (part = "app_server" => [App!Next]_App!vars))
    BY DEF CodexNext, all, App!vars
<1>3. (part = "app_server" => AppInv) /\ [CodexNext]_all => (part = "app_server" => AppInv)'
    BY <1>2, AppStep
<1>4. (part = "app_server" => AppInv) => (part = "app_server" => App!PendingIsWaiting /\ App!AnsweredOnce)
    BY AppSays
<1>5. (part = "app_server" => AppInv) /\ [CodexNext]_all => [part = "app_server" => App!AsksCheckedTurns]_all
    <2> SUFFICES ASSUME AppInv, part = "app_server", CodexNext, ~UNCHANGED all PROVE App!AsksCheckedTurns
        OBVIOUS
    <2>1. App!Next /\ UNCHANGED <<part>> /\ ~UNCHANGED App!vars
        BY DEF CodexNext, all, App!vars
    <2> QED BY <2>1, AppTurnsChecked
<1> QED BY <1>1, <1>3, <1>4, <1>5, PTL DEF CodexSpec, ServersKept

\* The limits on fetches, the calls of a run and the notes (`reserve`, `record`,
\* `append_tool`), for any turns, calls, limits and failures.
THEOREM CallsAreKept ==
    ASSUME ToolConstants
    PROVE  CodexSpec => CallsKept
<1>1. CodexInit => (part = "tools" => ToolInv)
    BY ToolInit DEF CodexInit
<1>2. [CodexNext]_all => (part' = part /\ (part = "tools" => [Tool!Next]_Tool!vars))
    BY DEF CodexNext, all, Tool!vars
<1>3. (part = "tools" => ToolInv) /\ [CodexNext]_all => (part = "tools" => ToolInv)'
    BY <1>2, ToolNext
<1>4. (part = "tools" => ToolInv) => (part = "tools" => Tool!FetchLimitKept /\ Tool!RunHasItsCalls)
    BY ToolSays DEF ToolInv
<1>5. (part = "tools" => ToolInv) /\ [CodexNext]_all => [part = "tools" => Tool!KeepsNotes]_all
    <2> SUFFICES ASSUME ToolInv, part = "tools", CodexNext, ~UNCHANGED all PROVE Tool!KeepsNotes
        OBVIOUS
    <2>1. Tool!Next /\ UNCHANGED <<part>> /\ ~UNCHANGED Tool!vars
        BY DEF CodexNext, all, Tool!vars
    <2> QED BY <2>1, ToolKeeps
<1> QED BY <1>1, <1>3, <1>4, <1>5, PTL DEF CodexSpec, CallsKept

=============================================================================
