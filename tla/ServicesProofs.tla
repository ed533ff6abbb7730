--------------------------- MODULE ServicesProofs ---------------------------
(*****************************************************************************)
(* What the small modules of the gateway guarantee, one part after the other, *)
(* for any values of their constants: accounts with their sessions and       *)
(* invitations, the counts of turns and tokens, and replies as they stream.  *)
(* Each part has an inductive invariant of its own; the last section says what *)
(* follows of MCServices.                                                    *)
(*****************************************************************************)
EXTENDS MCServices, FiniteSetTheorems, SequenceTheorems, SequencesExt, TLAPS

-----------------------------------------------------------------------------
(* Accounts, sessions and invitations *)

\* The variables of Accounts, by their names.
accUsers == x1
accSessions == x2
accInvitations == x3
accRequests == x4
changes == x5
USE DEF accUsers, accSessions, accInvitations, accRequests, changes

\* The operators of the library are the same in the instance.
LEMMA AccLibrary ==
    /\ \A S : Acc!Cardinality(S) = Cardinality(S)
    /\ \A s, t : Acc!RemoveAt(s, t) = RemoveAt(s, t)
BY DEF Acc!Cardinality, Cardinality, Acc!RemoveAt, RemoveAt

\* The two roles.
AccRoles == {"admin", "member"}

\* What a user's row holds.
AccUsers == [role : AccRoles, disabled : BOOLEAN, reset : Nat, oversight : BOOLEAN, from : Nat]
\* A session's.
AccSessions == [user : Nat, live : BOOLEAN, told : Nat, during : SUBSET Nat]
\* An invitation's.
AccInvitations == [role : AccRoles, used : BOOLEAN, ended : {"no", "expired", "withdrawn"}]
\* What a request under way has read.
AccRequests ==
    [op : {"signIn"}, user : Nat, told : Nat, since : Nat]
    \cup [op : {"change", "acknowledge"}, user : Nat, session : Nat]
    \cup [op : {"reset"}, user : Nat, target : Nat]
    \cup [op : {"accept"}, invitation : Nat, role : AccRoles]

\* The types of the tables, and of the requests.
AccTypes ==
    /\ accUsers \in Seq(AccUsers)
    /\ accSessions \in Seq(AccSessions)
    /\ accInvitations \in Seq(AccInvitations)
    /\ accRequests \in Seq(AccRequests)
    /\ changes \in Nat

\* What a request read is still so, but for what changed since.
AccSound(r) ==
    /\ r.op = "signIn" =>
        /\ r.user \in DOMAIN accUsers /\ r.since =< changes
        /\ accUsers[r.user].reset \in {0, r.told} \cup ((r.since + 1)..changes)
    /\ r.op = "reset" => r.target \in DOMAIN accUsers
    /\ r.op = "acknowledge" => r.session \in DOMAIN accSessions /\ accSessions[r.session].user = r.user
    /\ r.op = "accept" => /\ r.invitation \in DOMAIN accInvitations
                          /\ accInvitations[r.invitation].role = r.role

\* A request is under way.
AccUnderWay(r) == \E i \in DOMAIN accRequests : accRequests[i] = r
\* What the requests under way have read was so when they read it.
AccRequestsSound == \A r \in AccRequests : AccUnderWay(r) => AccSound(r)

\* A session that is live shows the reset of its account that stands, if any,
\* or was made while that was recorded.
AccTold ==
    \A s \in DOMAIN accSessions :
        /\ accSessions[s].user \in DOMAIN accUsers
        /\ accSessions[s].live =>
            accUsers[accSessions[s].user].reset \in {0, accSessions[s].told} \cup accSessions[s].during

\* An account that an invitation made used it, alone, and has its role.
AccMade ==
    /\ \A u \in DOMAIN accUsers : accUsers[u].from # 0 =>
        /\ accUsers[u].from \in DOMAIN accInvitations
        /\ accInvitations[accUsers[u].from].used
        /\ accInvitations[accUsers[u].from].ended # "withdrawn"
        /\ accInvitations[accUsers[u].from].role = accUsers[u].role
    /\ \A u, w \in DOMAIN accUsers : accUsers[u].from # 0 /\ accUsers[u].from = accUsers[w].from => u = w

\* The inductive invariant: one user per invitation needs that every user came from one
\* that is used, and what a session was told needs what a sign-in under way has read.
AccInv == AccTypes /\ AccRequestsSound /\ AccTold /\ AccMade

\* What no step changes: accounts keep their role and origin, sessions their
\* account and invitations their role; and a reset recorded is a new change.
AccEvolves ==
    /\ changes' \in {changes, changes + 1}
    /\ \A u \in DOMAIN accUsers :
        /\ u \in DOMAIN accUsers'
        /\ accUsers'[u].role = accUsers[u].role /\ accUsers'[u].from = accUsers[u].from
        /\ \/ accUsers'[u].reset \in {0, accUsers[u].reset}
           \/ changes' = changes + 1 /\ accUsers'[u].reset = changes'
    /\ \A s \in DOMAIN accSessions : s \in DOMAIN accSessions' /\ accSessions'[s].user = accSessions[s].user
    /\ \A v \in DOMAIN accInvitations :
        v \in DOMAIN accInvitations' /\ accInvitations'[v].role = accInvitations[v].role

\* The empty sequence.
LEMMA NoElements == ASSUME NEW S PROVE <<>> \in Seq(S) /\ DOMAIN <<>> = {}
OBVIOUS

\* A row of a table is replaced, or a row is added.
LEMMA OneChanged ==
    ASSUME NEW S, NEW s \in Seq(S), NEW i \in DOMAIN s, NEW x \in S
    PROVE  /\ [s EXCEPT ![i] = x] \in Seq(S)
           /\ DOMAIN [s EXCEPT ![i] = x] = DOMAIN s
           /\ \A j \in DOMAIN s : [s EXCEPT ![i] = x][j] = IF j = i THEN x ELSE s[j]
OBVIOUS

\* A sequence with one element more.
LEMMA OneAdded ==
    ASSUME NEW S, NEW s \in Seq(S), NEW x \in S
    PROVE  /\ Append(s, x) \in Seq(S)
           /\ DOMAIN Append(s, x) = DOMAIN s \cup {Len(s) + 1}
           /\ Len(s) + 1 \in Nat \ {0} /\ Len(s) + 1 \notin DOMAIN s
           /\ Append(s, x)[Len(s) + 1] = x
           /\ \A j \in DOMAIN s : Append(s, x)[j] = s[j]
OBVIOUS

\* What is left of a sequence was in it.
LEMMA OneRemoved ==
    ASSUME NEW S, NEW s \in Seq(S), NEW i \in DOMAIN s
    PROVE  /\ RemoveAt(s, i) \in Seq(S)
           /\ \A j \in DOMAIN RemoveAt(s, i) : \E k \in DOMAIN s : RemoveAt(s, i)[j] = s[k]
<1>1. i \in 1..Len(s) /\ Len(s) \in Nat
    OBVIOUS
<1> DEFINE before == SubSeq(s, 1, i - 1)
           after == SubSeq(s, i + 1, Len(s))
<1>2. /\ before \in Seq(S) /\ Len(before) = i - 1
      /\ \A j \in 1..(i - 1) : before[j] = s[j] /\ j \in DOMAIN s
    BY <1>1
<1>3. /\ after \in Seq(S) /\ Len(after) = Len(s) - i
      /\ \A j \in 1..(Len(s) - i) : after[j] = s[i + j] /\ i + j \in DOMAIN s
    BY <1>1
<1>4. RemoveAt(s, i) = before \o after
    BY DEF RemoveAt
<1> HIDE DEF before, after
<1>5. /\ before \o after \in Seq(S)
      /\ DOMAIN (before \o after) = 1..(Len(s) - 1)
      /\ \A j \in 1..(Len(s) - 1) :
          (before \o after)[j] = IF j =< i - 1 THEN before[j] ELSE after[j - (i - 1)]
    BY SMTT(30), <1>1, <1>2, <1>3
<1>6. ASSUME NEW j \in 1..(Len(s) - 1) PROVE \E k \in DOMAIN s : (before \o after)[j] = s[k]
    <2>1. CASE j =< i - 1
        <3>1. j \in 1..(i - 1)
            BY <2>1
        <3> QED BY <1>2, <1>5, <2>1, <3>1
    <2>2. CASE ~(j =< i - 1)
        <3>1. j - (i - 1) \in 1..(Len(s) - i)
            BY <1>1, <2>2
        <3> QED BY <1>3, <1>5, <2>2, <3>1
    <2> QED BY <2>1, <2>2
<1> QED BY <1>4, <1>5, <1>6

\* The rows, one by one.
LEMMA AccRowTypes ==
    ASSUME AccTypes
    PROVE  /\ \A u \in DOMAIN accUsers :
                /\ accUsers[u] \in AccUsers /\ accUsers[u].role \in AccRoles
                /\ accUsers[u].reset \in Nat /\ accUsers[u].from \in Nat
           /\ \A s \in DOMAIN accSessions :
                /\ accSessions[s] \in AccSessions /\ accSessions[s].user \in Nat
                /\ accSessions[s].told \in Nat /\ accSessions[s].during \in SUBSET Nat
           /\ \A v \in DOMAIN accInvitations :
                accInvitations[v] \in AccInvitations /\ accInvitations[v].role \in AccRoles
           /\ \A i \in DOMAIN accRequests : accRequests[i] \in AccRequests
<1>1. \A u \in DOMAIN accUsers : accUsers[u] \in AccUsers
    BY DEF AccTypes
<1>2. \A s \in DOMAIN accSessions : accSessions[s] \in AccSessions
    BY DEF AccTypes
<1>3. \A v \in DOMAIN accInvitations : accInvitations[v] \in AccInvitations
    BY DEF AccTypes
<1>4. \A i \in DOMAIN accRequests : accRequests[i] \in AccRequests
    BY DEF AccTypes
<1> QED BY <1>1, <1>2, <1>3, <1>4 DEF AccUsers, AccSessions, AccInvitations

\* The tables a household begins with.
LEMMA AccInit == Acc!Init => AccInv
<1> SUFFICES ASSUME Acc!Init PROVE AccInv
    OBVIOUS
<1> DEFINE user == [role |-> "admin", disabled |-> FALSE, reset |-> 0, oversight |-> FALSE, from |-> 0]
           session == [user |-> 1, live |-> TRUE, told |-> 0, during |-> {}]
<1>1. user \in AccUsers /\ user.reset = 0 /\ user.from = 0
    BY DEF AccUsers, AccRoles
<1>2. session \in AccSessions /\ session.user = 1 /\ session.told = 0
    BY DEF AccSessions
<1>3. accUsers = <<user>> /\ accSessions = <<session>> /\ accInvitations = <<>> /\ accRequests = <<>> /\ changes = 0
    BY DEF Acc!Init
<1> HIDE DEF user, session
<1>4. accUsers \in Seq(AccUsers) /\ DOMAIN accUsers = {1} /\ accUsers[1] = user
    BY <1>1, <1>3
<1>5. accSessions \in Seq(AccSessions) /\ DOMAIN accSessions = {1} /\ accSessions[1] = session
    BY <1>2, <1>3
<1>6. AccTypes /\ AccRequestsSound
    BY <1>3, <1>4, <1>5, NoElements DEF AccTypes, AccRequestsSound, AccUnderWay
<1>7. AccTold
    BY <1>1, <1>2, <1>4, <1>5 DEF AccTold
<1>8. AccMade
    BY <1>1, <1>4 DEF AccMade
<1> QED BY <1>6, <1>7, <1>8 DEF AccInv

\* What was sound stays so.
LEMMA AccStaysSound ==
    ASSUME AccInv, AccEvolves, NEW r \in AccRequests, AccSound(r)
    PROVE  AccSound(r)'
<1>1. changes \in Nat /\ changes' \in {changes, changes + 1} /\ (r.op = "signIn" => r.since \in Nat /\ r.told \in Nat)
    BY DEF AccInv, AccTypes, AccEvolves, AccRequests
<1>2. r.op = "signIn" =>
        /\ r.user \in DOMAIN accUsers' /\ r.since =< changes'
        /\ accUsers'[r.user].reset \in {0, r.told} \cup ((r.since + 1)..changes')
    <2> SUFFICES ASSUME r.op = "signIn" PROVE /\ r.user \in DOMAIN accUsers' /\ r.since =< changes'
              /\ accUsers'[r.user].reset \in {0, r.told} \cup ((r.since + 1)..changes')
        OBVIOUS
    <2>1. r.user \in DOMAIN accUsers /\ r.since =< changes
          /\ accUsers[r.user].reset \in {0, r.told} \cup ((r.since + 1)..changes)
        BY DEF AccSound
    <2>2. (r.since + 1)..changes \subseteq (r.since + 1)..changes'
          /\ (changes' = changes + 1 => changes' \in (r.since + 1)..changes')
        BY <1>1, <2>1
    <2> QED BY <1>1, <2>1, <2>2 DEF AccEvolves
<1> QED BY <1>2 DEF AccSound, AccEvolves

\* A request starts, or ends and leaves the others.
LEMMA AccStarted ==
    ASSUME AccInv, AccEvolves, NEW r \in AccRequests, AccSound(r)', Acc!Starts(r)
    PROVE  accRequests' \in Seq(AccRequests) /\ AccRequestsSound'
<1>1. /\ accRequests' \in Seq(AccRequests)
      /\ DOMAIN accRequests' = DOMAIN accRequests \cup {Len(accRequests) + 1}
      /\ accRequests'[Len(accRequests) + 1] = r
      /\ \A j \in DOMAIN accRequests : accRequests'[j] = accRequests[j]
    BY OneAdded DEF AccInv, AccTypes, Acc!Starts
<1>2. ASSUME NEW q \in AccRequests, AccUnderWay(q)' PROVE AccSound(q)'
    <2>1. q = r \/ AccUnderWay(q)
        BY <1>1, <1>2 DEF AccUnderWay
    <2> QED BY <2>1, AccStaysSound DEF AccInv, AccRequestsSound
<1> QED BY <1>1, <1>2 DEF AccRequestsSound

\* The end of a request leaves the others as sound as they were.
LEMMA AccEnded ==
    ASSUME AccInv, AccEvolves, NEW i \in DOMAIN accRequests, Acc!Ends(i)
    PROVE  accRequests' \in Seq(AccRequests) /\ AccRequestsSound'
<1>1. /\ accRequests' \in Seq(AccRequests)
      /\ \A j \in DOMAIN accRequests' : \E k \in DOMAIN accRequests : accRequests'[j] = accRequests[k]
    BY OneRemoved, AccLibrary DEF AccInv, AccTypes, Acc!Ends
<1>2. ASSUME NEW q \in AccRequests, AccUnderWay(q)' PROVE AccSound(q)'
    <2>1. AccUnderWay(q)
        BY <1>1, <1>2 DEF AccUnderWay
    <2> QED BY <2>1, AccStaysSound DEF AccInv, AccRequestsSound
<1> QED BY <1>1, <1>2 DEF AccRequestsSound

\* So does a step that ends none.
LEMMA AccWaiting ==
    ASSUME AccInv, AccEvolves, accRequests' = accRequests
    PROVE  accRequests' \in Seq(AccRequests) /\ AccRequestsSound'
<1>1. \A q \in AccRequests : AccUnderWay(q)' <=> AccUnderWay(q)
    BY DEF AccUnderWay
<1> QED BY <1>1, AccStaysSound DEF AccInv, AccTypes, AccRequestsSound

\* Nothing of the tables changes as a request starts.
LEMMA AccStarts ==
    ASSUME AccInv, NEW r \in AccRequests, AccSound(r), Acc!Starts(r),
           UNCHANGED <<accUsers, accSessions, accInvitations, changes>>
    PROVE  AccInv'
<1>1. AccEvolves
    BY DEF AccEvolves, AccInv, AccTypes
<1>2. AccSound(r)'
    BY DEF AccSound
<1>3. accRequests' \in Seq(AccRequests) /\ AccRequestsSound'
    BY <1>1, <1>2, AccStarted
<1> QED BY <1>3 DEF AccInv, AccTypes, AccTold, AccMade

\* What each request has read.
LEMMA AccRequestKinds ==
    ASSUME AccTypes, NEW i \in DOMAIN accRequests
    PROVE  LET r == accRequests[i] IN
           /\ r.op = "signIn" => r.user \in Nat /\ r.told \in Nat /\ r.since \in Nat
           /\ r.op = "change" => r.user \in Nat /\ r.session \in Nat
           /\ r.op = "acknowledge" => r.user \in Nat /\ r.session \in Nat
           /\ r.op = "reset" => r.user \in Nat /\ r.target \in Nat
           /\ r.op = "accept" => r.invitation \in Nat /\ r.role \in AccRoles
<1>1. accRequests[i] \in AccRequests
    BY DEF AccTypes
<1> QED BY <1>1 DEF AccRequests

\* A request starts, with what it reads.
LEMMA AccSomeStart ==
    ASSUME AccInv,
           \/ \E u \in DOMAIN accUsers : Acc!StartSignIn(u)
           \/ \E s \in DOMAIN accSessions : Acc!StartChange(s) \/ Acc!StartAcknowledge(s)
           \/ \E s \in DOMAIN accSessions, u \in DOMAIN accUsers : Acc!StartReset(s, u)
           \/ \E v \in DOMAIN accInvitations : Acc!StartAccept(v)
    PROVE  AccInv'
<1>1. \A u \in DOMAIN accUsers : u \in Nat
    BY DEF AccInv, AccTypes
<1>2. \A s \in DOMAIN accSessions : s \in Nat
    BY DEF AccInv, AccTypes
<1>3. \A v \in DOMAIN accInvitations : v \in Nat
    BY DEF AccInv, AccTypes
<1>4. ASSUME NEW u \in DOMAIN accUsers, Acc!StartSignIn(u) PROVE AccInv'
    <2> DEFINE r == [op |-> "signIn", user |-> u, told |-> accUsers[u].reset, since |-> changes]
    <2>1. r \in AccRequests
        BY <1>1, AccRowTypes DEF AccInv, AccTypes, AccRequests
    <2>2. AccSound(r)
        BY AccRowTypes DEF AccInv, AccTypes, AccSound
    <2> QED BY <1>4, <2>1, <2>2, AccStarts DEF Acc!StartSignIn
<1>5. ASSUME NEW s \in DOMAIN accSessions, Acc!StartChange(s) PROVE AccInv'
    <2> DEFINE r == [op |-> "change", user |-> accSessions[s].user, session |-> s]
    <2>1. r \in AccRequests
        BY <1>2, AccRowTypes DEF AccInv, AccRequests
    <2>2. AccSound(r)
        BY DEF AccSound
    <2> QED BY <1>5, <2>1, <2>2, AccStarts DEF Acc!StartChange
<1>6. ASSUME NEW s \in DOMAIN accSessions, Acc!StartAcknowledge(s) PROVE AccInv'
    <2> DEFINE r == [op |-> "acknowledge", user |-> accSessions[s].user, session |-> s]
    <2>1. r \in AccRequests
        BY <1>2, AccRowTypes DEF AccInv, AccRequests
    <2>2. AccSound(r)
        BY DEF AccSound
    <2> QED BY <1>6, <2>1, <2>2, AccStarts DEF Acc!StartAcknowledge
<1>7. ASSUME NEW s \in DOMAIN accSessions, NEW u \in DOMAIN accUsers, Acc!StartReset(s, u) PROVE AccInv'
    <2> DEFINE r == [op |-> "reset", user |-> accSessions[s].user, target |-> u]
    <2>1. r \in AccRequests
        BY <1>1, AccRowTypes DEF AccInv, AccRequests
    <2>2. AccSound(r)
        BY DEF AccSound
    <2> QED BY <1>7, <2>1, <2>2, AccStarts DEF Acc!StartReset
<1>8. ASSUME NEW v \in DOMAIN accInvitations, Acc!StartAccept(v) PROVE AccInv'
    <2> DEFINE r == [op |-> "accept", invitation |-> v, role |-> accInvitations[v].role]
    <2>1. r \in AccRequests
        BY <1>3, AccRowTypes DEF AccInv, AccRequests
    <2>2. AccSound(r)
        BY DEF AccSound
    <2> QED BY <1>8, <2>1, <2>2, AccStarts DEF Acc!StartAccept
<1> QED BY <1>4, <1>5, <1>6, <1>7, <1>8

\* The end of a session, and a reset its page was shown, change nothing else of it.
LEMMA AccSessionChanges ==
    ASSUME NEW session \in AccSessions, NEW told \in Nat
    PROVE  /\ LET ended == [session EXCEPT !.live = FALSE]
              IN  /\ ended \in AccSessions /\ ended.live = FALSE /\ ended.user = session.user
                  /\ ended.told = session.told /\ ended.during = session.during
           /\ LET shown == [session EXCEPT !.told = told]
              IN  /\ shown \in AccSessions /\ shown.user = session.user /\ shown.told = told
                  /\ shown.live = session.live /\ shown.during = session.during
<1> DEFINE ended == [session EXCEPT !.live = FALSE]
           shown == [session EXCEPT !.told = told]
<1>1. /\ ended \in AccSessions /\ ended.live = FALSE /\ ended.user = session.user
      /\ ended.told = session.told /\ ended.during = session.during
    BY DEF AccSessions
<1>2. /\ shown \in AccSessions /\ shown.user = session.user /\ shown.told = told
      /\ shown.live = session.live /\ shown.during = session.during
    BY DEF AccSessions
<1> QED BY <1>1, <1>2

\* The sessions of one account that are revoked.
LEMMA AccRevoked ==
    ASSUME AccTypes, NEW u, NEW except, accSessions' = Acc!Revoked(accSessions, u, except)
    PROVE  /\ accSessions' \in Seq(AccSessions)
           /\ DOMAIN accSessions' = DOMAIN accSessions
           /\ \A s \in DOMAIN accSessions :
                /\ accSessions'[s].user = accSessions[s].user /\ accSessions'[s].told = accSessions[s].told
                /\ accSessions'[s].during = accSessions[s].during
                /\ accSessions'[s].live => accSessions[s].live
                /\ accSessions'[s].live => accSessions[s].user # u \/ s = except
<1>1. accSessions' = [s \in DOMAIN accSessions |->
                        IF accSessions[s].user = u /\ s # except
                        THEN [accSessions[s] EXCEPT !.live = FALSE] ELSE accSessions[s]]
    BY DEF Acc!Revoked
<1>2. DOMAIN accSessions = 1..Len(accSessions) /\ Len(accSessions) \in Nat
    BY DEF AccTypes
<1>3. \A s \in DOMAIN accSessions :
        LET ended == [accSessions[s] EXCEPT !.live = FALSE]
        IN  /\ ended \in AccSessions /\ ended.live = FALSE /\ ended.user = accSessions[s].user
            /\ ended.told = accSessions[s].told /\ ended.during = accSessions[s].during
            /\ accSessions[s] \in AccSessions
    BY AccRowTypes, AccSessionChanges, 0 \in Nat
<1> DEFINE new(s) == IF accSessions[s].user = u /\ s # except
                     THEN [accSessions[s] EXCEPT !.live = FALSE] ELSE accSessions[s]
<1>4. \A s \in DOMAIN accSessions :
        /\ new(s) \in AccSessions
        /\ new(s).user = accSessions[s].user /\ new(s).told = accSessions[s].told
        /\ new(s).during = accSessions[s].during
        /\ new(s).live => accSessions[s].live
        /\ new(s).live => accSessions[s].user # u \/ s = except
    BY <1>3
<1>5. accSessions' = [s \in DOMAIN accSessions |-> new(s)]
    BY <1>1
<1> HIDE DEF new
<1> QED BY <1>2, <1>4, <1>5

\* A sign-in is granted a session, unless the password changed since it was read.
LEMMA AccSignIn ==
    ASSUME AccInv, NEW i \in DOMAIN accRequests, Acc!SignIn(i)
    PROVE  AccInv'
<1> DEFINE r == accRequests[i]
           new == [user |-> r.user, live |-> TRUE, told |-> r.told, during |-> (r.since + 1)..changes]
<1>1. r.op = "signIn" /\ r.user \in Nat /\ r.told \in Nat /\ r.since \in Nat /\ changes \in Nat
    BY AccRequestKinds DEF AccInv, AccTypes, Acc!SignIn
<1>2. r.user \in DOMAIN accUsers /\ accUsers[r.user].reset \in {0, r.told} \cup ((r.since + 1)..changes)
    <2>1. r \in AccRequests /\ AccUnderWay(r)
        BY AccRowTypes DEF AccInv, AccUnderWay
    <2> HIDE DEF r
    <2> QED BY <1>1, <2>1 DEF AccInv, AccRequestsSound, AccSound
<1>3. /\ new \in AccSessions /\ new.user = r.user /\ new.told = r.told
      /\ new.during = (r.since + 1)..changes
    <2>1. (r.since + 1)..changes \in SUBSET Nat
        BY <1>1
    <2> HIDE DEF r
    <2> QED BY <1>1, <2>1 DEF AccSessions
<1>4. /\ accSessions' = Append(accSessions, new) /\ Acc!Ends(i)
      /\ UNCHANGED <<accUsers, accInvitations, changes>>
    BY DEF Acc!SignIn, Acc!Created
<1> HIDE DEF r, new
<1>5. /\ accSessions' \in Seq(AccSessions)
      /\ DOMAIN accSessions' = DOMAIN accSessions \cup {Len(accSessions) + 1}
      /\ accSessions'[Len(accSessions) + 1] = new
      /\ \A s \in DOMAIN accSessions : accSessions'[s] = accSessions[s]
    BY <1>3, <1>4, OneAdded DEF AccInv, AccTypes
<1>6. AccEvolves
    BY <1>4, <1>5 DEF AccEvolves
<1>7. accRequests' \in Seq(AccRequests) /\ AccRequestsSound'
    BY <1>4, <1>6, AccEnded DEF r
<1>8. AccTold'
    <2>1. /\ new.user \in DOMAIN accUsers'
          /\ accUsers'[new.user].reset \in {0, new.told} \cup new.during
        BY <1>2, <1>3, <1>4 DEF r
    <2>2. ASSUME NEW s \in DOMAIN accSessions
          PROVE  /\ accSessions[s].user \in DOMAIN accUsers'
                 /\ accSessions[s].live =>
                        accUsers'[accSessions[s].user].reset \in {0, accSessions[s].told} \cup accSessions[s].during
        BY <1>4 DEF AccInv, AccTold
    <2> QED BY <1>5, <2>1, <2>2 DEF AccTold
<1> QED BY <1>4, <1>5, <1>7, <1>8 DEF AccInv, AccTypes, AccMade

\* Sessions change, but not their accounts, and no account does.
LEMMA AccSessionsMove ==
    ASSUME AccInv, accSessions' \in Seq(AccSessions), DOMAIN accSessions' = DOMAIN accSessions,
           \A s \in DOMAIN accSessions :
                /\ accSessions'[s].user = accSessions[s].user
                /\ accSessions'[s].live =>
                    accUsers[accSessions[s].user].reset \in {0, accSessions'[s].told} \cup accSessions'[s].during,
           changes' \in {changes, changes + 1},
           UNCHANGED <<accUsers, accInvitations>>,
           accRequests' = accRequests \/ \E i \in DOMAIN accRequests : Acc!Ends(i)
    PROVE  AccInv'
<1>1. AccEvolves
    BY DEF AccEvolves
<1>2. accRequests' \in Seq(AccRequests) /\ AccRequestsSound'
    BY <1>1, AccEnded, AccWaiting
<1>3. AccTold'
    BY DEF AccInv, AccTold
<1>4. changes' \in Nat
    BY DEF AccInv, AccTypes
<1> QED BY <1>2, <1>3, <1>4 DEF AccInv, AccTypes, AccMade

\* A page asks who it is, and is told of a reset.
LEMMA AccLook ==
    ASSUME AccInv, NEW s \in DOMAIN accSessions, Acc!Look(s)
    PROVE  AccInv'
<1> DEFINE told == accUsers[accSessions[s].user].reset
           new == [accSessions[s] EXCEPT !.told = told]
<1>1. told \in Nat /\ accSessions[s] \in AccSessions
    BY AccRowTypes DEF AccInv, AccTold
<1>2. new \in AccSessions /\ new.user = accSessions[s].user /\ new.told = told
    <2> HIDE DEF told
    <2> QED BY <1>1, AccSessionChanges
<1>3. accSessions' = [accSessions EXCEPT ![s] = new] /\ UNCHANGED <<accUsers, accInvitations, accRequests, changes>>
    BY DEF Acc!Look
<1> HIDE DEF told, new
<1>4. /\ accSessions' \in Seq(AccSessions) /\ DOMAIN accSessions' = DOMAIN accSessions
      /\ \A x \in DOMAIN accSessions : accSessions'[x] = IF x = s THEN new ELSE accSessions[x]
    BY <1>2, <1>3, OneChanged DEF AccInv, AccTypes
<1>5. ASSUME NEW x \in DOMAIN accSessions
      PROVE  /\ accSessions'[x].user = accSessions[x].user
             /\ accSessions'[x].live =>
                    accUsers[accSessions[x].user].reset \in {0, accSessions'[x].told} \cup accSessions'[x].during
    BY <1>2, <1>4 DEF AccInv, AccTold, told
<1> QED BY <1>3, <1>4, <1>5, AccSessionsMove

\* A session is revoked.
LEMMA AccRevoke ==
    ASSUME AccInv, NEW s \in DOMAIN accSessions, NEW other \in DOMAIN accSessions, Acc!Revoke(s, other)
    PROVE  AccInv'
<1> DEFINE new == [accSessions[other] EXCEPT !.live = FALSE]
<1>1. accSessions[other] \in AccSessions
    BY AccRowTypes DEF AccInv
<1>2. new \in AccSessions /\ new.user = accSessions[other].user /\ new.live = FALSE
    BY <1>1, AccSessionChanges, 0 \in Nat
<1>3. accSessions' = [accSessions EXCEPT ![other] = new] /\ UNCHANGED <<accUsers, accInvitations, accRequests, changes>>
    BY DEF Acc!Revoke
<1> HIDE DEF new
<1>4. /\ accSessions' \in Seq(AccSessions) /\ DOMAIN accSessions' = DOMAIN accSessions
      /\ \A x \in DOMAIN accSessions : accSessions'[x] = IF x = other THEN new ELSE accSessions[x]
    BY <1>2, <1>3, OneChanged DEF AccInv, AccTypes
<1>5. ASSUME NEW x \in DOMAIN accSessions
      PROVE  /\ accSessions'[x].user = accSessions[x].user
             /\ accSessions'[x].live =>
                    accUsers[accSessions[x].user].reset \in {0, accSessions'[x].told} \cup accSessions'[x].during
    BY <1>2, <1>4 DEF AccInv, AccTold
<1> QED BY <1>3, <1>4, <1>5, AccSessionsMove

\* A password is changed, which ends the user's other sessions.
LEMMA AccChangePassword ==
    ASSUME AccInv, NEW i \in DOMAIN accRequests, Acc!ChangePassword(i)
    PROVE  AccInv'
<1>1. /\ accSessions' = Acc!Revoked(accSessions, accRequests[i].user, accRequests[i].session)
      /\ changes' = changes + 1 /\ UNCHANGED <<accUsers, accInvitations>> /\ Acc!Ends(i)
    BY DEF Acc!ChangePassword
<1>2. /\ accSessions' \in Seq(AccSessions) /\ DOMAIN accSessions' = DOMAIN accSessions
      /\ \A s \in DOMAIN accSessions :
            /\ accSessions'[s].user = accSessions[s].user /\ accSessions'[s].told = accSessions[s].told
            /\ accSessions'[s].during = accSessions[s].during
            /\ accSessions'[s].live => accSessions[s].live
    BY <1>1, AccRevoked DEF AccInv
<1>3. ASSUME NEW s \in DOMAIN accSessions
      PROVE  /\ accSessions'[s].user = accSessions[s].user
             /\ accSessions'[s].live =>
                    accUsers[accSessions[s].user].reset \in {0, accSessions'[s].told} \cup accSessions'[s].during
    BY <1>2 DEF AccInv, AccTold
<1> QED BY <1>1, <1>2, <1>3, AccSessionsMove

\* One account changes, but for its role and its origin.
LEMMA AccUserMoves ==
    ASSUME AccInv, NEW u \in DOMAIN accUsers, NEW user \in AccUsers,
           user.role = accUsers[u].role, user.from = accUsers[u].from,
           \/ user.reset \in {0, accUsers[u].reset}
           \/ changes' = changes + 1 /\ user.reset = changes' /\ accSessions' = Acc!Revoked(accSessions, u, 0),
           accUsers' = [accUsers EXCEPT ![u] = user],
           accSessions' = accSessions \/ accSessions' = Acc!Revoked(accSessions, u, 0),
           changes' \in {changes, changes + 1}, accInvitations' = accInvitations,
           accRequests' = accRequests \/ \E i \in DOMAIN accRequests : Acc!Ends(i)
    PROVE  AccInv'
<1>1. /\ accUsers' \in Seq(AccUsers) /\ DOMAIN accUsers' = DOMAIN accUsers
      /\ \A w \in DOMAIN accUsers : accUsers'[w] = IF w = u THEN user ELSE accUsers[w]
    BY OneChanged DEF AccInv, AccTypes
<1>2. /\ accSessions' \in Seq(AccSessions)
      /\ DOMAIN accSessions' = DOMAIN accSessions
      /\ \A s \in DOMAIN accSessions :
            /\ accSessions'[s].user = accSessions[s].user /\ accSessions'[s].told = accSessions[s].told
            /\ accSessions'[s].during = accSessions[s].during
            /\ accSessions'[s].live => accSessions[s].live
            /\ \/ user.reset \in {0, accUsers[u].reset}
               \/ accSessions'[s].live => accSessions[s].user # u
    <2>1. \A s \in DOMAIN accSessions : s # 0
        BY DEF AccInv, AccTypes
    <2>2. CASE accSessions' = accSessions
        <3>1. user.reset \in {0, accUsers[u].reset} \/ accSessions = Acc!Revoked(accSessions, u, 0)
            BY <2>2
        <3>2. ASSUME accSessions = Acc!Revoked(accSessions, u, 0), NEW s \in DOMAIN accSessions
              PROVE  accSessions[s].live => accSessions[s].user # u
            BY <2>1, <2>2, <3>2, AccRevoked DEF AccInv
        <3> QED BY <2>2, <3>1, <3>2 DEF AccInv, AccTypes
    <2>3. CASE accSessions' = Acc!Revoked(accSessions, u, 0)
        BY <2>1, <2>3, AccRevoked DEF AccInv
    <2> QED BY <2>2, <2>3
<1>3. AccEvolves
    BY <1>1, <1>2 DEF AccEvolves
<1>4. accRequests' \in Seq(AccRequests) /\ AccRequestsSound'
    BY <1>3, AccEnded, AccWaiting
<1>5. AccTold'
    BY ZenonT(40), <1>1, <1>2 DEF AccInv, AccTold
<1>6. AccMade'
    BY <1>1 DEF AccInv, AccMade
<1>7. changes' \in Nat
    BY DEF AccInv, AccTypes
<1> QED BY <1>1, <1>2, <1>4, <1>5, <1>6, <1>7 DEF AccInv, AccTypes

\* A reset, and what an administrator may change, change nothing else of a user.
LEMMA AccUserChanges ==
    ASSUME NEW user \in AccUsers, NEW reset \in Nat, NEW disabled \in BOOLEAN, NEW oversight \in BOOLEAN
    PROVE  /\ LET new == [user EXCEPT !.reset = reset]
              IN  /\ new \in AccUsers /\ new.role = user.role /\ new.from = user.from
                  /\ new.reset = reset
           /\ LET new == [user EXCEPT !.disabled = disabled, !.oversight = oversight]
              IN  /\ new \in AccUsers /\ new.role = user.role /\ new.from = user.from
                  /\ new.reset = user.reset
<1> DEFINE one == [user EXCEPT !.reset = reset]
           two == [user EXCEPT !.disabled = disabled, !.oversight = oversight]
<1>1. one \in AccUsers /\ one.role = user.role /\ one.from = user.from /\ one.reset = reset
    BY DEF AccUsers
<1>2. two \in AccUsers /\ two.role = user.role /\ two.from = user.from /\ two.reset = user.reset
    BY DEF AccUsers
<1> QED BY <1>1, <1>2

\* An administrator resets a password, which ends the user's sessions.
LEMMA AccResetPassword ==
    ASSUME AccInv, NEW i \in DOMAIN accRequests, Acc!ResetPassword(i)
    PROVE  AccInv'
<1> DEFINE u == accRequests[i].target
           reset == IF accUsers[u].role = "member" THEN changes + 1 ELSE accUsers[u].reset
           new == [accUsers[u] EXCEPT !.reset = reset]
<1>1. u \in DOMAIN accUsers
    <2>1. accRequests[i] \in AccRequests /\ AccUnderWay(accRequests[i]) /\ accRequests[i].op = "reset"
        BY AccRowTypes DEF AccInv, AccUnderWay, Acc!ResetPassword
    <2> QED BY <2>1 DEF AccInv, AccRequestsSound, AccSound
<1>2. accUsers[u] \in AccUsers /\ reset \in Nat
    BY <1>1, AccRowTypes DEF AccInv, AccTypes
<1>3. new \in AccUsers /\ new.role = accUsers[u].role /\ new.from = accUsers[u].from /\ new.reset = reset
    <2> HIDE DEF reset, u
    <2> QED BY <1>2, AccUserChanges, TRUE \in BOOLEAN
<1>4. /\ accUsers' = [accUsers EXCEPT ![u] = new] /\ accSessions' = Acc!Revoked(accSessions, u, 0)
      /\ changes' = changes + 1 /\ accInvitations' = accInvitations /\ Acc!Ends(i)
    BY DEF Acc!ResetPassword
<1>5. reset \in {0, accUsers[u].reset} \/ reset = changes'
    BY <1>4
<1> HIDE DEF u, reset, new
<1> QED BY <1>1, <1>3, <1>4, <1>5, AccUserMoves

\* A user acknowledges a reset.
LEMMA AccAcknowledge ==
    ASSUME AccInv, NEW i \in DOMAIN accRequests, Acc!Acknowledge(i)
    PROVE  AccInv'
<1> DEFINE u == accRequests[i].user
           new == [accUsers[u] EXCEPT !.reset = 0]
<1>1. accRequests[i].op = "acknowledge" /\ Acc!Ends(i) /\ UNCHANGED <<accSessions, accInvitations, changes>>
    BY DEF Acc!Acknowledge
<1>2. accRequests[i] \in AccRequests /\ AccUnderWay(accRequests[i])
    BY AccRowTypes DEF AccInv, AccUnderWay
<1>3. u \in DOMAIN accUsers
    BY <1>1, <1>2 DEF AccInv, AccRequestsSound, AccSound, AccTold
<1>4. new \in AccUsers /\ new.role = accUsers[u].role /\ new.from = accUsers[u].from /\ new.reset = 0
    <2>1. accUsers[u] \in AccUsers
        BY <1>3, AccRowTypes DEF AccInv
    <2> HIDE DEF u
    <2> QED BY <2>1, AccUserChanges, TRUE \in BOOLEAN, 0 \in Nat
<1>5. CASE accUsers' = [accUsers EXCEPT ![u] = new]
    <2> HIDE DEF u, new
    <2> QED BY <1>1, <1>3, <1>4, <1>5, AccUserMoves
<1>6. CASE accUsers' = accUsers
    <2>1. \A s \in DOMAIN accSessions : accSessions[s].live =>
             accUsers[accSessions[s].user].reset \in {0, accSessions[s].told} \cup accSessions[s].during
        BY DEF AccInv, AccTold
    <2> QED BY <1>1, <1>6, <2>1, AccSessionsMove DEF AccInv, AccTypes
<1> QED BY <1>5, <1>6 DEF Acc!Acknowledge

\* A user is disabled or enabled, or may be overseen or not.
LEMMA AccUpdate ==
    ASSUME AccInv, NEW s \in DOMAIN accSessions, NEW u \in DOMAIN accUsers,
           NEW disabled \in BOOLEAN, NEW oversight \in BOOLEAN, Acc!Update(s, u, disabled, oversight)
    PROVE  AccInv'
<1> DEFINE new == [accUsers[u] EXCEPT !.disabled = disabled, !.oversight = oversight]
<1>1. new \in AccUsers /\ new.role = accUsers[u].role /\ new.from = accUsers[u].from
      /\ new.reset = accUsers[u].reset
    <2>1. accUsers[u] \in AccUsers
        BY AccRowTypes DEF AccInv
    <2> QED BY <2>1 DEF AccUsers
<1>2. /\ accUsers' = [accUsers EXCEPT ![u] = new]
      /\ accSessions' = accSessions \/ accSessions' = Acc!Revoked(accSessions, u, 0)
      /\ changes' = changes + 1 /\ accInvitations' = accInvitations /\ accRequests' = accRequests
    <2>1. accUsers[u] \in AccUsers /\ accUsers \in Seq(AccUsers)
        BY AccRowTypes DEF AccInv, AccTypes
    <2>2. accUsers' = [accUsers EXCEPT ![u].disabled = disabled, ![u].oversight = oversight]
        BY DEF Acc!Update
    <2>3. [accUsers EXCEPT ![u].disabled = disabled, ![u].oversight = oversight]
            = [accUsers EXCEPT ![u] = new]
        BY <2>1
    <2> QED BY <2>2, <2>3 DEF Acc!Update
<1> HIDE DEF new
<1> QED BY <1>1, <1>2, AccUserMoves

\* One invitation changes, but for its role; one that made an account is not
\* withdrawn.
LEMMA AccInvitationMoves ==
    ASSUME AccInv, NEW v \in DOMAIN accInvitations, NEW invitation \in AccInvitations,
           invitation.role = accInvitations[v].role, accInvitations[v].used => invitation.used,
           accInvitations[v].used /\ accInvitations[v].ended # "withdrawn" => invitation.ended # "withdrawn",
           accInvitations' = [accInvitations EXCEPT ![v] = invitation],
           UNCHANGED <<accUsers, accSessions, accRequests, changes>>
    PROVE  AccInv'
<1>1. /\ accInvitations' \in Seq(AccInvitations) /\ DOMAIN accInvitations' = DOMAIN accInvitations
      /\ \A w \in DOMAIN accInvitations : accInvitations'[w] = IF w = v THEN invitation ELSE accInvitations[w]
    BY OneChanged DEF AccInv, AccTypes
<1>2. AccEvolves
    BY <1>1 DEF AccEvolves
<1>3. accRequests' \in Seq(AccRequests) /\ AccRequestsSound'
    BY <1>2, AccWaiting
<1>4. AccMade'
    BY <1>1 DEF AccInv, AccMade
<1> QED BY <1>1, <1>3, <1>4 DEF AccInv, AccTypes, AccTold

\* An invitation expires, or is withdrawn.
LEMMA AccEnds ==
    ASSUME AccInv, NEW v \in DOMAIN accInvitations,
           Acc!Expire(v) \/ \E s \in DOMAIN accSessions : Acc!Withdraw(s, v)
    PROVE  AccInv'
<1>1. accInvitations[v] \in AccInvitations
    BY AccRowTypes DEF AccInv
<1>2. PICK ended \in {"expired", "withdrawn"} :
        /\ accInvitations' = [accInvitations EXCEPT ![v].ended = ended]
        /\ ended = "withdrawn" => ~accInvitations[v].used
        /\ UNCHANGED <<accUsers, accSessions, accRequests, changes>>
    BY DEF Acc!Expire, Acc!Withdraw
<1> DEFINE new == [accInvitations[v] EXCEPT !.ended = ended]
<1>3. new \in AccInvitations /\ new.role = accInvitations[v].role /\ new.used = accInvitations[v].used
      /\ new.ended = ended
    BY <1>1 DEF AccInvitations
<1>4. accInvitations' = [accInvitations EXCEPT ![v] = new]
    BY <1>2
<1> HIDE DEF new
<1>5. /\ accInvitations[v].used => new.used
      /\ accInvitations[v].used /\ accInvitations[v].ended # "withdrawn" => new.ended # "withdrawn"
    BY <1>2, <1>3
<1> QED BY <1>2, <1>3, <1>4, <1>5, AccInvitationMoves

\* An invitation is made.
LEMMA AccInvite ==
    ASSUME AccInv, NEW s \in DOMAIN accSessions, NEW role \in AccRoles, Acc!Invite(s, role)
    PROVE  AccInv'
<1> DEFINE new == [role |-> role, used |-> FALSE, ended |-> "no"]
<1>1. new \in AccInvitations
    BY DEF AccInvitations
<1>2. accInvitations' = Append(accInvitations, new) /\ UNCHANGED <<accUsers, accSessions, accRequests, changes>>
    BY DEF Acc!Invite
<1> HIDE DEF new
<1>3. /\ accInvitations' \in Seq(AccInvitations)
      /\ DOMAIN accInvitations' = DOMAIN accInvitations \cup {Len(accInvitations) + 1}
      /\ \A w \in DOMAIN accInvitations : accInvitations'[w] = accInvitations[w]
    BY <1>1, <1>2, OneAdded DEF AccInv, AccTypes
<1>4. AccEvolves
    BY <1>2, <1>3 DEF AccEvolves
<1>5. accRequests' \in Seq(AccRequests) /\ AccRequestsSound'
    BY <1>2, <1>4, AccWaiting
<1>6. AccMade'
    BY <1>2, <1>3 DEF AccInv, AccMade
<1> QED BY <1>2, <1>3, <1>5, <1>6 DEF AccInv, AccTypes, AccTold

\* An account is made as its code is consumed, and signs in; or the request ends.
LEMMA AccAccept ==
    ASSUME AccInv, NEW i \in DOMAIN accRequests, Acc!Accept(i)
    PROVE  AccInv'
<1> DEFINE r == accRequests[i]
           v == r.invitation
<1>1. /\ r \in AccRequests /\ AccUnderWay(r) /\ r.op = "accept"
      /\ v \in Nat /\ r.role \in AccRoles
    BY AccRowTypes, AccRequestKinds DEF AccInv, AccUnderWay, Acc!Accept
<1>2. v \in DOMAIN accInvitations /\ accInvitations[v].role = r.role /\ v # 0
    <2>1. AccSound(r)
        BY <1>1 DEF AccInv, AccRequestsSound
    <2> QED BY <1>1, <2>1 DEF AccSound, AccInv, AccTypes
<1>3. CASE Acc!Usable(v)
    <2> DEFINE user == Acc!NewUser(r.role, v)
               signIn == [op |-> "signIn", user |-> Len(accUsers) + 1, told |-> 0, since |-> changes]
               new == [accInvitations[v] EXCEPT !.used = TRUE]
    <2>1. user \in AccUsers /\ user.from = v /\ user.role = r.role /\ user.reset = 0
        <3> HIDE DEF r, v
        <3> QED BY <1>1 DEF Acc!NewUser, AccUsers
    <2>2. /\ signIn \in AccRequests /\ signIn.op = "signIn" /\ signIn.user = Len(accUsers) + 1
          /\ signIn.since = changes /\ changes \in Nat
        BY DEF AccInv, AccTypes, AccRequests
    <2>3. /\ new \in AccInvitations /\ new.role = accInvitations[v].role /\ new.used
          /\ new.ended = accInvitations[v].ended
        <3>1. accInvitations[v] \in AccInvitations
            BY <1>2, AccRowTypes DEF AccInv
        <3> HIDE DEF v
        <3> QED BY <3>1 DEF AccInvitations
    <2>4. /\ accUsers' = Append(accUsers, user)
          /\ accInvitations' = [accInvitations EXCEPT ![v] = new]
          /\ accRequests' = [accRequests EXCEPT ![i] = signIn]
          /\ UNCHANGED <<accSessions, changes>>
        BY <1>3 DEF Acc!Accept
    <2>5. ~accInvitations[v].used /\ accInvitations[v].ended # "withdrawn"
        BY <1>3 DEF Acc!Usable
    <2> HIDE DEF r, v, user, signIn, new
    <2>6. /\ accUsers' \in Seq(AccUsers)
          /\ DOMAIN accUsers' = DOMAIN accUsers \cup {Len(accUsers) + 1}
          /\ Len(accUsers) + 1 \notin DOMAIN accUsers
          /\ accUsers'[Len(accUsers) + 1] = user
          /\ \A u \in DOMAIN accUsers : accUsers'[u] = accUsers[u]
        BY <2>1, <2>4, OneAdded DEF AccInv, AccTypes
    <2>7. /\ accInvitations' \in Seq(AccInvitations) /\ DOMAIN accInvitations' = DOMAIN accInvitations
          /\ \A w \in DOMAIN accInvitations : accInvitations'[w] = IF w = v THEN new ELSE accInvitations[w]
        BY <1>2, <2>3, <2>4, OneChanged DEF AccInv, AccTypes
    <2>8. AccEvolves
        BY <2>3, <2>4, <2>6, <2>7 DEF AccEvolves
    <2>9. accRequests' \in Seq(AccRequests) /\ AccRequestsSound'
        <3>1. /\ accRequests' \in Seq(AccRequests) /\ DOMAIN accRequests' = DOMAIN accRequests
              /\ \A j \in DOMAIN accRequests : accRequests'[j] = IF j = i THEN signIn ELSE accRequests[j]
            BY <2>2, <2>4, OneChanged DEF AccInv, AccTypes
        <3>2. ASSUME NEW q \in AccRequests, AccUnderWay(q)' PROVE AccSound(q)'
            <4>1. q = signIn \/ AccUnderWay(q)
                BY <3>1, <3>2 DEF AccUnderWay
            <4>2. ASSUME q = signIn PROVE AccSound(q)'
                BY <2>1, <2>2, <2>4, <2>6, <4>2 DEF AccSound
            <4> QED BY <2>8, <4>1, <4>2, AccStaysSound DEF AccInv, AccRequestsSound
        <3> QED BY <3>1, <3>2 DEF AccRequestsSound
    <2>10. AccTold'
        BY <2>4, <2>6 DEF AccInv, AccTold
    <2>11. AccMade'
        <3>1. \A u \in DOMAIN accUsers : accUsers[u].from # v
            BY <1>2, <2>5 DEF AccInv, AccMade
        <3>2. ASSUME NEW u \in DOMAIN accUsers', accUsers'[u].from # 0
              PROVE  /\ accUsers'[u].from \in DOMAIN accInvitations'
                     /\ accInvitations'[accUsers'[u].from].used
                     /\ accInvitations'[accUsers'[u].from].ended # "withdrawn"
                     /\ accInvitations'[accUsers'[u].from].role = accUsers'[u].role
            <4>1. CASE u = Len(accUsers) + 1
                BY <1>2, <2>1, <2>3, <2>5, <2>6, <2>7, <4>1
            <4>2. CASE u \in DOMAIN accUsers
                BY <2>6, <2>7, <3>1, <3>2, <4>2 DEF AccInv, AccMade
            <4> QED BY <2>6, <4>1, <4>2
        <3>3. \A u, w \in DOMAIN accUsers' :
                 accUsers'[u].from # 0 /\ accUsers'[u].from = accUsers'[w].from => u = w
            BY <2>1, <2>6, <3>1 DEF AccInv, AccMade
        <3> QED BY <3>2, <3>3 DEF AccMade
    <2> QED BY <2>2, <2>4, <2>6, <2>7, <2>9, <2>10, <2>11 DEF AccInv, AccTypes
<1>4. CASE ~Acc!Usable(v)
    <2>1. Acc!Ends(i) /\ UNCHANGED <<accUsers, accSessions, accInvitations, changes>>
        BY <1>4 DEF Acc!Accept
    <2>2. AccEvolves
        BY <2>1 DEF AccEvolves
    <2>3. accRequests' \in Seq(AccRequests) /\ AccRequestsSound'
        BY <2>1, <2>2, AccEnded
    <2> QED BY <2>1, <2>3 DEF AccInv, AccTypes, AccTold, AccMade
<1> QED BY <1>3, <1>4

\* Every step keeps the invariant.
LEMMA AccStep ==
    ASSUME AccInv, [Acc!Next]_Acc!vars
    PROVE  AccInv'
<1>1. CASE UNCHANGED Acc!vars
    <2>1. AccEvolves
        BY <1>1 DEF Acc!vars, AccEvolves
    <2>2. accRequests' \in Seq(AccRequests) /\ AccRequestsSound'
        BY <1>1, <2>1, AccWaiting DEF Acc!vars
    <2> QED BY <1>1, <2>2 DEF Acc!vars, AccInv, AccTypes, AccTold, AccMade
<1>2. ASSUME NEW s \in DOMAIN accSessions, NEW role \in {"admin", "member"}, Acc!Invite(s, role) PROVE AccInv'
    BY <1>2, AccInvite DEF AccRoles
<1> QED
    BY <1>1, <1>2, AccSomeStart, AccSignIn, AccLook, AccRevoke, AccChangePassword, AccResetPassword,
       AccAcknowledge, AccUpdate, AccEnds, AccAccept
       DEF Acc!Next

\* The inductive invariant holds of every reachable state of the tables.
THEOREM AccInvariant == Acc!Spec => []AccInv
BY AccInit, AccStep, PTL DEF Acc!Spec

\* The accounts made by an invitation are those the invariant ties to it.
LEMMA AccSays ==
    ASSUME AccInv
    PROVE  Acc!InvitedOnce
<1> SUFFICES ASSUME NEW v \in DOMAIN accInvitations
             PROVE  LET made == {u \in DOMAIN accUsers : accUsers[u].from = v}
                    IN  /\ Cardinality(made) =< 1
                        /\ accInvitations[v].ended = "withdrawn" => made = {}
                        /\ \A u \in made : accUsers[u].role = accInvitations[v].role
    BY AccLibrary DEF Acc!InvitedOnce
<1> DEFINE made == {u \in DOMAIN accUsers : accUsers[u].from = v}
<1>1. v # 0
    BY DEF AccInv, AccTypes
<1>2. \A u, w \in made : u = w
    BY <1>1 DEF AccInv, AccMade
<1>3. Cardinality(made) =< 1
    <2>1. CASE made = {}
        BY <2>1, FS_EmptySet
    <2>2. ASSUME NEW u \in made PROVE Cardinality(made) =< 1
        <3>1. made = {u}
            BY <1>2
        <3>2. Cardinality({u}) = 1
            BY FS_Singleton
        <3> HIDE DEF made
        <3> QED BY <3>1, <3>2
    <2> QED BY <2>1, <2>2
<1> QED BY <1>1, <1>3 DEF AccInv, AccMade

\* An invitation makes one user at most, with the role it offered, and none once it was
\* withdrawn, however many accept it meanwhile (`accept_invitation`).
THEOREM AccOnce == Acc!Spec => []Acc!InvitedOnce
BY AccSays, AccInvariant, PTL

\* A step lets the record of no reset go but so.
LEMMA AccTells ==
    ASSUME AccInv, [Acc!Next]_Acc!vars
    PROVE  [Acc!TellsOfReset]_Acc!vars
<1> SUFFICES ASSUME Acc!Next, NEW u \in DOMAIN accUsers, accUsers[u].reset # 0, accUsers'[u].reset = 0
             PROVE  \E s \in DOMAIN accSessions :
                        /\ accSessions[s].user = u /\ accSessions[s].live
                        /\ accSessions[s].told = accUsers[u].reset \/ accUsers[u].reset \in accSessions[s].during
    BY DEF Acc!TellsOfReset
<1>1. changes \in Nat /\ accUsers \in Seq(AccUsers)
    BY DEF AccInv, AccTypes
<1>2. PICK i \in DOMAIN accRequests : Acc!Acknowledge(i)
    <2>1. accUsers' # accUsers
        OBVIOUS
    <2>2. ASSUME NEW i \in DOMAIN accRequests, Acc!ResetPassword(i) PROVE FALSE
        BY <1>1, <2>2 DEF Acc!ResetPassword
    <2>3. ASSUME NEW t \in DOMAIN accUsers, NEW s \in DOMAIN accSessions,
                 NEW d \in BOOLEAN, NEW o \in BOOLEAN, Acc!Update(s, t, d, o) PROVE FALSE
        BY <1>1, <2>3 DEF Acc!Update
    <2>4. ASSUME NEW i \in DOMAIN accRequests, Acc!Accept(i) PROVE FALSE
        BY <1>1, <2>1, <2>4 DEF Acc!Accept
    <2> QED BY <2>1, <2>2, <2>3, <2>4
            DEF Acc!Next, Acc!StartSignIn, Acc!SignIn, Acc!Look, Acc!Revoke, Acc!StartChange, Acc!ChangePassword, Acc!StartReset,
                Acc!StartAcknowledge, Acc!Invite, Acc!Withdraw, Acc!Expire, Acc!StartAccept
<1> DEFINE s == accRequests[i].session
<1>3. s \in DOMAIN accSessions /\ accSessions[s].user = accRequests[i].user
    <2>1. accRequests[i] \in AccRequests /\ AccUnderWay(accRequests[i]) /\ accRequests[i].op = "acknowledge"
        BY <1>2, AccRowTypes DEF AccInv, AccUnderWay, Acc!Acknowledge
    <2> QED BY <2>1 DEF AccInv, AccRequestsSound, AccSound
<1>4. accSessions[s].live /\ accRequests[i].user = u
    BY <1>1, <1>2 DEF Acc!Acknowledge, Acc!StillLive
<1> QED BY <1>3, <1>4 DEF AccInv, AccTold

\* The record of a password's reset goes only as a session that was told of it says so, or
\* one that signed in meanwhile (`acknowledge_password_reset`).
THEOREM AccTellsOfResets == Acc!Spec => Acc!ResetsTold
BY AccInvariant, AccTells, PTL DEF Acc!Spec, Acc!ResetsTold

HIDE DEF accUsers, accSessions, accInvitations, accRequests, changes

-----------------------------------------------------------------------------
(* The counts of turns and tokens *)

\* The variables of Allowance, by their names.
meterNow == x1
meterTurns == x2
tokens == x3
reported == x4
totals == x5
resets == x6
since == x7
meterPass == x8
announced == x9
meterFaults == x10
meterHistory == x11
started == x12
meterMissed == x13
USE DEF meterNow, meterTurns, tokens, reported, totals, resets, since, meterPass,
        announced, meterFaults, meterHistory, started, meterMissed

\* The windows and the clock's bound are natural numbers.
MeterConstants ==
    /\ MeterMaxTime \in Nat /\ TurnWindow \in Nat /\ TokenWindow \in Nat

\* The rows of a table: how much was counted at each time.
MeterRows == [Meter!Times -> Nat]

\* A pass of the announcer: when it began, if it runs, and whether it has something to
\* announce.
MeterPasses == [at : Meter!Times \cup {Meter!NoTime}, announces : BOOLEAN]

\* The counts, the limits and the pass.
MeterTypes ==
    /\ meterNow \in Nat /\ meterNow =< MeterMaxTime
    /\ meterTurns \in MeterRows /\ tokens \in MeterRows /\ meterHistory \in MeterRows /\ started \in MeterRows
    /\ reported \in [Threads -> Nat] /\ totals \in [Threads -> Nat]
    /\ resets \in Nat \cup {Meter!NoTime}
    /\ since \in Nat /\ since =< meterNow
    /\ meterPass \in MeterPasses
    /\ meterPass.at =< meterNow
    /\ meterPass.at = Meter!NoTime => ~meterPass.announces
    /\ meterPass.at # Meter!NoTime => since =< meterPass.at
    /\ announced \in Nat
    /\ meterMissed \in BOOLEAN

\* Rows hold what was counted and not taken back, and none was deleted that a
\* window counts, or may have left since the last pass.
MeterKept ==
    \A t \in Meter!Times :
        /\ tokens[t] =< meterHistory[t] /\ meterTurns[t] =< started[t]
        /\ t > since - TokenWindow => tokens[t] = meterHistory[t]
        /\ t > since - TurnWindow => meterTurns[t] = started[t]

\* Whether the meter was announced after all that left a window, or reset, by
\* a time.
MeterAnnouncedBy(time) ==
    /\ \A t \in Meter!Times : /\ meterHistory[t] > 0 /\ t + TokenWindow =< time => announced >= t + TokenWindow
                              /\ started[t] > 0 /\ t + TurnWindow =< time => announced >= t + TurnWindow
    /\ resets # Meter!NoTime /\ resets =< time => announced >= resets

\* It was by the last pass, and by the one under way once that has announced
\* it or found nothing to.
MeterAnnounced ==
    ~meterMissed =>
        /\ MeterAnnouncedBy(since)
        /\ meterPass.at # Meter!NoTime /\ ~meterPass.announces => MeterAnnouncedBy(meterPass.at)

\* The inductive invariant: that what left a window was announced needs what a pass under
\* way has still to announce.
MeterInv == MeterTypes /\ MeterKept /\ MeterAnnounced

\* Nothing is counted at first.
LEMMA MeterInit ==
    ASSUME MeterConstants, Meter!Init
    PROVE  MeterInv
<1>1. MeterTypes
    <2>1. 0 \in Meter!Times /\ Meter!None \in MeterRows
        BY DEF MeterConstants, MeterRows, Meter!Times, Meter!None
    <2>2. meterPass \in MeterPasses /\ meterPass.at = Meter!NoTime /\ ~meterPass.announces
        BY DEF Meter!Init, Meter!Idle, MeterPasses
    <2>3. reported \in [Threads -> Nat] /\ totals \in [Threads -> Nat]
        BY DEF Meter!Init
    <2>4. resets \in Nat \cup {Meter!NoTime} /\ meterMissed \in BOOLEAN
        BY DEF Meter!Init
    <2>5. /\ meterNow \in Nat /\ meterNow =< MeterMaxTime /\ since \in Nat /\ since =< meterNow
          /\ announced \in Nat
          /\ Meter!NoTime =< meterNow
        BY DEF MeterConstants, Meter!Init, Meter!NoTime
    <2>6. meterTurns \in MeterRows /\ tokens \in MeterRows /\ meterHistory \in MeterRows /\ started \in MeterRows
        BY <2>1 DEF Meter!Init
    <2> QED BY <2>2, <2>3, <2>4, <2>5, <2>6 DEF MeterTypes
<1>2. MeterKept
    BY DEF MeterConstants, Meter!Init, MeterKept, Meter!Times, Meter!None
<1>3. MeterAnnounced
    <2>1. \A t \in Meter!Times : meterHistory[t] = 0 /\ started[t] = 0
        BY DEF Meter!Init, Meter!None
    <2>2. resets = Meter!NoTime /\ since = 0 /\ meterPass.at = Meter!NoTime
        BY DEF Meter!Init, Meter!Idle
    <2> QED BY <2>1, <2>2 DEF MeterAnnounced, MeterAnnouncedBy
<1> QED BY <1>1, <1>2, <1>3 DEF MeterInv

\* Whatever changed, the meter is up to date once it is announced.
LEMMA MeterEmits ==
    ASSUME MeterConstants, MeterInv, Meter!EmitUsage, MeterTypes', meterNow' = meterNow
    PROVE  MeterAnnounced'
<1>1. announced' = meterNow /\ meterNow \in Nat
    BY DEF Meter!EmitUsage, MeterInv, MeterTypes
<1>2. since' \in Nat /\ since' =< meterNow /\ meterPass'.at =< meterNow /\ (meterPass'.at = Meter!NoTime \/ meterPass'.at \in Meter!Times)
    BY DEF MeterTypes, MeterPasses
<1>3. resets' \in Nat \cup {Meter!NoTime}
    BY DEF MeterTypes
<1>4. ASSUME NEW time \in Nat, time =< meterNow
      PROVE  /\ \A t \in Meter!Times : /\ meterHistory'[t] > 0 /\ t + TokenWindow =< time =>
                                           announced' >= t + TokenWindow
                                       /\ started'[t] > 0 /\ t + TurnWindow =< time =>
                                              announced' >= t + TurnWindow
             /\ resets' # Meter!NoTime /\ resets' =< time => announced' >= resets'
    <2>1. ASSUME NEW t \in Meter!Times, NEW w \in Nat, t + w =< time
          PROVE  announced' >= t + w
        BY <1>1, <1>4, <2>1 DEF Meter!Times, MeterConstants
    <2>2. resets' # Meter!NoTime /\ resets' =< time => announced' >= resets'
        BY <1>1, <1>3, <1>4
    <2> QED BY <2>1, <2>2 DEF MeterConstants
<1>5. MeterAnnouncedBy(since)'
    BY <1>2, <1>4 DEF MeterAnnouncedBy
<1>6. meterPass'.at # Meter!NoTime => MeterAnnouncedBy(meterPass.at)'
    <2> SUFFICES ASSUME meterPass'.at # Meter!NoTime PROVE MeterAnnouncedBy(meterPass.at)'
        OBVIOUS
    <2>1. meterPass'.at \in Nat /\ meterPass'.at =< meterNow
        BY <1>2 DEF Meter!Times, MeterConstants
    <2> QED BY <2>1, <1>4 DEF MeterAnnouncedBy
<1> QED BY <1>5, <1>6 DEF MeterAnnounced

\* The two counters' rows after one of them is added to.
LEMMA MeterAdds ==
    ASSUME NEW rowsNow \in MeterRows, NEW t \in Meter!Times, NEW n \in Nat
    PROVE  LET after == [rowsNow EXCEPT ![t] = @ + n]
           IN  /\ after \in MeterRows /\ after[t] = rowsNow[t] + n
               /\ \A u \in Meter!Times : u # t => after[u] = rowsNow[u]
    BY DEF MeterRows

\* A turn is counted as it starts.
LEMMA MeterReserves ==
    ASSUME MeterConstants, MeterInv, Meter!ReserveTurn
    PROVE  MeterInv'
<1>1. meterNow \in Meter!Times
    BY DEF MeterInv, MeterTypes, Meter!Times, MeterConstants
<1>2. /\ meterTurns' = [meterTurns EXCEPT ![meterNow] = @ + 1]
      /\ started' = [started EXCEPT ![meterNow] = @ + 1]
      /\ meterTurns \in MeterRows /\ started \in MeterRows
    BY DEF Meter!ReserveTurn, MeterInv, MeterTypes
<1>3. meterTurns' \in MeterRows /\ started' \in MeterRows
    BY <1>1, <1>2, MeterAdds
<1>4. MeterTypes'
    BY <1>3 DEF Meter!ReserveTurn, Meter!EmitUsage, MeterInv, MeterTypes
<1>5. MeterKept'
    <2> SUFFICES ASSUME NEW t \in Meter!Times
                 PROVE  /\ tokens'[t] =< meterHistory'[t] /\ meterTurns'[t] =< started'[t]
                        /\ t > since' - TokenWindow => tokens'[t] = meterHistory'[t]
                        /\ t > since' - TurnWindow => meterTurns'[t] = started'[t]
        BY DEF MeterKept
    <2>1. UNCHANGED <<tokens, meterHistory, since>>
        BY DEF Meter!ReserveTurn
    <2>2. meterTurns[t] \in Nat /\ started[t] \in Nat
        BY <1>2 DEF MeterRows
    <2>3. CASE t = meterNow
        <3>1. meterTurns'[t] = meterTurns[t] + 1 /\ started'[t] = started[t] + 1
            BY <1>1, <1>2, <2>3, MeterAdds
        <3> QED BY <2>1, <2>2, <3>1 DEF MeterInv, MeterKept
    <2>4. CASE t # meterNow
        <3>1. meterTurns'[t] = meterTurns[t] /\ started'[t] = started[t]
            BY <1>1, <1>2, <2>4, MeterAdds
        <3> QED BY <2>1, <3>1 DEF MeterInv, MeterKept
    <2> QED BY <2>3, <2>4
<1>6. MeterAnnounced'
    BY <1>4, MeterEmits DEF Meter!ReserveTurn
<1> QED BY <1>4, <1>5, <1>6 DEF MeterInv

\* What was announced stays so while nothing it is told by changes.
LEMMA MeterSame ==
    ASSUME MeterInv, UNCHANGED <<since, meterPass, resets, meterHistory, started, announced, meterMissed>>
    PROVE  MeterAnnounced'
    BY DEF MeterInv, MeterAnnounced, MeterAnnouncedBy

\* A step that leaves the rows keeps what is told of them.
LEMMA MeterRowsSame ==
    ASSUME MeterInv, UNCHANGED <<since, meterTurns, tokens, meterHistory, started>>
    PROVE  MeterKept'
    BY DEF MeterInv, MeterKept

\* A turn that could not be started is no longer counted.
LEMMA MeterReleases ==
    ASSUME MeterConstants, MeterInv, NEW at \in Meter!Times, NEW ok \in BOOLEAN, Meter!ReleaseTurn(at, ok)
    PROVE  MeterInv'
<1>1. CASE ~ok
    <2>1. UNCHANGED <<meterNow, meterTurns, tokens, reported, totals, resets, since, meterPass, meterHistory, started,
                      announced, meterMissed>>
        BY <1>1 DEF Meter!ReleaseTurn
    <2>2. MeterTypes'
        BY <2>1 DEF MeterInv, MeterTypes
    <2> QED BY <2>1, <2>2, MeterSame, MeterRowsSame DEF MeterInv
<1>2. CASE ok
    <2>1. /\ meterTurns' = [meterTurns EXCEPT ![at] = @ - 1] /\ started' = [started EXCEPT ![at] = @ - 1]
          /\ Meter!EmitUsage /\ meterTurns[at] > 0
          /\ UNCHANGED <<meterNow, tokens, reported, totals, resets, since, meterPass, meterHistory>>
        BY <1>2 DEF Meter!ReleaseTurn
    <2>2. /\ meterTurns \in MeterRows /\ started \in MeterRows /\ meterTurns[at] =< started[at]
          /\ meterTurns[at] \in Nat /\ started[at] \in Nat
        BY DEF MeterInv, MeterTypes, MeterKept, MeterRows
    <2>3. meterTurns[at] - 1 \in Nat /\ started[at] - 1 \in Nat
        BY <2>1, <2>2
    <2>4. meterTurns' \in MeterRows /\ started' \in MeterRows
        BY <2>1, <2>2, <2>3 DEF MeterRows
    <2>5. MeterTypes'
        BY <2>1, <2>4 DEF Meter!EmitUsage, MeterInv, MeterTypes
    <2>6. MeterKept'
        <3> SUFFICES ASSUME NEW t \in Meter!Times
                     PROVE  /\ tokens'[t] =< meterHistory'[t] /\ meterTurns'[t] =< started'[t]
                            /\ t > since' - TokenWindow => tokens'[t] = meterHistory'[t]
                            /\ t > since' - TurnWindow => meterTurns'[t] = started'[t]
            BY DEF MeterKept
        <3>1. CASE t = at
            <4>1. meterTurns'[t] = meterTurns[t] - 1 /\ started'[t] = started[t] - 1
                BY <2>1, <2>2, <3>1 DEF MeterRows
            <4> QED BY <2>1, <2>2, <3>1, <4>1 DEF MeterInv, MeterKept
        <3>2. CASE t # at
            <4>1. meterTurns'[t] = meterTurns[t] /\ started'[t] = started[t]
                BY <2>1, <2>2, <3>2 DEF MeterRows
            <4> QED BY <2>1, <4>1 DEF MeterInv, MeterKept
        <3> QED BY <3>1, <3>2
    <2>7. MeterAnnounced'
        BY <2>1, <2>5, MeterEmits
    <2> QED BY <2>5, <2>6, <2>7 DEF MeterInv
<1> QED BY <1>1, <1>2

\* Tokens are counted, from the total a thread reported.
LEMMA MeterUses ==
    ASSUME MeterInv, NEW t \in Threads, Meter!Uses(t) \/ Meter!CountsAnew(t)
    PROVE  MeterInv'
<1>1. totals \in [Threads -> Nat]
    BY DEF MeterInv, MeterTypes
<1>2. totals' \in [Threads -> Nat]
    BY <1>1 DEF Meter!Uses, Meter!CountsAnew
<1>3. UNCHANGED <<meterNow, meterTurns, tokens, reported, resets, since, meterPass, meterHistory, started,
                  announced, meterMissed>>
    BY DEF Meter!Uses, Meter!CountsAnew
<1>4. MeterTypes'
    BY <1>2, <1>3 DEF MeterInv, MeterTypes
<1> QED BY <1>3, <1>4, MeterSame, MeterRowsSame DEF MeterInv

\* A thread's report: what it adds to the rows is what it adds to the history.
LEMMA MeterReports ==
    ASSUME MeterConstants, MeterInv, NEW t \in Threads, Meter!Reports(t)
    PROVE  MeterInv'
<1>1. meterNow \in Meter!Times
    BY DEF MeterInv, MeterTypes, Meter!Times, MeterConstants
<1>2. totals[t] \in Nat /\ reported[t] \in Nat /\ reported \in [Threads -> Nat]
    BY DEF MeterInv, MeterTypes
<1>3. PICK n \in Nat : n = Meter!Growth(t)
    BY <1>2 DEF Meter!Growth
<1>4. n = IF totals[t] < reported[t] THEN 0 ELSE totals[t] - reported[t]
    BY <1>2, <1>3 DEF Meter!Growth
<1>5. /\ tokens' = [tokens EXCEPT ![meterNow] = @ + n]
      /\ meterHistory' = [meterHistory EXCEPT ![meterNow] = @ + n]
      /\ Meter!EmitUsage /\ reported' = [reported EXCEPT ![t] = totals[t]]
      /\ UNCHANGED <<meterNow, meterTurns, totals, resets, since, meterPass, meterFaults, started>>
    BY <1>3, <1>4 DEF Meter!Reports
<1>6. tokens \in MeterRows /\ meterHistory \in MeterRows
    BY DEF MeterInv, MeterTypes
<1>7. tokens' \in MeterRows /\ meterHistory' \in MeterRows /\ reported' \in [Threads -> Nat]
    BY <1>1, <1>2, <1>5, <1>6, MeterAdds
<1>8. MeterTypes'
    BY <1>5, <1>7 DEF Meter!EmitUsage, MeterInv, MeterTypes
<1>9. MeterKept'
    <2> SUFFICES ASSUME NEW u \in Meter!Times
                 PROVE  /\ tokens'[u] =< meterHistory'[u] /\ meterTurns'[u] =< started'[u]
                        /\ u > since' - TokenWindow => tokens'[u] = meterHistory'[u]
                        /\ u > since' - TurnWindow => meterTurns'[u] = started'[u]
        BY DEF MeterKept
    <2>1. tokens[u] \in Nat /\ meterHistory[u] \in Nat
        BY <1>6 DEF MeterRows
    <2>2. CASE u = meterNow
        <3>1. tokens'[u] = tokens[u] + n /\ meterHistory'[u] = meterHistory[u] + n
            BY <1>1, <1>5, <1>6, <2>2, MeterAdds
        <3> QED BY <1>5, <2>1, <3>1 DEF MeterInv, MeterKept
    <2>3. CASE u # meterNow
        <3>1. tokens'[u] = tokens[u] /\ meterHistory'[u] = meterHistory[u]
            BY <1>1, <1>5, <1>6, <2>3, MeterAdds
        <3> QED BY <1>5, <3>1 DEF MeterInv, MeterKept
    <2> QED BY <2>2, <2>3
<1>10. MeterAnnounced'
    BY <1>5, <1>8, MeterEmits
<1> QED BY <1>8, <1>9, <1>10 DEF MeterInv

\* Codex says when its limits reset.
LEMMA MeterLimits ==
    ASSUME MeterConstants, MeterInv, NEW ok \in BOOLEAN, Meter!RateLimits(ok)
    PROVE  MeterInv'
<1>1. UNCHANGED <<meterNow, meterTurns, tokens, reported, totals, since, meterPass, meterHistory, started>>
    BY DEF Meter!RateLimits
<1>2. meterNow \in Nat /\ announced \in Nat /\ meterMissed \in BOOLEAN
    BY DEF MeterInv, MeterTypes
<1>3. resets' \in Nat \cup {Meter!NoTime}
    BY <1>2 DEF Meter!RateLimits
<1>4. announced' \in Nat /\ meterMissed' \in BOOLEAN
    BY <1>2 DEF Meter!RateLimits, Meter!EmitUsage
<1>5. MeterTypes'
    BY <1>1, <1>3, <1>4 DEF MeterInv, MeterTypes
<1>6. MeterKept'
    BY <1>1, MeterRowsSame
<1>7. MeterAnnounced'
    <2>1. CASE ok
        BY <1>1, <1>5, <2>1, MeterEmits DEF Meter!RateLimits
    <2>2. CASE ~ok
        BY <2>2 DEF Meter!RateLimits, MeterAnnounced
    <2> QED BY <2>1, <2>2
<1> QED BY <1>5, <1>6, <1>7 DEF MeterInv

\* What left a window by now had not by the last pass, or was announced, and
\* its row is there for the pass to find.
LEMMA MeterStarts ==
    ASSUME MeterConstants, MeterInv, Meter!StartPass
    PROVE  MeterInv'
<1>1. /\ UNCHANGED <<meterNow, meterTurns, tokens, reported, totals, resets, since, announced, meterHistory,
                     started, meterMissed>>
      /\ since < meterNow
      /\ meterPass' = [at |-> meterNow,
                       announces |-> \/ Meter!Left(meterTurns, TurnWindow) \/ Meter!Left(tokens, TokenWindow)
                                     \/ since < resets /\ resets =< meterNow]
    BY DEF Meter!StartPass
<1>2. /\ meterNow \in Meter!Times /\ meterNow \in Nat /\ since \in Nat /\ since =< meterNow
      /\ resets \in Nat \cup {Meter!NoTime} /\ TurnWindow \in Nat /\ TokenWindow \in Nat
    BY DEF MeterInv, MeterTypes, Meter!Times, MeterConstants
<1>3. meterPass' \in MeterPasses /\ meterPass'.at = meterNow
    BY <1>1, <1>2 DEF MeterPasses
<1>4. meterPass'.at # Meter!NoTime /\ since =< meterNow /\ meterNow =< meterNow
    BY <1>2, <1>3 DEF Meter!NoTime
<1>5. MeterTypes'
    BY <1>1, <1>3, <1>4 DEF MeterInv, MeterTypes
<1>6. MeterKept'
    BY <1>1, MeterRowsSame
<1>7. MeterAnnounced'
    <2> SUFFICES ASSUME ~meterMissed
                 PROVE MeterAnnouncedBy(since)' /\ (~meterPass'.announces => MeterAnnouncedBy(meterPass.at)')
        BY <1>1 DEF MeterAnnounced
    <2>1. MeterAnnouncedBy(since)
        BY DEF MeterInv, MeterAnnounced
    <2>2. MeterAnnouncedBy(since)'
        BY <1>1, <2>1 DEF MeterAnnouncedBy
    <2>3. ASSUME ~meterPass'.announces PROVE MeterAnnouncedBy(meterPass.at)'
        <3>1. ~Meter!Left(meterTurns, TurnWindow) /\ ~Meter!Left(tokens, TokenWindow) /\ ~(since < resets /\ resets =< meterNow)
            BY <1>1, <2>3
        <3>2. ASSUME NEW t \in Meter!Times, meterHistory[t] > 0, t + TokenWindow =< meterNow
              PROVE  announced >= t + TokenWindow
            <4>1. CASE t + TokenWindow =< since
                BY <2>1, <3>2, <4>1 DEF MeterAnnouncedBy
            <4>2. CASE t + TokenWindow > since
                <5>1. t \in Nat
                    BY DEF Meter!Times
                <5>2. t > since - TokenWindow /\ t =< meterNow - TokenWindow
                    BY <1>2, <3>2, <4>2, <5>1
                <5>3. tokens[t] > 0
                    BY <3>2, <5>2 DEF MeterInv, MeterKept
                <5> QED BY <3>1, <5>2, <5>3 DEF Meter!Left
            <4> QED BY <1>2, <4>1, <4>2 DEF Meter!Times
        <3>3. ASSUME NEW t \in Meter!Times, started[t] > 0, t + TurnWindow =< meterNow
              PROVE  announced >= t + TurnWindow
            <4>1. CASE t + TurnWindow =< since
                BY <2>1, <3>3, <4>1 DEF MeterAnnouncedBy
            <4>2. CASE t + TurnWindow > since
                <5>1. t \in Nat
                    BY DEF Meter!Times
                <5>2. t > since - TurnWindow /\ t =< meterNow - TurnWindow
                    BY <1>2, <3>3, <4>2, <5>1
                <5>3. meterTurns[t] > 0
                    BY <3>3, <5>2 DEF MeterInv, MeterKept
                <5> QED BY <3>1, <5>2, <5>3 DEF Meter!Left
            <4> QED BY <1>2, <4>1, <4>2 DEF Meter!Times
        <3>4. ASSUME resets # Meter!NoTime, resets =< meterNow PROVE announced >= resets
            <4>1. resets =< since
                BY <1>2, <3>1, <3>4
            <4> QED BY <2>1, <3>4, <4>1 DEF MeterAnnouncedBy
        <3> QED BY <1>1, <1>3, <3>2, <3>3, <3>4 DEF MeterAnnouncedBy
    <2> QED BY <2>2, <2>3
<1> QED BY <1>5, <1>6, <1>7 DEF MeterInv

\* A pass of the announcer reads the counts and announces them.
LEMMA MeterAnnounces ==
    ASSUME MeterConstants, MeterInv, NEW ok \in BOOLEAN, NEW read \in BOOLEAN, Meter!Announce(ok, read)
    PROVE  MeterInv'
<1>1. /\ UNCHANGED <<meterNow, meterTurns, tokens, reported, totals, since, meterHistory, started>>
      /\ meterPass' = [meterPass EXCEPT !.announces = FALSE] /\ meterPass.announces
      /\ resets' = IF read /\ resets # Meter!NoTime /\ resets =< meterPass.at THEN meterNow + 1 ELSE resets
    BY DEF Meter!Announce
<1>2. /\ meterNow \in Nat /\ announced \in Nat /\ meterMissed \in BOOLEAN /\ meterPass \in MeterPasses
      /\ resets \in Nat \cup {Meter!NoTime}
    BY DEF MeterInv, MeterTypes
<1>3. meterPass' \in MeterPasses /\ meterPass'.at = meterPass.at /\ ~meterPass'.announces
    BY <1>1, <1>2 DEF MeterPasses
<1>4. resets' \in Nat \cup {Meter!NoTime}
    BY <1>1, <1>2
<1>5. announced' \in Nat /\ meterMissed' \in BOOLEAN
    BY <1>2 DEF Meter!Announce, Meter!EmitUsage
<1>6. MeterTypes'
    BY <1>1, <1>3, <1>4, <1>5 DEF MeterInv, MeterTypes
<1>7. MeterKept'
    BY <1>1, MeterRowsSame
<1>8. MeterAnnounced'
    <2>1. CASE ok
        BY <1>1, <1>6, <2>1, MeterEmits DEF Meter!Announce
    <2>2. CASE ~ok
        BY <2>2 DEF Meter!Announce, MeterAnnounced
    <2> QED BY <2>1, <2>2
<1> QED BY <1>6, <1>7, <1>8 DEF MeterInv

\* A row is deleted once it is older than its window by the pass's time, which
\* is where the next pass starts.
LEMMA MeterPrunes ==
    ASSUME MeterConstants, MeterInv, NEW ok \in BOOLEAN, Meter!Prune(ok)
    PROVE  MeterInv'
<1>1. /\ meterPass # Meter!Idle /\ (ok => ~meterPass.announces)
      /\ meterPass' = Meter!Idle /\ since' = IF ok THEN meterPass.at ELSE since
      /\ UNCHANGED <<meterNow, reported, totals, resets, announced, meterHistory, started, meterMissed>>
    BY DEF Meter!Prune, Meter!NextSince
<1>2. /\ meterPass \in MeterPasses /\ meterNow \in Nat /\ since \in Nat /\ since =< meterNow
      /\ meterPass.at =< meterNow
      /\ meterTurns \in MeterRows /\ tokens \in MeterRows /\ meterHistory \in MeterRows /\ started \in MeterRows
    BY DEF MeterInv, MeterTypes
<1>3. meterPass.at # Meter!NoTime
    <2>1. ASSUME meterPass.at = Meter!NoTime PROVE FALSE
        <3>1. ~meterPass.announces
            BY <2>1 DEF MeterInv, MeterTypes
        <3>2. meterPass = Meter!Idle
            BY <1>2, <2>1, <3>1 DEF MeterPasses, Meter!Idle
        <3> QED BY <1>1, <3>2
    <2> QED BY <2>1
<1>4. meterPass.at \in Nat /\ since =< meterPass.at
    BY <1>2, <1>3 DEF MeterPasses, Meter!Times, MeterInv, MeterTypes, MeterConstants
<1>5. since' \in Nat /\ since' =< meterNow
    BY <1>1, <1>2, <1>4
<1>6. meterPass' \in MeterPasses /\ meterPass'.at = Meter!NoTime /\ ~meterPass'.announces /\ Meter!NoTime =< meterNow
    BY <1>1, <1>2 DEF Meter!Idle, MeterPasses, Meter!NoTime
<1>7. meterTurns' \in MeterRows /\ tokens' \in MeterRows
    BY <1>2 DEF Meter!Prune, Meter!Kept, MeterRows
<1>8. MeterTypes'
    BY <1>1, <1>5, <1>6, <1>7 DEF MeterInv, MeterTypes
<1>9. MeterKept'
    <2>1. CASE ~ok
        BY <1>1, <2>1, MeterRowsSame DEF Meter!Prune
    <2>2. CASE ok
        <3> SUFFICES ASSUME NEW t \in Meter!Times
                     PROVE  /\ tokens'[t] =< meterHistory'[t] /\ meterTurns'[t] =< started'[t]
                            /\ t > since' - TokenWindow => tokens'[t] = meterHistory'[t]
                            /\ t > since' - TurnWindow => meterTurns'[t] = started'[t]
            BY DEF MeterKept
        <3>1. since' = meterPass.at /\ meterHistory' = meterHistory /\ started' = started
            BY <1>1, <2>2
        <3>2. /\ tokens'[t] = IF t > meterPass.at - TokenWindow THEN tokens[t] ELSE 0
              /\ meterTurns'[t] = IF t > meterPass.at - TurnWindow THEN meterTurns[t] ELSE 0
            BY <2>2 DEF Meter!Prune, Meter!Kept
        <3>3. /\ tokens[t] \in Nat /\ meterTurns[t] \in Nat /\ meterHistory[t] \in Nat /\ started[t] \in Nat
              /\ t \in Nat
            BY <1>2 DEF MeterRows, Meter!Times
        <3>4. /\ t > meterPass.at - TokenWindow => t > since - TokenWindow
              /\ t > meterPass.at - TurnWindow => t > since - TurnWindow
            BY <1>2, <1>4, <3>3 DEF MeterConstants
        <3> QED BY <3>1, <3>2, <3>3, <3>4 DEF MeterInv, MeterKept
    <2> QED BY <2>1, <2>2
<1>10. MeterAnnounced'
    <2> SUFFICES ASSUME ~meterMissed PROVE MeterAnnouncedBy(since)'
        BY <1>1, <1>6 DEF MeterAnnounced
    <2>1. CASE ok
        <3>1. MeterAnnouncedBy(meterPass.at)
            BY <1>1, <1>3, <2>1 DEF MeterInv, MeterAnnounced
        <3> QED BY <1>1, <2>1, <3>1 DEF MeterAnnouncedBy
    <2>2. CASE ~ok
        <3>1. MeterAnnouncedBy(since)
            BY DEF MeterInv, MeterAnnounced
        <3> QED BY <1>1, <2>2, <3>1 DEF MeterAnnouncedBy
    <2> QED BY <2>1, <2>2
<1> QED BY <1>8, <1>9, <1>10 DEF MeterInv

\* A restart loses the pass.
LEMMA MeterRestarts ==
    ASSUME MeterConstants, MeterInv, Meter!Restart
    PROVE  MeterInv'
<1>1. /\ since' = meterNow /\ meterPass' = Meter!Idle /\ resets' = Meter!NoTime /\ meterMissed' = TRUE
      /\ UNCHANGED <<meterNow, meterTurns, tokens, reported, totals, announced, meterHistory, started>>
    BY DEF Meter!Restart
<1>2. meterNow \in Nat /\ since \in Nat /\ since =< meterNow
    BY DEF MeterInv, MeterTypes
<1>3. meterPass' \in MeterPasses /\ meterPass'.at = Meter!NoTime /\ ~meterPass'.announces /\ Meter!NoTime =< meterNow
    BY <1>1, <1>2 DEF Meter!Idle, MeterPasses, Meter!NoTime
<1>4. resets' \in Nat \cup {Meter!NoTime} /\ meterMissed' \in BOOLEAN /\ meterNow =< meterNow
    BY <1>1, <1>2
<1>5. MeterTypes'
    BY <1>1, <1>2, <1>3, <1>4 DEF MeterInv, MeterTypes
<1>6. MeterKept'
    <2> SUFFICES ASSUME NEW t \in Meter!Times
                 PROVE  /\ tokens'[t] =< meterHistory'[t] /\ meterTurns'[t] =< started'[t]
                        /\ t > since' - TokenWindow => tokens'[t] = meterHistory'[t]
                        /\ t > since' - TurnWindow => meterTurns'[t] = started'[t]
        BY DEF MeterKept
    <2>1. /\ t > meterNow - TokenWindow => t > since - TokenWindow
          /\ t > meterNow - TurnWindow => t > since - TurnWindow
        BY <1>2 DEF MeterConstants, Meter!Times
    <2> QED BY <1>1, <2>1 DEF MeterInv, MeterKept
<1>7. MeterAnnounced'
    BY <1>1 DEF MeterAnnounced
<1> QED BY <1>5, <1>6, <1>7 DEF MeterInv

\* Time passes.
LEMMA MeterClock ==
    ASSUME MeterConstants, MeterInv, Meter!Clock
    PROVE  MeterInv'
<1>1. /\ meterNow < MeterMaxTime /\ meterNow' = meterNow + 1
      /\ UNCHANGED <<meterTurns, tokens, reported, totals, resets, since, meterPass, announced, meterHistory,
                     started, meterMissed>>
    BY DEF Meter!Clock
<1>2. /\ meterNow \in Nat /\ since \in Nat /\ since =< meterNow /\ meterPass.at =< meterNow
      /\ meterPass \in MeterPasses
      /\ meterPass.at = Meter!NoTime \/ meterPass.at \in Nat
    BY DEF MeterInv, MeterTypes, MeterPasses, Meter!Times
<1>3. /\ meterNow' \in Nat /\ meterNow' =< MeterMaxTime /\ since =< meterNow' /\ meterPass.at =< meterNow'
    BY <1>1, <1>2 DEF MeterConstants, Meter!NoTime
<1>4. MeterTypes'
    BY <1>1, <1>3 DEF MeterInv, MeterTypes
<1> QED BY <1>1, <1>4, MeterSame, MeterRowsSame DEF MeterInv

\* Every step keeps the invariant.
LEMMA MeterStep ==
    ASSUME MeterConstants, MeterInv, [Meter!Next]_Meter!vars
    PROVE  MeterInv'
<1>1. CASE UNCHANGED Meter!vars
    <2>1. UNCHANGED <<meterNow, meterTurns, tokens, reported, totals, resets, since, meterPass, announced,
                      meterHistory, started, meterMissed>>
        BY <1>1 DEF Meter!vars
    <2>2. MeterTypes'
        BY <2>1 DEF MeterInv, MeterTypes
    <2> QED BY <2>1, <2>2, MeterSame, MeterRowsSame DEF MeterInv
<1>2. CASE Meter!Next
    <2>1. CASE Meter!ReserveTurn
        BY <2>1, MeterReserves
    <2>2. CASE \E at \in Meter!Times, ok \in BOOLEAN : Meter!ReleaseTurn(at, ok)
        BY <2>2, MeterReleases
    <2>3. CASE \E t \in Threads : Meter!Uses(t) \/ Meter!CountsAnew(t) \/ Meter!Reports(t)
        BY <2>3, MeterUses, MeterReports
    <2>4. CASE \E ok \in BOOLEAN : Meter!RateLimits(ok)
        BY <2>4, MeterLimits
    <2>5. CASE Meter!StartPass
        BY <2>5, MeterStarts
    <2>6. CASE \E ok, read \in BOOLEAN : Meter!Announce(ok, read)
        BY <2>6, MeterAnnounces
    <2>7. CASE \E ok \in BOOLEAN : Meter!Prune(ok)
        BY <2>7, MeterPrunes
    <2>8. CASE Meter!Restart
        BY <2>8, MeterRestarts
    <2>9. CASE Meter!Clock
        BY <2>9, MeterClock
    <2> QED BY <1>2, <2>1, <2>2, <2>3, <2>4, <2>5, <2>6, <2>7, <2>8, <2>9 DEF Meter!Next
<1> QED BY <1>1, <1>2

\* The inductive invariant holds of every reachable state of the counts.
THEOREM MeterInvariant ==
    ASSUME MeterConstants
    PROVE  Meter!Spec => []MeterInv
<1>1. Meter!Init => MeterInv
    BY MeterInit
<1>2. MeterInv /\ [Meter!Next]_Meter!vars => MeterInv'
    BY MeterStep
<1> QED BY <1>1, <1>2, PTL DEF Meter!Spec

\* The invariant says that the counts of the windows are what was used in them.
LEMMA MeterExact ==
    ASSUME MeterConstants, MeterInv
    PROVE  Meter!CountsExact
<1>1. meterNow \in Nat /\ since \in Nat /\ since =< meterNow
    BY DEF MeterInv, MeterTypes
<1>2. ASSUME NEW w \in Nat, NEW t \in Meter!Times, t > meterNow - w
      PROVE  t > since - w
    BY <1>1, <1>2 DEF Meter!Times
<1>3. [t \in {u \in Meter!Times : u > meterNow - TokenWindow} |-> tokens[t]]
          = [t \in {u \in Meter!Times : u > meterNow - TokenWindow} |-> meterHistory[t]]
    BY <1>2 DEF MeterInv, MeterKept, MeterConstants
<1>4. [t \in {u \in Meter!Times : u > meterNow - TurnWindow} |-> meterTurns[t]]
          = [t \in {u \in Meter!Times : u > meterNow - TurnWindow} |-> started[t]]
    BY <1>2 DEF MeterInv, MeterKept, MeterConstants
<1>5. Meter!Counted(tokens, TokenWindow) = Meter!Counted(meterHistory, TokenWindow)
    BY <1>3 DEF Meter!Counted
<1>6. Meter!Counted(meterTurns, TurnWindow) = Meter!Counted(started, TurnWindow)
    BY <1>4 DEF Meter!Counted
<1> QED BY <1>5, <1>6 DEF Meter!CountsExact

\* And that what left a window was announced.
LEMMA MeterRolledOver ==
    ASSUME MeterInv
    PROVE  Meter!RolledOverAnnounced
<1> SUFFICES ASSUME ~meterMissed PROVE MeterAnnouncedBy(since)
    BY DEF Meter!RolledOverAnnounced, MeterAnnouncedBy
<1> QED BY DEF MeterInv, MeterAnnounced

\* Within the windows the tables count exactly what was used, although older rows are
\* deleted, and what rolled out of them is announced once a pass ended (`usage.rs`).
THEOREM MeterCounts ==
    ASSUME MeterConstants
    PROVE  Meter!Spec => [](Meter!CountsExact /\ Meter!RolledOverAnnounced)
<1>1. MeterInv => Meter!CountsExact /\ Meter!RolledOverAnnounced
    BY MeterExact, MeterRolledOver
<1> QED BY <1>1, MeterInvariant, PTL

HIDE DEF meterNow, meterTurns, tokens, reported, totals, resets, since, meterPass,
         announced, meterFaults, meterHistory, started, meterMissed

-----------------------------------------------------------------------------
(* Replies as they stream *)

\* The variables of Replies, by their names.
repTurn == x1
said == x2
rows == x3
replies == x4
page == x5
repLost == x6
unsaved == x7
stuck == x8
repFaults == x9
USE DEF repTurn, said, rows, replies, page, repLost, unsaved, stuck, repFaults

\* The states of a reply's row.
RepStates == {"none", "streaming", "complete", "interrupted", "failed"}

\* Some of the pieces 1 to n, in their order.
RepRising(s, n) ==
    /\ \A k \in 1..Len(s) : s[k] \in 1..n
    /\ \A k \in 1..(Len(s) - 1) : s[k] < s[k + 1]

\* What there is of a reply.
RepGiven(r) == rows[r].text \o (IF r \in Rep!Known THEN replies[r].pending ELSE <<>>)

\* The rows, the text held back for them and the turns.
RepTypes ==
    /\ repTurn \in [Users -> [running : Nat, begun : Nat]]
    /\ \A u \in Users : repTurn[u].running \in {0, repTurn[u].begun}
    /\ said \in [Rep!Replies -> [turn : Nat, pieces : Nat, over : BOOLEAN]]
    /\ rows \in [Rep!Replies -> [state : RepStates, text : Seq(Nat)]]
    /\ page = rows
    /\ Rep!Known \subseteq Rep!Replies
    /\ \A r \in Rep!Known : replies[r] \in [pending : Seq(Nat), written : Nat]

\* What the row and the text held back for it are of what Codex said.
RepTexts(r) ==
    /\ r \in Rep!Known => rows[r].state = "streaming" /\ Len(rows[r].text) =< replies[r].written
    /\ RepRising(RepGiven(r), said[r].pieces)
    /\ r \notin repLost \cup unsaved => RepGiven(r) = Rep!Pieces(0, said[r].pieces)
    /\ said[r].over /\ r \notin unsaved =>
          rows[r] = [state |-> "complete", text |-> Rep!Pieces(0, said[r].pieces)]
    /\ said[r].turn = 0 =>
          rows[r] = Rep!None /\ r \notin Rep!Known /\ said[r].pieces = 0 /\ ~said[r].over

\* A reply that streams is of the turn that runs, or is known to be stuck.
RepTurns(r) ==
    /\ said[r].turn =< repTurn[r[1]].begun
    /\ Rep!Speaking(r) => r \in Rep!Known \cup repLost
    /\ rows[r].state = "streaming" =>
          \/ said[r].turn = repTurn[r[1]].running /\ (~said[r].over \/ r \in unsaved)
          \/ r \in stuck

\* The inductive invariant: that the row ends as Codex said it needs that row and text held
\* back are together, at any time, what was said.
RepInv == RepTypes /\ \A r \in Rep!Replies : RepTexts(r) /\ RepTurns(r)

\* The invariant says that the replies are as they were said.
LEMMA RepSays ==
    ASSUME RepInv
    PROVE  Rep!RepliesAreSaid
<1>1. Rep!PageFollows
    BY DEF Rep!PageFollows, RepInv, RepTypes
<1>2. Rep!TextIsSaid
    BY DEF Rep!TextIsSaid, RepInv, RepTexts, RepGiven, RepRising
<1>3. Rep!FinishedIsWhole
    BY DEF Rep!FinishedIsWhole, RepInv, RepTexts
<1>4. Rep!NoneLeftStreaming
    BY DEF Rep!NoneLeftStreaming, RepInv, RepTurns
<1> QED BY <1>1, <1>2, <1>3, <1>4 DEF Rep!RepliesAreSaid

\* The first n pieces, in their order.
LEMMA RepPieces ==
    ASSUME NEW n \in Nat
    PROVE  /\ Rep!Pieces(0, n) \in Seq(Nat) /\ Len(Rep!Pieces(0, n)) = n
           /\ RepRising(Rep!Pieces(0, n), n)
           /\ Rep!Pieces(0, n) \o <<n + 1>> = Rep!Pieces(0, n + 1)
<1>1. Rep!Pieces(0, n) = [k \in 1..n |-> k] /\ Rep!Pieces(0, n + 1) = [k \in 1..(n + 1) |-> k]
    BY DEF Rep!Pieces
<1>2. Rep!Pieces(0, n) \in Seq(Nat) /\ Len(Rep!Pieces(0, n)) = n
    BY <1>1
<1>3. Rep!Pieces(0, n + 1) \in Seq(Nat) /\ Len(Rep!Pieces(0, n + 1)) = n + 1
    BY <1>1
<1>4. RepRising(Rep!Pieces(0, n), n)
    BY <1>1, <1>2 DEF RepRising
<1>5. <<n + 1>> \in Seq(Nat) /\ Len(<<n + 1>>) = 1 /\ <<n + 1>>[1] = n + 1
    OBVIOUS
<1>6. /\ Rep!Pieces(0, n) \o <<n + 1>> \in Seq(Nat)
      /\ Len(Rep!Pieces(0, n) \o <<n + 1>>) = n + 1
      /\ \A k \in 1..(n + 1) : (Rep!Pieces(0, n) \o <<n + 1>>)[k] = k
    BY <1>1, <1>2, <1>5, ConcatProperties
<1>7. Rep!Pieces(0, n) \o <<n + 1>> = Rep!Pieces(0, n + 1)
    BY <1>1, <1>3, <1>6, SeqEqual
<1> QED BY <1>2, <1>4, <1>7

\* No piece at all.
LEMMA RepSome ==
    /\ Rep!Pieces(0, 0) = <<>> /\ <<>> \in Seq(Nat) /\ Len(<<>>) = 0
    /\ \A n \in Nat : RepRising(<<>>, n)
<1>1. Rep!Pieces(0, 0) \in Seq(Nat) /\ Len(Rep!Pieces(0, 0)) = 0
    BY RepPieces
<1> QED BY <1>1, EmptySeq DEF RepRising

\* The pieces before some others are in their order.
LEMMA RepPrefix ==
    ASSUME NEW s \in Seq(Nat), NEW t \in Seq(Nat), NEW n \in Nat, RepRising(s \o t, n)
    PROVE  RepRising(s, n)
<1>1. /\ Len(s \o t) = Len(s) + Len(t) /\ Len(s) \in Nat /\ Len(t) \in Nat
      /\ \A k \in 1..Len(s) : (s \o t)[k] = s[k]
    BY ConcatProperties, LenProperties
<1>2. \A k \in 1..Len(s) : s[k] \in 1..n
    BY <1>1 DEF RepRising
<1>3. \A k \in 1..(Len(s) - 1) : s[k] < s[k + 1]
    <2> TAKE k \in 1..(Len(s) - 1)
    <2>1. k \in 1..Len(s) /\ k + 1 \in 1..Len(s) /\ k \in 1..(Len(s \o t) - 1)
        BY <1>1
    <2> QED BY <1>1, <2>1 DEF RepRising
<1> QED BY <1>2, <1>3 DEF RepRising

\* And are so still when there are more to come.
LEMMA RepLoose ==
    ASSUME NEW s, NEW n \in Nat, NEW m \in Nat, n =< m, RepRising(s, n)
    PROVE  RepRising(s, m)
    BY DEF RepRising

\* A row, the text held back and a piece more.
LEMMA RepAssoc ==
    ASSUME NEW s \in Seq(Nat), NEW t \in Seq(Nat), NEW u \in Seq(Nat)
    PROVE  (s \o t) \o u = s \o (t \o u)
    BY SMTT(30), ConcatAssociative

\* A piece more keeps the order.
LEMMA RepRises ==
    ASSUME NEW s \in Seq(Nat), NEW n \in Nat, RepRising(s, n)
    PROVE  RepRising(s, n + 1) /\ RepRising(s \o <<n + 1>>, n + 1)
<1>1. Len(s) \in Nat /\ \A k \in 1..Len(s) : s[k] \in Nat
    BY LenProperties, ElementOfSeq
<1>2. RepRising(s, n + 1)
    BY DEF RepRising
<1>3. <<n + 1>> \in Seq(Nat) /\ Len(<<n + 1>>) = 1 /\ <<n + 1>>[1] = n + 1
    OBVIOUS
<1>4. /\ Len(s \o <<n + 1>>) = Len(s) + 1
      /\ \A k \in 1..(Len(s) + 1) : (s \o <<n + 1>>)[k] = IF k =< Len(s) THEN s[k] ELSE n + 1
    BY <1>1, <1>3, ConcatProperties
<1>5. RepRising(s \o <<n + 1>>, n + 1)
    BY <1>1, <1>4 DEF RepRising
<1> QED BY <1>2, <1>5

\* A text that starts where the row ends is appended as it is.
LEMMA RepAppended ==
    ASSUME NEW held \in [state : RepStates, text : Seq(Nat)], NEW offset \in Nat,
           NEW delta \in Seq(Nat), NEW row, held.state = "streaming", Len(held.text) =< offset,
           row = [held EXCEPT !.text = @ \o delta]
    PROVE  Rep!Appended(held, offset, delta, row) = row
<1>1. Len(held.text) \in Nat /\ Len(delta) \in Nat
    BY LenProperties
<1>2. CASE offset > Len(held.text)
    BY <1>2 DEF Rep!Appended
<1>3. CASE offset = Len(held.text)
    <2>1. Len(held.text) - offset + 1 = 1
        BY <1>1, <1>3
    <2>2. SubSeq(delta, 1, Len(delta)) = delta
        BY SubSeqFull
    <2> QED BY <1>1, <1>3, <2>1, <2>2 DEF Rep!Appended
<1> QED BY <1>1, <1>2, <1>3

\* Nothing was said at first.
LEMMA RepInit ==
    ASSUME Rep!Init
    PROVE  RepInv
<1>1. /\ repTurn = [u \in Users |-> [running |-> 0, begun |-> 0]]
      /\ said = [r \in Rep!Replies |-> Rep!Silent] /\ rows = [r \in Rep!Replies |-> Rep!None] /\ page = rows
      /\ replies = <<>> /\ Rep!Known = {}
    BY DEF Rep!Init, Rep!Known
<1>2. Rep!None \in [state : RepStates, text : Seq(Nat)] /\ Rep!None.text = <<>> /\ Rep!None.state = "none"
    BY RepSome DEF Rep!None, RepStates
<1>3. RepTypes
    BY <1>1, <1>2 DEF RepTypes, Rep!Silent
<1>4. ASSUME NEW r \in Rep!Replies
      PROVE  RepTexts(r) /\ RepTurns(r)
    <2>1. RepGiven(r) = <<>>
        BY <1>1, <1>2, RepSome, ConcatEmptySeq DEF RepGiven
    <2>2. said[r].turn = 0 /\ said[r].pieces = 0 /\ ~said[r].over /\ rows[r] = Rep!None
        BY <1>1, <1>4 DEF Rep!Silent
    <2>3. r[1] \in Users
        BY <1>4 DEF Rep!Replies
    <2>4. RepTexts(r)
        BY <1>1, <2>1, <2>2, RepSome DEF RepTexts
    <2>5. RepTurns(r)
        BY <1>1, <1>2, <2>2, <2>3 DEF RepTurns, Rep!Speaking
    <2> QED BY <2>4, <2>5
<1> QED BY <1>3, <1>4 DEF RepInv

\* What a reply has, in its row and held back.
LEMMA RepHas ==
    ASSUME RepTypes, NEW r \in Rep!Replies
    PROVE  /\ RepGiven(r) \in Seq(Nat) /\ rows[r].text \in Seq(Nat) /\ said[r].pieces \in Nat
           /\ r \in Rep!Known => replies[r].pending \in Seq(Nat) /\ replies[r].written \in Nat
           /\ r \in Rep!Known => RepGiven(r) = rows[r].text \o replies[r].pending
           /\ r \notin Rep!Known \/ r \notin Rep!Pending => RepGiven(r) = rows[r].text
           /\ rows[r] \in [state : RepStates, text : Seq(Nat)]
           /\ rows[r] = [state |-> rows[r].state, text |-> rows[r].text]
           /\ Len(rows[r].text) \in Nat
<1>1. /\ rows[r] \in [state : RepStates, text : Seq(Nat)] /\ said[r].pieces \in Nat
      /\ r \in Rep!Known => replies[r].pending \in Seq(Nat) /\ replies[r].written \in Nat
    BY DEF RepTypes
<1>2. rows[r].text \in Seq(Nat) /\ rows[r] = [state |-> rows[r].state, text |-> rows[r].text]
    BY <1>1
<1>3. <<>> \in Seq(Nat) /\ rows[r].text \o <<>> = rows[r].text
    BY <1>2, ConcatEmptySeq, RepSome
<1>4. RepGiven(r) \in Seq(Nat)
    <2>1. CASE r \in Rep!Known
        <3>1. rows[r].text \o replies[r].pending \in Seq(Nat)
            BY <1>1, <1>2, <2>1, ConcatProperties
        <3> QED BY <2>1, <3>1 DEF RepGiven
    <2>2. CASE r \notin Rep!Known
        BY <1>2, <1>3, <2>2 DEF RepGiven
    <2> QED BY <2>1, <2>2
<1>5. r \notin Rep!Known \/ r \notin Rep!Pending => RepGiven(r) = rows[r].text
    BY <1>3 DEF RepGiven, Rep!Pending
<1> QED BY <1>1, <1>2, <1>4, <1>5, LenProperties DEF RepGiven

\* The texts of replies that a step leaves alone, or only marks as lost.
LEMMA RepTextsOn ==
    ASSUME RepInv, NEW r \in Rep!Replies, RepTexts(r), rows'[r] = rows[r], said'[r] = said[r],
           r \in Rep!Known' <=> r \in Rep!Known, r \in Rep!Known => replies'[r] = replies[r],
           r \in repLost => r \in repLost', r \in unsaved => r \in unsaved'
    PROVE  RepTexts(r)'
<1>1. RepGiven(r)' = RepGiven(r)
    BY DEF RepGiven
<1> QED BY <1>1 DEF RepTexts

\* A step that leaves a reply and its user's turn.
LEMMA RepTurnsOn ==
    ASSUME RepInv, NEW r \in Rep!Replies, said'[r] = said[r], repTurn'[r[1]] = repTurn[r[1]],
           rows'[r].state = "streaming" => rows[r].state = "streaming",
           r \in Rep!Known => r \in Rep!Known' \cup repLost',
           r \in repLost => r \in repLost', r \in unsaved => r \in unsaved', r \in stuck => r \in stuck'
    PROVE  RepTurns(r)'
<1>1. RepTurns(r)
    BY DEF RepInv
<1>2. Rep!Speaking(r)' <=> Rep!Speaking(r)
    BY DEF Rep!Speaking
<1> QED BY <1>1, <1>2 DEF RepTurns

\* A turn starts.
LEMMA RepTurnStarts ==
    ASSUME RepInv, NEW u \in Users, Rep!TurnStarts(u)
    PROVE  RepInv'
<1>1. /\ repTurn[u].running = 0
      /\ repTurn' = [repTurn EXCEPT ![u] = [running |-> repTurn[u].begun + 1, begun |-> repTurn[u].begun + 1]]
      /\ UNCHANGED <<said, rows, replies, page, repLost, unsaved, stuck, repFaults>>
    BY DEF Rep!TurnStarts
<1>2. repTurn \in [Users -> [running : Nat, begun : Nat]]
    BY DEF RepInv, RepTypes
<1>3. repTurn[u].begun \in Nat /\ repTurn[u].begun + 1 \in Nat
    BY <1>2
<1>4. /\ repTurn' \in [Users -> [running : Nat, begun : Nat]]
      /\ \A v \in Users : repTurn'[v].running \in {0, repTurn'[v].begun}
      /\ repTurn'[u].running = repTurn[u].begun + 1 /\ repTurn'[u].begun = repTurn[u].begun + 1
      /\ \A v \in Users : v # u => repTurn'[v] = repTurn[v]
    BY <1>1, <1>2, <1>3 DEF RepInv, RepTypes
<1>5. RepTypes'
    BY <1>1, <1>4 DEF RepInv, RepTypes, Rep!Known
<1>6. ASSUME NEW r \in Rep!Replies
      PROVE  RepTexts(r)' /\ RepTurns(r)'
    <2>1. RepTexts(r)'
        BY <1>1, <1>6, RepTextsOn DEF RepInv, Rep!Known
    <2>2. r[1] \in Users
        BY <1>6 DEF Rep!Replies
    <2>3. CASE r[1] # u
        <3>1. repTurn'[r[1]] = repTurn[r[1]]
            BY <1>4, <2>2, <2>3
        <3>2. RepTurns(r)'
            BY <1>1, <1>6, <3>1, RepTurnsOn DEF Rep!Known
        <3> QED BY <2>1, <3>2
    <2>4. CASE r[1] = u
        <3>1. RepTexts(r) /\ RepTurns(r) /\ said[r].turn \in Nat
            BY <1>6 DEF RepInv, RepTypes
        <3>2. said[r].turn =< repTurn[u].begun
            BY <2>4, <3>1 DEF RepTurns
        <3>3. ~Rep!Speaking(r)'
            BY <1>1, <1>3, <1>4, <2>4, <3>1, <3>2 DEF Rep!Speaking
        <3>4. rows[r].state = "streaming" => r \in stuck
            <4>1. said[r].turn = 0 => rows[r].state # "streaming"
                BY <3>1 DEF RepTexts, Rep!None
            <4> QED BY <1>1, <2>4, <3>1, <4>1 DEF RepTurns
        <3>5. RepTurns(r)'
            BY <1>1, <1>3, <1>4, <2>4, <3>1, <3>2, <3>3, <3>4 DEF RepTurns
        <3> QED BY <2>1, <3>5
    <2> QED BY <2>3, <2>4
<1> QED BY <1>5, <1>6 DEF RepInv

\* A reply that is held back for, and the others.
LEMMA RepKnows ==
    ASSUME NEW r, NEW x, replies' = Rep!With(r, x)
    PROVE  /\ Rep!Known' = Rep!Known \cup {r} /\ replies'[r] = x
           /\ \A q \in Rep!Known : q # r => replies'[q] = replies[q]
    BY DEF Rep!With, Rep!Known

\* A step of one reply.
LEMMA RepOneChanges ==
    ASSUME RepInv, NEW q \in Rep!Replies, UNCHANGED repTurn, page' = rows',
           NEW spoken \in [turn : Nat, pieces : Nat, over : BOOLEAN], said' = [said EXCEPT ![q] = spoken],
           NEW row \in [state : RepStates, text : Seq(Nat)], rows' = [rows EXCEPT ![q] = row],
           Rep!Known' \subseteq Rep!Known \cup {q}, Rep!Known \ {q} \subseteq Rep!Known',
           \A r \in Rep!Known : r # q => replies'[r] = replies[r],
           q \in Rep!Known' => replies'[q] \in [pending : Seq(Nat), written : Nat],
           repLost \subseteq repLost', unsaved \subseteq unsaved', stuck \subseteq stuck',
           RepTexts(q)', RepTurns(q)'
    PROVE  RepInv'
<1>1. /\ said' \in [Rep!Replies -> [turn : Nat, pieces : Nat, over : BOOLEAN]]
      /\ rows' \in [Rep!Replies -> [state : RepStates, text : Seq(Nat)]]
      /\ \A r \in Rep!Replies : r # q => said'[r] = said[r] /\ rows'[r] = rows[r]
    BY DEF RepInv, RepTypes
<1>2. Rep!Known' \subseteq Rep!Replies /\ \A r \in Rep!Known' : replies'[r] \in [pending : Seq(Nat), written : Nat]
    BY DEF RepInv, RepTypes
<1>3. RepTypes'
    BY <1>1, <1>2 DEF RepInv, RepTypes
<1>4. ASSUME NEW r \in Rep!Replies, r # q
      PROVE  RepTexts(r)' /\ RepTurns(r)'
    <2>1. /\ said'[r] = said[r] /\ rows'[r] = rows[r] /\ repTurn'[r[1]] = repTurn[r[1]]
          /\ r \in Rep!Known' <=> r \in Rep!Known
          /\ r \in Rep!Known => replies'[r] = replies[r]
        BY <1>1, <1>4
    <2>2. RepTexts(r)
        BY DEF RepInv
    <2>3. RepTexts(r)'
        BY <2>1, <2>2, RepTextsOn
    <2>4. RepTurns(r)'
        BY <2>1, RepTurnsOn
    <2> QED BY <2>3, <2>4
<1> QED BY <1>3, <1>4 DEF RepInv

\* The next reply of a turn, of which nothing was said.
LEMMA RepNext ==
    ASSUME NEW u \in Users, NEW r \in Rep!NextReply(u)
    PROVE  r \in Rep!Replies /\ r[1] = u /\ said[r].turn = 0
    BY DEF Rep!NextReply, Rep!Replies

\* Codex starts a message, and its row is inserted.
LEMMA RepItemStarted ==
    ASSUME RepInv, NEW u \in Users, Rep!ItemStarted(u)
    PROVE  RepInv'
<1>1. PICK r \in Rep!NextReply(u), n \in 0..1 :
          /\ repTurn[u].running # 0
          /\ said' = [said EXCEPT ![r] = [turn |-> repTurn[u].running, pieces |-> n, over |-> FALSE]]
          /\ \/ /\ Rep!Creates(r, Rep!Pieces(0, n))
                /\ replies' = Rep!With(r, Rep!NewReply(Rep!Pieces(0, n)))
                /\ UNCHANGED <<repLost, repFaults>>
             \/ Rep!Fails /\ repLost' = repLost \cup {r} /\ UNCHANGED <<rows, page, replies>>
          /\ UNCHANGED <<repTurn, unsaved, stuck>>
    BY DEF Rep!ItemStarted
<1>2. r \in Rep!Replies /\ r[1] = u /\ said[r].turn = 0
    BY <1>1, RepNext
<1>3. rows[r] = Rep!None /\ r \notin Rep!Known /\ RepTypes
    BY <1>2 DEF RepInv, RepTexts
<1>4. repTurn[u].running \in Nat /\ repTurn[u].running =< repTurn[u].begun
    BY <1>1 DEF RepInv, RepTypes
<1>5. PICK spoken \in [turn : Nat, pieces : Nat, over : BOOLEAN] :
          spoken = [turn |-> repTurn[u].running, pieces |-> n, over |-> FALSE]
    <2>1. n \in Nat
        OBVIOUS
    <2> QED BY <1>4, <2>1
<1>6. said' = [said EXCEPT ![r] = spoken] /\ said'[r] = spoken
    BY <1>1, <1>2, <1>3, <1>5 DEF RepTypes
<1>7. /\ Rep!Pieces(0, n) \in Seq(Nat) /\ Len(Rep!Pieces(0, n)) = n /\ RepRising(Rep!Pieces(0, n), n)
      /\ n \in Nat /\ <<>> \in Seq(Nat) /\ RepRising(<<>>, n)
    <2>1. n \in Nat
        OBVIOUS
    <2> QED BY <2>1, RepPieces, RepSome
<1>8. CASE /\ Rep!Creates(r, Rep!Pieces(0, n))
           /\ replies' = Rep!With(r, Rep!NewReply(Rep!Pieces(0, n)))
           /\ UNCHANGED <<repLost, repFaults>>
    <2>1. PICK row \in [state : RepStates, text : Seq(Nat)] :
              row = [state |-> "streaming", text |-> Rep!Pieces(0, n)]
        BY <1>7 DEF RepStates
    <2>2. /\ rows' = [rows EXCEPT ![r] = row] /\ rows'[r] = row /\ page' = rows'
        BY <1>2, <1>3, <1>8, <2>1 DEF Rep!Creates, RepTypes
    <2>3. /\ Rep!Known' = Rep!Known \cup {r} /\ replies'[r] = Rep!NewReply(Rep!Pieces(0, n))
          /\ \A q \in Rep!Known : q # r => replies'[q] = replies[q]
        BY <1>8, RepKnows
    <2>4. replies'[r].pending = <<>> /\ replies'[r].written = n
          /\ replies'[r] \in [pending : Seq(Nat), written : Nat]
        BY <1>7, <2>3 DEF Rep!NewReply
    <2>5. RepGiven(r)' = Rep!Pieces(0, n)
        BY <1>7, <2>1, <2>2, <2>3, <2>4, ConcatEmptySeq DEF RepGiven
    <2>6. RepTexts(r)'
        BY <1>1, <1>5, <1>6, <1>7, <2>1, <2>2, <2>3, <2>4, <2>5 DEF RepTexts
    <2>7. RepTurns(r)'
        BY <1>1, <1>2, <1>4, <1>5, <1>6, <2>3 DEF RepTurns
    <2> QED BY <1>1, <1>2, <1>6, <1>8, <2>2, <2>3, <2>4, <2>6, <2>7, RepOneChanges
<1>9. CASE Rep!Fails /\ repLost' = repLost \cup {r} /\ UNCHANGED <<rows, page, replies>>
    <2>1. PICK row \in [state : RepStates, text : Seq(Nat)] : row = rows[r]
        BY <1>2, <1>3 DEF RepTypes
    <2>2. rows' = [rows EXCEPT ![r] = row] /\ page' = rows' /\ Rep!Known' = Rep!Known
        BY <1>2, <1>3, <1>9, <2>1 DEF RepTypes, Rep!Known
    <2>3. RepGiven(r)' = <<>>
        BY <1>3, <1>7, <1>9, <2>2, ConcatEmptySeq DEF RepGiven, Rep!None
    <2>4. RepTexts(r)'
        BY <1>1, <1>3, <1>5, <1>6, <1>7, <1>9, <2>2, <2>3 DEF RepTexts
    <2>5. RepTurns(r)'
        BY <1>1, <1>2, <1>3, <1>4, <1>5, <1>6, <1>9, <2>2 DEF RepTurns, Rep!None
    <2> QED BY <1>1, <1>2, <1>3, <1>6, <1>9, <2>2, <2>4, <2>5, RepOneChanges
<1> QED BY <1>1, <1>8, <1>9

\* A piece is said, and held back.
LEMMA RepDelta ==
    ASSUME RepInv, NEW r \in Rep!Replies, Rep!Delta(r)
    PROVE  RepInv'
<1>1. /\ Rep!Speaking(r) /\ said' = [said EXCEPT ![r].pieces = @ + 1]
      /\ UNCHANGED <<repTurn, unsaved, stuck>>
    BY DEF Rep!Delta
<1>2. RepTypes /\ RepTexts(r) /\ RepTurns(r)
    BY DEF RepInv
<1>3. said[r] \in [turn : Nat, pieces : Nat, over : BOOLEAN]
    BY <1>2 DEF RepTypes
<1>4. PICK n \in Nat : n = said[r].pieces
    BY <1>3
<1>5. PICK spoken \in [turn : Nat, pieces : Nat, over : BOOLEAN] :
          /\ spoken = [said[r] EXCEPT !.pieces = n + 1] /\ spoken.pieces = n + 1
          /\ spoken.turn = said[r].turn /\ spoken.over = said[r].over
    <2> DEFINE s == [said[r] EXCEPT !.pieces = n + 1]
    <2>1. /\ s \in [turn : Nat, pieces : Nat, over : BOOLEAN] /\ s.pieces = n + 1
          /\ s.turn = said[r].turn /\ s.over = said[r].over /\ s = [said[r] EXCEPT !.pieces = n + 1]
        BY <1>3, <1>4
    <2> HIDE DEF s
    <2> QED BY <2>1
<1>6. said' = [said EXCEPT ![r] = spoken] /\ said'[r] = spoken
    BY <1>1, <1>2, <1>4, <1>5 DEF RepTypes
<1>7. /\ RepRising(RepGiven(r), n) /\ RepGiven(r) \in Seq(Nat) /\ rows[r].text \in Seq(Nat)
      /\ <<n + 1>> \in Seq(Nat) /\ <<>> \in Seq(Nat)
    <2>1. <<n + 1>> \in Seq(Nat)
        OBVIOUS
    <2> QED BY <1>2, <1>4, <2>1, RepHas, RepSome DEF RepTexts
<1>8. said[r].turn # 0 /\ ~said[r].over /\ said[r].turn = repTurn[r[1]].running
    BY <1>1 DEF Rep!Speaking
<1>9. CASE /\ r \in Rep!Known /\ replies' = [replies EXCEPT ![r].pending = @ \o <<said'[r].pieces>>]
           /\ UNCHANGED <<rows, page, repLost, repFaults>>
    <2>1. replies[r] \in [pending : Seq(Nat), written : Nat]
        BY <1>2, <1>9 DEF RepTypes
    <2>2. /\ Rep!Known' = Rep!Known /\ replies'[r].pending = replies[r].pending \o <<n + 1>>
          /\ replies'[r].written = replies[r].written
          /\ replies'[r] \in [pending : Seq(Nat), written : Nat]
          /\ \A q \in Rep!Known : q # r => replies'[q] = replies[q]
        <3>1. replies[r].pending \o <<n + 1>> \in Seq(Nat)
            BY <1>7, <2>1, ConcatProperties
        <3>2. replies'[r] = [replies[r] EXCEPT !.pending = replies[r].pending \o <<n + 1>>]
            BY <1>5, <1>6, <1>9 DEF Rep!Known
        <3> QED BY <1>9, <2>1, <3>1, <3>2 DEF Rep!Known
    <2>3. RepGiven(r)' = RepGiven(r) \o <<n + 1>>
        <3>1. RepGiven(r)' = rows[r].text \o (replies[r].pending \o <<n + 1>>)
            BY <1>9, <2>2 DEF RepGiven
        <3>2. RepGiven(r) = rows[r].text \o replies[r].pending
            BY <1>9 DEF RepGiven
        <3>3. replies[r].pending \in Seq(Nat)
            BY <2>1
        <3>4. (rows[r].text \o replies[r].pending) \o <<n + 1>>
                = rows[r].text \o (replies[r].pending \o <<n + 1>>)
            <4>1. PICK piece \in Seq(Nat) : piece = <<n + 1>>
                BY <1>7
            <4>2. PICK text \in Seq(Nat) : text = rows[r].text
                BY <1>7
            <4>3. PICK pending \in Seq(Nat) : pending = replies[r].pending
                BY <3>3
            <4>4. (text \o pending) \o piece = text \o (pending \o piece)
                BY RepAssoc
            <4> QED BY <4>1, <4>2, <4>3, <4>4
        <3> QED BY <3>1, <3>2, <3>4
    <2>4. RepRising(RepGiven(r)', n + 1)
        BY <1>7, <2>3, RepRises
    <2>5. r \notin repLost \cup unsaved => RepGiven(r)' = Rep!Pieces(0, n + 1)
        BY <1>2, <1>4, <2>3, RepPieces DEF RepTexts
    <2>6. RepTexts(r)'
        BY <1>1, <1>2, <1>5, <1>6, <1>8, <1>9, <2>2, <2>4, <2>5 DEF RepTexts
    <2>7. RepTurns(r)'
        BY <1>1, <1>2, <1>5, <1>6, <1>8, <1>9, <2>2 DEF RepTurns
    <2>8. PICK row \in [state : RepStates, text : Seq(Nat)] : row = rows[r]
        BY <1>2 DEF RepTypes
    <2>9. rows' = [rows EXCEPT ![r] = row] /\ page' = rows'
        BY <1>2, <1>9, <2>8 DEF RepTypes
    <2> QED BY <1>1, <1>6, <1>9, <2>2, <2>6, <2>7, <2>9, RepOneChanges
<1>10. CASE /\ r \notin Rep!Known /\ Rep!Creates(r, <<>>)
            /\ replies' = Rep!With(r, [Rep!NewReply(<<>>) EXCEPT !.pending = <<said'[r].pieces>>])
            /\ UNCHANGED <<repLost, repFaults>>
    <2>1. PICK row \in [state : RepStates, text : Seq(Nat)] :
              row = [state |-> "streaming", text |-> <<>>]
        BY <1>7 DEF RepStates
    <2>2. /\ rows' = [rows EXCEPT ![r] = row] /\ rows'[r] = row /\ page' = rows'
        BY <1>2, <1>10, <2>1 DEF Rep!Creates, RepTypes
    <2>3. /\ Rep!Known' = Rep!Known \cup {r}
          /\ replies'[r] = [Rep!NewReply(<<>>) EXCEPT !.pending = <<said'[r].pieces>>]
          /\ \A q \in Rep!Known : q # r => replies'[q] = replies[q]
        BY <1>10, RepKnows
    <2>4. /\ replies'[r].pending = <<n + 1>> /\ replies'[r].written = 0
          /\ replies'[r] \in [pending : Seq(Nat), written : Nat]
        <3>1. /\ Rep!NewReply(<<>>) = [pending |-> <<>>, written |-> 0]
              /\ said'[r].pieces = n + 1
            BY <1>5, <1>6, RepSome DEF Rep!NewReply
        <3>2. replies'[r] = [pending |-> <<n + 1>>, written |-> 0]
            BY <2>3, <3>1
        <3> QED BY <1>7, <3>2
    <2>5. RepGiven(r)' = <<n + 1>>
        <3>1. r \in Rep!Known' /\ rows'[r].text = <<>>
            BY <2>1, <2>2, <2>3
        <3>2. RepGiven(r)' = <<>> \o <<n + 1>>
            BY <2>4, <3>1 DEF RepGiven
        <3>3. <<n + 1>> \in Seq(Nat)
            BY <1>7
        <3> QED BY <3>2, <3>3, ConcatEmptySeq
    <2>6. RepRising(<<n + 1>>, n + 1)
        BY DEF RepRising
    <2>7. r \in repLost
        BY <1>1, <1>2, <1>10 DEF RepTurns
    <2>8. RepTexts(r)'
        BY SMTT(30), <1>5, <1>6, <1>8, <1>10, <2>1, <2>2, <2>3, <2>4, <2>5, <2>6, <2>7, RepSome DEF RepTexts
    <2>9. RepTurns(r)'
        BY <1>1, <1>2, <1>5, <1>6, <1>8, <2>3 DEF RepTurns
    <2> QED BY <1>1, <1>6, <1>10, <2>2, <2>3, <2>4, <2>8, <2>9, RepOneChanges
<1>11. CASE /\ r \notin Rep!Known /\ Rep!Fails /\ repLost' = repLost \cup {r} /\ UNCHANGED <<rows, page, replies>>
    <2>1. PICK row \in [state : RepStates, text : Seq(Nat)] : row = rows[r]
        BY <1>2 DEF RepTypes
    <2>2. rows' = [rows EXCEPT ![r] = row] /\ page' = rows' /\ Rep!Known' = Rep!Known
        BY <1>2, <1>11, <2>1 DEF RepTypes, Rep!Known
    <2>3. RepGiven(r)' = RepGiven(r)
        BY <1>11, <2>2 DEF RepGiven
    <2>4. RepRising(RepGiven(r)', n + 1)
        BY <1>7, <2>3, RepRises
    <2>5. RepTexts(r)'
        BY <1>5, <1>6, <1>8, <1>11, <2>2, <2>4 DEF RepTexts
    <2>6. RepTurns(r)'
        BY <1>1, <1>2, <1>5, <1>6, <1>8, <1>11, <2>2 DEF RepTurns
    <2> QED BY <1>1, <1>6, <1>11, <2>2, <2>5, <2>6, RepOneChanges
<1> QED BY <1>9, <1>10, <1>11 DEF Rep!Delta

\* A message is complete, and its row takes all of it.
LEMMA RepItemCompleted ==
    ASSUME RepInv, NEW r \in Rep!Replies, Rep!ItemCompleted(r)
    PROVE  RepInv'
<1>1. PICK n \in 0..1 :
          /\ Rep!Speaking(r) /\ said[r].pieces + n =< MaxText
          /\ said' = [said EXCEPT ![r].over = TRUE, ![r].pieces = @ + n]
          /\ replies' = Rep!Without({r})
          /\ \/ /\ r \in Rep!Known
                /\ Rep!Ends({r}, [q \in {r} |-> [state |-> "complete", text |-> Rep!Pieces(0, said'[q].pieces)]])
                /\ UNCHANGED <<unsaved, repFaults>>
             \/ /\ r \in Rep!Known /\ Rep!Fails
                /\ unsaved' = unsaved \cup {r}
                /\ UNCHANGED <<rows, page>>
             \/ /\ r \notin Rep!Known
                /\ unsaved' = unsaved \cup {r}
                /\ UNCHANGED <<rows, page, repFaults>>
          /\ UNCHANGED <<repTurn, repLost, stuck>>
    BY DEF Rep!ItemCompleted
<1>2. RepTypes /\ RepTexts(r) /\ RepTurns(r)
    BY DEF RepInv
<1>3. said[r] \in [turn : Nat, pieces : Nat, over : BOOLEAN]
    BY <1>2 DEF RepTypes
<1>4. PICK m \in Nat : m = said[r].pieces + n /\ m >= said[r].pieces
    BY <1>3
<1>5. PICK spoken \in [turn : Nat, pieces : Nat, over : BOOLEAN] :
          /\ spoken = [said[r] EXCEPT !.over = TRUE, !.pieces = m]
          /\ spoken.pieces = m /\ spoken.turn = said[r].turn /\ spoken.over
    <2> DEFINE s == [said[r] EXCEPT !.over = TRUE, !.pieces = m]
    <2>1. /\ s \in [turn : Nat, pieces : Nat, over : BOOLEAN] /\ s.pieces = m
          /\ s.turn = said[r].turn /\ s.over /\ s = [said[r] EXCEPT !.over = TRUE, !.pieces = m]
        BY <1>3, <1>4
    <2> HIDE DEF s
    <2> QED BY <2>1
<1>6. said' = [said EXCEPT ![r] = spoken] /\ said'[r] = spoken
    BY <1>1, <1>2, <1>4, <1>5 DEF RepTypes
<1>7. /\ Rep!Known' = Rep!Known \ {r}
      /\ \A q \in Rep!Known : q # r => replies'[q] = replies[q]
    BY <1>1 DEF Rep!Without, Rep!Known
<1>8. said[r].turn # 0 /\ ~said[r].over /\ said[r].turn = repTurn[r[1]].running
    BY <1>1 DEF Rep!Speaking
<1>9. /\ RepGiven(r) \in Seq(Nat) /\ rows[r].text \in Seq(Nat) /\ said[r].pieces \in Nat
      /\ r \in Rep!Known => replies[r].pending \in Seq(Nat)
      /\ r \in Rep!Known => RepGiven(r) = rows[r].text \o replies[r].pending
      /\ r \notin Rep!Known => RepGiven(r) = rows[r].text
      /\ RepRising(RepGiven(r), said[r].pieces)
    BY <1>2, RepHas DEF RepTexts
<1>10. CASE /\ r \in Rep!Known
            /\ Rep!Ends({r}, [q \in {r} |-> [state |-> "complete", text |-> Rep!Pieces(0, said'[q].pieces)]])
            /\ UNCHANGED <<unsaved, repFaults>>
    <2>1. PICK row \in [state : RepStates, text : Seq(Nat)] :
              row = [state |-> "complete", text |-> Rep!Pieces(0, m)]
        BY RepPieces DEF RepStates
    <2>2. rows[r].state = "streaming"
        BY <1>2, <1>10 DEF RepTexts
    <2>3. /\ rows' = [q \in Rep!Replies |-> IF q = r THEN row ELSE rows[q]]
          /\ page' = [q \in Rep!Replies |-> IF q = r THEN rows'[q] ELSE page[q]]
        <3>1. PICK final : /\ final = [q \in {r} |-> [state |-> "complete", text |-> Rep!Pieces(0, said'[q].pieces)]]
                           /\ Rep!Ends({r}, final)
            BY <1>10
        <3>2. final[r] = row
            BY <1>5, <1>6, <2>1, <3>1
        <3>3. {q \in {r} : rows[q].state = "streaming"} = {r}
            BY <2>2
        <3>4. /\ rows' = [q \in Rep!Replies |-> IF q \in {r} THEN final[q] ELSE rows[q]]
              /\ page' = [q \in Rep!Replies |-> IF q \in {r} THEN rows'[q] ELSE page[q]]
            BY <3>1, <3>3 DEF Rep!Ends
        <3>5. \A q \in {r} : final[q] = row
            BY <3>2
        <3> QED BY <3>4, <3>5
    <2>4. rows' = [rows EXCEPT ![r] = row] /\ rows'[r] = row /\ page' = rows'
        BY <1>2, <2>3 DEF RepTypes
    <2>5. Rep!Pieces(0, m) \in Seq(Nat) /\ RepRising(Rep!Pieces(0, m), m)
        BY RepPieces
    <2>6. RepGiven(r)' = Rep!Pieces(0, m)
        BY <1>7, <2>1, <2>4, <2>5, ConcatEmptySeq DEF RepGiven
    <2>7. RepTexts(r)'
        BY ZenonT(40), <1>5, <1>6, <1>7, <1>8, <2>1, <2>4, <2>5, <2>6 DEF RepTexts
    <2>8. RepTurns(r)'
        <3>1. UNCHANGED <<repTurn, repLost, stuck>>
            BY <1>1
        <3>2. rows'[r].state = "complete" /\ said'[r].turn = said[r].turn /\ said'[r].over
            <4>1. rows'[r].state = "complete"
                BY <2>1, <2>4
            <4>2. said'[r].turn = said[r].turn
                BY <1>5, <1>6
            <4>3. said'[r].over
                BY <1>5, <1>6
            <4> QED BY <4>1, <4>2, <4>3
        <3>3. ~Rep!Speaking(r)'
            BY <3>2 DEF Rep!Speaking
        <3> QED BY <1>2, <3>1, <3>2, <3>3 DEF RepTurns
    <2> QED BY <1>1, <1>6, <1>7, <1>10, <2>4, <2>7, <2>8, RepOneChanges
<1>11. CASE unsaved' = unsaved \cup {r} /\ UNCHANGED <<rows, page>>
    <2>1. PICK row \in [state : RepStates, text : Seq(Nat)] : row = rows[r]
        BY <1>2 DEF RepTypes
    <2>2. rows' = [rows EXCEPT ![r] = row] /\ page' = rows'
        BY <1>2, <1>11, <2>1 DEF RepTypes
    <2>3. RepGiven(r)' = rows[r].text
        BY <1>7, <1>9, <1>11, ConcatEmptySeq DEF RepGiven
    <2>4. RepRising(rows[r].text, said[r].pieces)
        <3>1. CASE r \in Rep!Known
            <4>1. PICK text \in Seq(Nat) : text = rows[r].text
                BY <1>9
            <4>2. PICK pending \in Seq(Nat) : pending = replies[r].pending
                BY <1>9, <3>1
            <4>3. RepRising(text \o pending, said[r].pieces)
                BY <1>9, <3>1, <4>1, <4>2
            <4>4. RepRising(text, said[r].pieces)
                BY <1>9, <4>3, RepPrefix
            <4> QED BY <4>1, <4>4
        <3>2. CASE r \notin Rep!Known
            BY <1>9, <3>2
        <3> QED BY <3>1, <3>2
    <2>5. RepRising(RepGiven(r)', m)
        BY <1>4, <1>9, <2>3, <2>4, RepLoose
    <2>6. RepTexts(r)'
        BY <1>5, <1>6, <1>7, <1>8, <1>11, <2>5 DEF RepTexts
    <2>7. RepTurns(r)'
        BY <1>1, <1>2, <1>5, <1>6, <1>7, <1>8, <1>11 DEF RepTurns, Rep!Speaking
    <2> QED BY <1>1, <1>6, <1>7, <1>11, <2>2, <2>6, <2>7, RepOneChanges
<1> QED BY <1>1, <1>10, <1>11

\* A reply's row and page once its pending text is written out.
LEMMA RepWritten ==
    ASSUME RepInv, NEW r \in Rep!Pending, NEW row,
           row = [rows[r] EXCEPT !.text = @ \o replies[r].pending]
    PROVE  /\ r \in Rep!Replies /\ r \in Rep!Known /\ row \in [state : RepStates, text : Seq(Nat)]
           /\ row.text = RepGiven(r) /\ row.state = rows[r].state /\ rows[r].state = "streaming"
           /\ row = [state |-> rows[r].state, text |-> rows[r].text \o replies[r].pending]
           /\ Rep!Appended(page[r], replies[r].written, replies[r].pending, row) = row
<1>1. r \in Rep!Known /\ r \in Rep!Replies /\ RepTypes
    BY DEF Rep!Pending, RepInv, RepTypes
<1>2. /\ rows[r].text \in Seq(Nat) /\ rows[r] \in [state : RepStates, text : Seq(Nat)]
      /\ replies[r].pending \in Seq(Nat) /\ replies[r].written \in Nat
      /\ RepGiven(r) = rows[r].text \o replies[r].pending /\ RepGiven(r) \in Seq(Nat)
    BY <1>1, RepHas
<1>3. /\ row = [rows[r] EXCEPT !.text = rows[r].text \o replies[r].pending]
      /\ row \in [state : RepStates, text : Seq(Nat)]
      /\ row.text = RepGiven(r) /\ row.state = rows[r].state
      /\ row = [state |-> rows[r].state, text |-> rows[r].text \o replies[r].pending]
    BY <1>2
<1>4. rows[r].state = "streaming" /\ Len(rows[r].text) =< replies[r].written /\ page[r] = rows[r]
    BY <1>1 DEF RepInv, RepTypes, RepTexts
<1>5. Rep!Appended(rows[r], replies[r].written, replies[r].pending, row) = row
    <2>1. PICK held \in [state : RepStates, text : Seq(Nat)] : held = rows[r]
        BY <1>2
    <2>2. PICK delta \in Seq(Nat) : delta = replies[r].pending
        BY <1>2
    <2>3. PICK offset \in Nat : offset = replies[r].written
        BY <1>2
    <2>4. row = [held EXCEPT !.text = @ \o delta]
        BY <1>3, <2>1, <2>2
    <2>5. held.state = "streaming" /\ Len(held.text) =< offset
        BY <1>4, <2>1, <2>3
    <2>6. Rep!Appended(held, offset, delta, row) = row
        BY <2>4, <2>5, RepAppended
    <2> QED BY <2>1, <2>2, <2>3, <2>6
<1> QED BY <1>1, <1>3, <1>4, <1>5

\* The replies under way once their pending text is taken.
LEMMA RepTaken ==
    ASSUME RepInv, NEW rs, NEW r \in Rep!Known
    PROVE  /\ Rep!Taken(rs)[r] \in [pending : Seq(Nat), written : Nat]
           /\ Rep!Taken(rs)[r].pending = <<>>
           /\ Rep!Taken(rs)[r].written = replies[r].written + Len(replies[r].pending)
<1>1. replies[r].pending \in Seq(Nat) /\ replies[r].written \in Nat
    BY DEF RepInv, RepTypes
<1>2. Len(replies[r].pending) \in Nat
    BY <1>1, LenProperties
<1>3. Rep!Taken(rs)[r] = [pending |-> <<>>, written |-> replies[r].written + Len(replies[r].pending)]
    BY DEF Rep!Taken
<1> QED BY <1>1, <1>2, <1>3, RepSome

\* A flush writes what is held back for some replies, or loses it.
LEMMA RepFlushes ==
    ASSUME RepInv, NEW rs \in SUBSET Rep!Pending, Rep!Flushed(rs), replies' = Rep!Taken(rs),
           UNCHANGED <<said, unsaved>>
    PROVE  /\ rows' \in [Rep!Replies -> [state : RepStates, text : Seq(Nat)]] /\ page' = rows'
           /\ Rep!Known' = Rep!Known /\ repLost \subseteq repLost'
           /\ \A r \in Rep!Known : replies'[r] \in [pending : Seq(Nat), written : Nat]
           /\ \A r \in Rep!Replies : rows'[r].state = rows[r].state /\ RepTexts(r)'
<1>1. /\ rows' = [r \in Rep!Replies |->
                    IF r \in rs THEN [rows[r] EXCEPT !.text = @ \o replies[r].pending] ELSE rows[r]]
      /\ page' = [r \in Rep!Replies |->
                    IF r \in rs THEN Rep!Appended(page[r], replies[r].written, replies[r].pending, rows'[r])
                    ELSE page[r]]
      /\ repLost' = repLost \cup (Rep!Pending \ rs)
    BY DEF Rep!Flushed
<1>2. RepTypes
    BY DEF RepInv
<1>3. Rep!Known' = Rep!Known
    BY DEF Rep!Taken, Rep!Known
<1>4. \A r \in Rep!Known : /\ replies'[r] \in [pending : Seq(Nat), written : Nat]
                           /\ replies'[r].pending = <<>>
                           /\ replies'[r].written = replies[r].written + Len(replies[r].pending)
    BY RepTaken
<1>5. ASSUME NEW r \in rs
      PROVE  /\ rows'[r] \in [state : RepStates, text : Seq(Nat)] /\ r \in Rep!Replies /\ r \in Rep!Known
             /\ rows'[r].text = RepGiven(r) /\ rows'[r].state = rows[r].state /\ page'[r] = rows'[r]
    <2>1. r \in Rep!Pending /\ r \in Rep!Replies
        BY <1>2 DEF RepTypes, Rep!Pending
    <2>2. rows'[r] = [rows[r] EXCEPT !.text = @ \o replies[r].pending]
        BY <1>1, <1>5, <2>1
    <2>3. page'[r] = Rep!Appended(page[r], replies[r].written, replies[r].pending, rows'[r])
        BY <1>1, <1>5, <2>1
    <2> QED BY <2>1, <2>2, <2>3, RepWritten
<1>6. ASSUME NEW r \in Rep!Replies, r \notin rs
      PROVE  rows'[r] = rows[r] /\ page'[r] = rows'[r] /\ rows'[r] \in [state : RepStates, text : Seq(Nat)]
    BY <1>1, <1>2, <1>6 DEF RepTypes
<1>7. \A r \in Rep!Replies : /\ rows'[r] \in [state : RepStates, text : Seq(Nat)]
                             /\ page'[r] = rows'[r] /\ rows'[r].state = rows[r].state
    BY <1>5, <1>6
<1>8. rows' \in [Rep!Replies -> [state : RepStates, text : Seq(Nat)]] /\ page' = rows'
    <2>1. rows' = [r \in Rep!Replies |-> rows'[r]] /\ page' = [r \in Rep!Replies |-> page'[r]]
        BY <1>1
    <2> QED BY <1>7, <2>1
<1>9. ASSUME NEW r \in Rep!Replies
      PROVE  RepTexts(r)'
    <2>1. RepTexts(r)
        BY DEF RepInv
    <2>2. /\ RepGiven(r) \in Seq(Nat) /\ rows[r].text \in Seq(Nat) /\ said[r].pieces \in Nat
          /\ r \in Rep!Known => replies[r].pending \in Seq(Nat) /\ replies[r].written \in Nat
          /\ r \in Rep!Known => RepGiven(r) = rows[r].text \o replies[r].pending
          /\ r \notin Rep!Known \/ r \notin Rep!Pending => RepGiven(r) = rows[r].text
        BY <1>2, RepHas
    <2>3. RepGiven(r)' = rows'[r].text
        <3>1. rows'[r].text \in Seq(Nat)
            BY <1>7
        <3>2. rows'[r].text \o <<>> = rows'[r].text
            BY <3>1, ConcatEmptySeq
        <3> QED BY <1>3, <1>4, <3>2 DEF RepGiven
    <2>4. CASE r \in rs
        <3>1. RepGiven(r)' = RepGiven(r) /\ r \in Rep!Known
            BY <1>5, <2>3, <2>4
        <3>2. Len(rows'[r].text) = Len(rows[r].text) + Len(replies[r].pending)
            <4>1. PICK text \in Seq(Nat) : text = rows[r].text
                BY <2>2
            <4>2. PICK pending \in Seq(Nat) : pending = replies[r].pending
                BY <2>2, <3>1
            <4>3. Len(text \o pending) = Len(text) + Len(pending)
                BY ConcatProperties
            <4>4. rows'[r].text = text \o pending
                BY <1>5, <2>2, <2>4, <3>1, <4>1, <4>2
            <4> QED BY <4>1, <4>2, <4>3, <4>4
        <3>3. Len(rows'[r].text) =< replies'[r].written
            <4>1. /\ Len(rows[r].text) \in Nat /\ Len(replies[r].pending) \in Nat
                  /\ Len(rows[r].text) =< replies[r].written /\ replies[r].written \in Nat
                BY <2>1, <2>2, <3>1, LenProperties DEF RepTexts
            <4>2. replies'[r].written = replies[r].written + Len(replies[r].pending)
                BY <1>4, <3>1
            <4>3. Len(rows[r].text) + Len(replies[r].pending) =< replies[r].written + Len(replies[r].pending)
                <5>1. PICK a \in Nat : a = Len(rows[r].text)
                    BY <4>1
                <5>2. PICK b \in Nat : b = Len(replies[r].pending)
                    BY <4>1
                <5>3. PICK c \in Nat : c = replies[r].written
                    BY <4>1
                <5>4. a =< c
                    BY <4>1, <5>1, <5>3
                <5>5. a + b =< c + b
                    BY <5>4
                <5> QED BY <5>1, <5>2, <5>3, <5>5
            <4> QED BY <3>2, <4>2, <4>3
        <3>4. said[r].turn # 0 /\ ~(said[r].over /\ r \notin unsaved)
            BY <2>1, <3>1 DEF RepTexts
        <3> QED BY <1>1, <1>3, <1>7, <2>1, <3>1, <3>3, <3>4 DEF RepTexts
    <2>5. CASE r \notin rs /\ r \in Rep!Pending
        <3>1. r \in Rep!Known /\ r \in repLost' /\ rows'[r] = rows[r]
            BY <1>1, <1>6, <2>5 DEF Rep!Pending
        <3>2. RepRising(rows[r].text, said[r].pieces)
            <4>1. PICK text \in Seq(Nat) : text = rows[r].text
                BY <2>2
            <4>2. PICK pending \in Seq(Nat) : pending = replies[r].pending
                BY <2>2, <3>1
            <4>3. RepRising(text \o pending, said[r].pieces)
                BY <2>1, <2>2, <3>1, <4>1, <4>2 DEF RepTexts
            <4>4. RepRising(text, said[r].pieces)
                BY <2>2, <4>3, RepPrefix
            <4> QED BY <4>1, <4>4
        <3>3. Len(rows[r].text) =< replies'[r].written
            <4>1. /\ Len(rows[r].text) \in Nat /\ Len(replies[r].pending) \in Nat
                  /\ Len(rows[r].text) =< replies[r].written /\ replies[r].written \in Nat
                BY <2>1, <2>2, <3>1, LenProperties DEF RepTexts
            <4>2. replies'[r].written = replies[r].written + Len(replies[r].pending)
                BY <1>4, <3>1
            <4> QED BY <4>1, <4>2
        <3>4. said[r].turn # 0 /\ ~(said[r].over /\ r \notin unsaved)
            BY <2>1, <3>1 DEF RepTexts
        <3> QED BY <1>3, <2>1, <2>3, <3>1, <3>2, <3>3, <3>4 DEF RepTexts
    <2>6. CASE r \notin rs /\ r \notin Rep!Pending
        <3>1. rows'[r] = rows[r] /\ RepGiven(r)' = RepGiven(r)
            BY <1>6, <2>2, <2>3, <2>6
        <3>2. r \in Rep!Known => Len(rows[r].text) =< replies'[r].written
            <4>1. r \in Rep!Known => /\ Len(rows[r].text) \in Nat /\ Len(replies[r].pending) \in Nat
                                     /\ Len(rows[r].text) =< replies[r].written
                BY <2>1, <2>2, LenProperties DEF RepTexts
            <4> QED BY SMTT(30), <1>4, <2>2, <4>1
        <3> QED BY <1>1, <1>3, <2>1, <3>1, <3>2 DEF RepTexts
    <2> QED BY <2>4, <2>5, <2>6
<1> QED BY <1>1, <1>3, <1>4, <1>7, <1>8, <1>9

\* The texts of replies all of whose text is written out, some of which end.
LEMMA RepFinishedTexts ==
    ASSUME RepInv, NEW rs, NEW r \in Rep!Replies,
           replies' = [q \in Rep!Known \ rs |-> Rep!Taken(Rep!Pending)[q]],
           rows'[r] \in [state : RepStates, text : Seq(Nat)], rows'[r].text = RepGiven(r),
           r \notin rs \/ rows[r].state # "streaming" => rows'[r].state = rows[r].state,
           UNCHANGED <<said, unsaved, repLost>>
    PROVE  RepTexts(r)'
<1>1. RepTexts(r) /\ RepTypes
    BY DEF RepInv
<1>2. Rep!Known' = Rep!Known \ rs /\ \A q \in Rep!Known \ rs : replies'[q] = Rep!Taken(Rep!Pending)[q]
    BY DEF Rep!Known
<1>3. /\ RepGiven(r) \in Seq(Nat) /\ rows[r].text \in Seq(Nat) /\ said[r].pieces \in Nat
      /\ r \in Rep!Known => replies[r].pending \in Seq(Nat) /\ replies[r].written \in Nat
      /\ r \in Rep!Known => RepGiven(r) = rows[r].text \o replies[r].pending
      /\ r \notin Rep!Known => RepGiven(r) = rows[r].text
      /\ rows[r] \in [state : RepStates, text : Seq(Nat)]
    BY <1>1, RepHas
<1>4. r \in Rep!Known' => /\ r \in Rep!Known /\ r \notin rs /\ replies'[r].pending = <<>>
                          /\ replies'[r].written = replies[r].written + Len(replies[r].pending)
    BY <1>2, RepTaken
<1>5. RepGiven(r)' = RepGiven(r)
    <2>1. rows'[r].text \o <<>> = rows'[r].text
        BY <1>3, ConcatEmptySeq
    <2> QED BY <1>4, <2>1 DEF RepGiven
<1>6. r \in Rep!Known' => rows'[r].state = "streaming" /\ Len(rows'[r].text) =< replies'[r].written
    <2> SUFFICES ASSUME r \in Rep!Known'
                 PROVE  rows'[r].state = "streaming" /\ Len(rows'[r].text) =< replies'[r].written
        OBVIOUS
    <2>1. rows'[r].state = "streaming" /\ Len(rows[r].text) =< replies[r].written
        BY <1>1, <1>4 DEF RepTexts
    <2>2. PICK text \in Seq(Nat) : text = rows[r].text
        BY <1>3
    <2>3. PICK pending \in Seq(Nat) : pending = replies[r].pending
        BY <1>3, <1>4
    <2>4. Len(text \o pending) = Len(text) + Len(pending) /\ Len(text) \in Nat /\ Len(pending) \in Nat
        BY ConcatProperties, LenProperties
    <2>5. PICK c \in Nat : c = replies[r].written
        BY <1>3, <1>4
    <2>6. Len(text) + Len(pending) =< c + Len(pending)
        BY <2>1, <2>2, <2>4, <2>5
    <2>7. rows'[r].text = text \o pending
        BY <1>3, <1>4, <2>2, <2>3
    <2> QED BY <1>4, <2>1, <2>3, <2>4, <2>5, <2>6, <2>7
<1>7. rows[r].state # "streaming" => rows'[r] = rows[r]
    <2> SUFFICES ASSUME rows[r].state # "streaming"
                 PROVE  rows'[r] = rows[r]
        OBVIOUS
    <2>1. r \notin Rep!Known
        BY <1>1 DEF RepTexts
    <2>2. rows'[r].text = rows[r].text /\ rows'[r].state = rows[r].state
        BY <1>3, <2>1
    <2> QED BY <1>3, <2>2
<1>8. said[r].over /\ r \notin unsaved =>
          rows'[r] = [state |-> "complete", text |-> Rep!Pieces(0, said[r].pieces)]
    BY <1>1, <1>7 DEF RepTexts
<1>9. said[r].turn = 0 => rows'[r] = Rep!None /\ r \notin Rep!Known'
    BY SMTT(30), <1>1, <1>2, <1>7 DEF RepTexts, Rep!None
<1> QED BY <1>1, <1>5, <1>6, <1>8, <1>9 DEF RepTexts

\* The end of a turn, or of the process, ends the rows that stream.
LEMMA RepFinishes ==
    ASSUME RepInv, NEW rs \in SUBSET Rep!Replies, NEW state \in RepStates, Rep!FinishStreaming(rs, state),
           state # "streaming", UNCHANGED <<said, unsaved>>
    PROVE  /\ rows' \in [Rep!Replies -> [state : RepStates, text : Seq(Nat)]] /\ page' = rows'
           /\ Rep!Known' \subseteq Rep!Known /\ Rep!Known \ rs \subseteq Rep!Known'
           /\ repLost \subseteq repLost'
           /\ \A r \in Rep!Known' : replies'[r] \in [pending : Seq(Nat), written : Nat]
           /\ \A r \in Rep!Replies :
                 /\ RepTexts(r)'
                 /\ r \notin rs => rows'[r].state = rows[r].state
                 /\ rows'[r].state = "streaming" => rows[r].state = "streaming"
                 /\ r \notin rs /\ r \in stuck => r \in stuck'
                 /\ r \in rs /\ rows'[r].state = "streaming" => r \in stuck'
<1> DEFINE text(r) == rows[r].text \o IF r \in Rep!Pending THEN replies[r].pending ELSE <<>>
           sent == [r \in Rep!Replies |->
                       IF r \in Rep!Pending
                       THEN Rep!Appended(page[r], replies[r].written, replies[r].pending,
                                         [rows[r] EXCEPT !.text = text(r)])
                       ELSE page[r]]
           streamed(r) == r \in rs /\ rows[r].state = "streaming"
<1>1. RepTypes /\ page = rows
    BY DEF RepInv, RepTypes
<1>2. ASSUME NEW r \in Rep!Replies
      PROVE  /\ text(r) = RepGiven(r) /\ RepGiven(r) \in Seq(Nat)
             /\ sent[r] = [rows[r] EXCEPT !.text = RepGiven(r)]
             /\ sent[r] = [state |-> rows[r].state, text |-> RepGiven(r)]
             /\ sent[r] \in [state : RepStates, text : Seq(Nat)]
    <2>1. /\ RepGiven(r) \in Seq(Nat) /\ rows[r].text \in Seq(Nat)
          /\ rows[r] \in [state : RepStates, text : Seq(Nat)]
          /\ r \in Rep!Known => RepGiven(r) = rows[r].text \o replies[r].pending
          /\ r \notin Rep!Pending => RepGiven(r) = rows[r].text
          /\ rows[r].text \o <<>> = rows[r].text
        BY <1>1, RepHas, ConcatEmptySeq
    <2>2. text(r) = RepGiven(r)
        BY <2>1 DEF Rep!Pending
    <2>3. sent[r] = [rows[r] EXCEPT !.text = RepGiven(r)]
        <3>1. CASE r \in Rep!Pending
            <4>1. sent[r] = Rep!Appended(page[r], replies[r].written, replies[r].pending,
                                         [rows[r] EXCEPT !.text = text(r)])
                BY <3>1
            <4>2. [rows[r] EXCEPT !.text = text(r)] = [rows[r] EXCEPT !.text = @ \o replies[r].pending]
                BY <3>1
            <4> HIDE DEF text
            <4> QED BY <2>2, <3>1, <4>1, <4>2, RepWritten
        <3>2. CASE r \notin Rep!Pending
            BY <1>1, <2>1, <3>2
        <3> QED BY <3>1, <3>2
    <2> HIDE DEF text, sent
    <2>4. /\ [rows[r] EXCEPT !.text = RepGiven(r)] = [state |-> rows[r].state, text |-> RepGiven(r)]
          /\ [state |-> rows[r].state, text |-> RepGiven(r)] \in [state : RepStates, text : Seq(Nat)]
        BY <2>1
    <2> QED BY <2>1, <2>2, <2>3, <2>4
<1>3. CASE /\ replies' = [r \in Rep!Known \ rs |-> Rep!Taken(Rep!Pending)[r]]
           /\ \/ /\ rows' = [r \in Rep!Replies |->
                               [state |-> IF streamed(r) THEN state ELSE rows[r].state, text |-> text(r)]]
                 /\ page' = [r \in Rep!Replies |-> IF streamed(r) THEN rows'[r] ELSE sent[r]]
                 /\ stuck' = stuck \ rs
                 /\ UNCHANGED repFaults
              \/ /\ Rep!Fails
                 /\ rows' = [r \in Rep!Replies |-> [rows[r] EXCEPT !.text = text(r)]]
                 /\ page' = sent
                 /\ stuck' = stuck \cup {r \in rs : rows[r].state = "streaming"}
           /\ UNCHANGED repLost
    <2>1. /\ Rep!Known' = Rep!Known \ rs
          /\ \A r \in Rep!Known' : replies'[r] \in [pending : Seq(Nat), written : Nat]
        <3>1. Rep!Known' = Rep!Known \ rs /\ \A r \in Rep!Known \ rs : replies'[r] = Rep!Taken(Rep!Pending)[r]
            BY ZenonT(40), <1>3 DEF Rep!Known
        <3> QED BY SMTT(30), <3>1, RepTaken
    <2>2. rows' = [r \in Rep!Replies |-> rows'[r]] /\ page' = [r \in Rep!Replies |-> page'[r]]
        BY <1>3
    <2>3. ASSUME NEW r \in Rep!Replies
          PROVE  /\ rows'[r] \in [state : RepStates, text : Seq(Nat)] /\ rows'[r].text = RepGiven(r)
                 /\ page'[r] = rows'[r]
                 /\ ~streamed(r) => rows'[r].state = rows[r].state
                 /\ rows'[r].state = "streaming" => rows[r].state = "streaming"
                 /\ r \notin rs /\ r \in stuck => r \in stuck'
                 /\ r \in rs /\ rows'[r].state = "streaming" => r \in stuck'
        <3>1. /\ text(r) = RepGiven(r) /\ RepGiven(r) \in Seq(Nat)
              /\ sent[r] = [rows[r] EXCEPT !.text = RepGiven(r)]
              /\ sent[r] = [state |-> rows[r].state, text |-> RepGiven(r)]
              /\ sent[r] \in [state : RepStates, text : Seq(Nat)]
            BY <1>2
        <3> HIDE DEF text, sent
        <3>2. CASE /\ rows' = [q \in Rep!Replies |->
                               [state |-> IF streamed(q) THEN state ELSE rows[q].state, text |-> text(q)]]
                   /\ page' = [q \in Rep!Replies |-> IF streamed(q) THEN rows'[q] ELSE sent[q]]
                   /\ stuck' = stuck \ rs
            <4>1. /\ rows'[r] = [state |-> IF streamed(r) THEN state ELSE rows[r].state, text |-> RepGiven(r)]
                  /\ page'[r] = IF streamed(r) THEN rows'[r] ELSE sent[r]
                BY <3>1, <3>2
            <4>2. CASE streamed(r)
                BY <3>1, <3>2, <4>1, <4>2
            <4>3. CASE ~streamed(r)
                <5>1. rows'[r] = sent[r] /\ page'[r] = sent[r]
                    BY <3>1, <4>1, <4>3
                <5> QED BY <3>1, <3>2, <4>3, <5>1
            <4> QED BY <4>2, <4>3
        <3>3. CASE /\ rows' = [q \in Rep!Replies |-> [rows[q] EXCEPT !.text = text(q)]]
                   /\ page' = sent
                   /\ stuck' = stuck \cup {q \in rs : rows[q].state = "streaming"}
            <4>1. rows'[r] = sent[r] /\ page'[r] = sent[r]
                BY <3>1, <3>3
            <4> QED BY <3>1, <3>3, <4>1
        <3> QED BY <1>3, <3>2, <3>3
    <2> HIDE DEF text, sent
    <2>4. rows' \in [Rep!Replies -> [state : RepStates, text : Seq(Nat)]] /\ page' = rows'
        BY <2>2, <2>3
    <2>5. ASSUME NEW r \in Rep!Replies
          PROVE  RepTexts(r)'
        BY <1>3, <2>3, RepFinishedTexts
    <2> QED BY <1>3, <2>1, <2>3, <2>4, <2>5
<1>4. CASE \E flushed \in SUBSET Rep!Pending \ {Rep!Pending} :
              /\ Rep!Fails
              /\ Rep!Flushed(flushed)
              /\ replies' = Rep!Taken(flushed)
              /\ stuck' = stuck \cup {r \in rs : rows[r].state = "streaming"}
    <2> HIDE DEF text, sent, streamed
    <2>1. PICK flushed \in SUBSET Rep!Pending :
              /\ Rep!Flushed(flushed)
              /\ replies' = Rep!Taken(flushed)
              /\ stuck' = stuck \cup {r \in rs : rows[r].state = "streaming"}
        BY <1>4
    <2>2. /\ rows' \in [Rep!Replies -> [state : RepStates, text : Seq(Nat)]] /\ page' = rows'
          /\ Rep!Known' = Rep!Known /\ repLost \subseteq repLost'
          /\ \A r \in Rep!Known : replies'[r] \in [pending : Seq(Nat), written : Nat]
          /\ \A r \in Rep!Replies : rows'[r].state = rows[r].state /\ RepTexts(r)'
        BY <2>1, RepFlushes
    <2> QED BY <2>1, <2>2
<1> QED BY <1>3, <1>4 DEF Rep!FinishStreaming

\* The timer's flush keeps the invariant.
LEMMA RepFlush ==
    ASSUME RepInv, Rep!Flush
    PROVE  RepInv'
<1>1. UNCHANGED <<repTurn, said, unsaved, stuck>>
    BY DEF Rep!Flush
<1>2. PICK rs \in SUBSET Rep!Pending : Rep!Flushed(rs) /\ replies' = Rep!Taken(rs)
    BY DEF Rep!Flush
<1>3. /\ rows' \in [Rep!Replies -> [state : RepStates, text : Seq(Nat)]] /\ page' = rows'
      /\ Rep!Known' = Rep!Known /\ repLost \subseteq repLost'
      /\ \A r \in Rep!Known : replies'[r] \in [pending : Seq(Nat), written : Nat]
      /\ \A r \in Rep!Replies : rows'[r].state = rows[r].state /\ RepTexts(r)'
    BY <1>1, <1>2, RepFlushes
<1>4. RepTypes'
    BY <1>1, <1>3 DEF RepInv, RepTypes
<1>5. \A r \in Rep!Replies : RepTurns(r)'
    BY <1>1, <1>3, RepTurnsOn
<1> QED BY <1>3, <1>4, <1>5 DEF RepInv

\* A turn's end, or an app server's, which ends some of the user's replies.
LEMMA RepTurnEnds ==
    ASSUME RepInv, NEW u \in Users, repTurn' = [repTurn EXCEPT ![u].running = 0],
           UNCHANGED <<said, unsaved>>,
           rows' \in [Rep!Replies -> [state : RepStates, text : Seq(Nat)]], page' = rows',
           Rep!Known' \subseteq Rep!Known, repLost \subseteq repLost',
           \A r \in Rep!Known' : replies'[r] \in [pending : Seq(Nat), written : Nat],
           \A r \in Rep!Replies :
              /\ RepTexts(r)'
              /\ rows'[r].state = "streaming" => rows[r].state = "streaming"
              /\ r[1] # u => (r \in Rep!Known => r \in Rep!Known') /\ (r \in stuck => r \in stuck')
              /\ r[1] = u /\ rows'[r].state = "streaming" => r \in stuck'
    PROVE  RepInv'
<1>1. repTurn \in [Users -> [running : Nat, begun : Nat]] /\ RepTypes
    BY DEF RepInv, RepTypes
<1>2. /\ repTurn' \in [Users -> [running : Nat, begun : Nat]]
      /\ repTurn'[u].running = 0 /\ repTurn'[u].begun = repTurn[u].begun
      /\ \A v \in Users : v # u => repTurn'[v] = repTurn[v]
    BY <1>1
<1>3. \A v \in Users : repTurn'[v].running \in {0, repTurn'[v].begun}
    BY <1>1, <1>2 DEF RepTypes
<1>4. RepTypes'
    BY <1>1, <1>2, <1>3 DEF RepTypes
<1>5. ASSUME NEW r \in Rep!Replies
      PROVE  RepTurns(r)'
    <2>1. r[1] \in Users /\ RepTurns(r)
        BY DEF Rep!Replies, RepInv
    <2>2. CASE r[1] = u
        <3>1. ~Rep!Speaking(r)'
            BY <1>2, <2>2 DEF Rep!Speaking
        <3>2. said'[r].turn =< repTurn'[r[1]].begun
            BY <1>2, <2>1, <2>2 DEF RepTurns
        <3> QED BY <2>2, <3>1, <3>2 DEF RepTurns
    <2>3. CASE r[1] # u
        <3>1. repTurn'[r[1]] = repTurn[r[1]] /\ said'[r] = said[r]
            BY <1>2, <2>1, <2>3
        <3>2. /\ rows'[r].state = "streaming" => rows[r].state = "streaming"
              /\ r \in Rep!Known => r \in Rep!Known' \cup repLost'
              /\ r \in repLost => r \in repLost'
              /\ r \in unsaved => r \in unsaved'
              /\ r \in stuck => r \in stuck'
            BY <2>3
        <3> QED BY <3>1, <3>2, RepTurnsOn
    <2> QED BY <2>2, <2>3
<1> QED BY <1>4, <1>5 DEF RepInv

\* A turn ends.
LEMMA RepTurnCompleted ==
    ASSUME RepInv, NEW u \in Users, Rep!TurnCompleted(u)
    PROVE  RepInv'
<1>1. PICK statusNow \in {"complete", "interrupted", "failed"} :
          /\ repTurn[u].running # 0
          /\ repTurn' = [repTurn EXCEPT ![u].running = 0]
          /\ Rep!FinishStreaming(Rep!OfTurn(u), statusNow)
          /\ UNCHANGED <<said, unsaved>>
    BY DEF Rep!TurnCompleted
<1>2. Rep!OfTurn(u) \in SUBSET Rep!Replies /\ statusNow \in RepStates /\ statusNow # "streaming"
    BY DEF Rep!OfTurn, Rep!Replies, RepStates
<1>3. /\ rows' \in [Rep!Replies -> [state : RepStates, text : Seq(Nat)]] /\ page' = rows'
      /\ Rep!Known' \subseteq Rep!Known /\ Rep!Known \ Rep!OfTurn(u) \subseteq Rep!Known'
      /\ repLost \subseteq repLost'
      /\ \A r \in Rep!Known' : replies'[r] \in [pending : Seq(Nat), written : Nat]
      /\ \A r \in Rep!Replies :
            /\ RepTexts(r)'
            /\ rows'[r].state = "streaming" => rows[r].state = "streaming"
            /\ r \notin Rep!OfTurn(u) /\ r \in stuck => r \in stuck'
            /\ r \in Rep!OfTurn(u) /\ rows'[r].state = "streaming" => r \in stuck'
    BY <1>1, <1>2, RepFinishes
<1>4. \A r \in Rep!Replies : r[1] # u => r \notin Rep!OfTurn(u)
    BY DEF Rep!OfTurn
<1>5. ASSUME NEW r \in Rep!Replies, r[1] = u, rows'[r].state = "streaming"
      PROVE  r \in stuck'
    <2>1. CASE r \in Rep!OfTurn(u)
        BY <1>3, <1>5, <2>1
    <2>2. CASE r \notin Rep!OfTurn(u)
        <3>1. said[r].turn # repTurn[u].running
            BY <1>5, <2>2 DEF Rep!OfTurn, Rep!Replies
        <3>2. r \in stuck
            BY <1>3, <1>5, <3>1 DEF RepInv, RepTurns
        <3> QED BY <1>3, <2>2, <3>2
    <2> QED BY <2>1, <2>2
<1>6. \A r \in Rep!Replies :
         /\ RepTexts(r)'
         /\ rows'[r].state = "streaming" => rows[r].state = "streaming"
         /\ r[1] # u => (r \in Rep!Known => r \in Rep!Known') /\ (r \in stuck => r \in stuck')
         /\ r[1] = u /\ rows'[r].state = "streaming" => r \in stuck'
    BY <1>3, <1>4, <1>5
<1> QED BY <1>1, <1>3, <1>6, RepTurnEnds

\* The process exits.
LEMMA RepExited ==
    ASSUME RepInv, NEW u \in Users, Rep!Exited(u)
    PROVE  RepInv'
<1> DEFINE mine == {u} \X (1..MaxReplies)
<1>1. /\ repTurn' = [repTurn EXCEPT ![u].running = 0] /\ UNCHANGED <<said, unsaved>>
      /\ \/ Rep!FinishStreaming(mine, "failed")
         \/ /\ stuck' = stuck \cup {r \in mine : rows[r].state = "streaming"}
            /\ UNCHANGED <<rows, page, replies, repLost>>
    BY DEF Rep!Exited
<1>2. /\ mine \in SUBSET Rep!Replies
      /\ \A r \in Rep!Replies : r \in mine <=> r[1] = u
    BY DEF Rep!Replies
<1> HIDE DEF mine
<1>3. CASE Rep!FinishStreaming(mine, "failed")
    <2>1. "failed" \in RepStates /\ "failed" # "streaming"
        BY DEF RepStates
    <2>2. /\ rows' \in [Rep!Replies -> [state : RepStates, text : Seq(Nat)]] /\ page' = rows'
          /\ Rep!Known' \subseteq Rep!Known /\ Rep!Known \ mine \subseteq Rep!Known'
          /\ repLost \subseteq repLost'
          /\ \A r \in Rep!Known' : replies'[r] \in [pending : Seq(Nat), written : Nat]
          /\ \A r \in Rep!Replies :
                /\ RepTexts(r)'
                /\ rows'[r].state = "streaming" => rows[r].state = "streaming"
                /\ r \notin mine /\ r \in stuck => r \in stuck'
                /\ r \in mine /\ rows'[r].state = "streaming" => r \in stuck'
        BY <1>1, <1>2, <1>3, <2>1, RepFinishes
    <2>3. \A r \in Rep!Replies :
             /\ RepTexts(r)'
             /\ rows'[r].state = "streaming" => rows[r].state = "streaming"
             /\ r[1] # u => (r \in Rep!Known => r \in Rep!Known') /\ (r \in stuck => r \in stuck')
             /\ r[1] = u /\ rows'[r].state = "streaming" => r \in stuck'
        BY <1>2, <2>2
    <2> QED BY <1>1, <2>2, <2>3, RepTurnEnds
<1>4. CASE /\ stuck' = stuck \cup {r \in mine : rows[r].state = "streaming"}
           /\ UNCHANGED <<rows, page, replies, repLost>>
    <2>1. /\ rows' \in [Rep!Replies -> [state : RepStates, text : Seq(Nat)]] /\ page' = rows'
          /\ Rep!Known' = Rep!Known /\ \A r \in Rep!Known' : replies'[r] \in [pending : Seq(Nat), written : Nat]
        BY <1>4 DEF RepInv, RepTypes, Rep!Known
    <2>2. \A r \in Rep!Replies : RepTexts(r)'
        BY <1>1, <1>4, <2>1, RepTextsOn DEF RepInv
    <2>3. \A r \in Rep!Replies :
             /\ RepTexts(r)'
             /\ rows'[r].state = "streaming" => rows[r].state = "streaming"
             /\ r[1] # u => (r \in Rep!Known => r \in Rep!Known') /\ (r \in stuck => r \in stuck')
             /\ r[1] = u /\ rows'[r].state = "streaming" => r \in stuck'
        BY <1>2, <1>4, <2>1, <2>2
    <2> QED BY <1>1, <1>4, <2>1, <2>3, RepTurnEnds
<1> QED BY <1>1, <1>3, <1>4

\* A restart loses what is held back.
LEMMA RepRestart ==
    ASSUME RepInv, Rep!Restart
    PROVE  RepInv'
<1>1. /\ repTurn' = [u \in Users |-> [repTurn[u] EXCEPT !.running = 0]]
      /\ replies' = <<>> /\ repLost' = repLost \cup Rep!Known /\ stuck' = {}
      /\ UNCHANGED <<said, unsaved>>
    BY DEF Rep!Restart
<1>2. PICK final : /\ final = [r \in Rep!Replies |-> [rows[r] EXCEPT !.state = "failed"]]
                   /\ Rep!Ends(Rep!Replies, final)
    BY DEF Rep!Restart
<1>3. /\ rows' = [r \in Rep!Replies |-> IF rows[r].state = "streaming" THEN final[r] ELSE rows[r]]
      /\ page' = [r \in Rep!Replies |-> IF rows[r].state = "streaming" THEN rows'[r] ELSE page[r]]
    BY <1>2 DEF Rep!Ends
<1>4. RepTypes /\ page = rows /\ Rep!Known' = {}
    BY <1>1 DEF RepInv, RepTypes, Rep!Known
<1>5. ASSUME NEW r \in Rep!Replies
      PROVE  /\ rows'[r] \in [state : RepStates, text : Seq(Nat)] /\ rows'[r].text = rows[r].text
             /\ rows'[r].state # "streaming" /\ page'[r] = rows'[r]
             /\ rows[r].state # "streaming" => rows'[r] = rows[r]
    <2>1. rows[r] \in [state : RepStates, text : Seq(Nat)]
        BY <1>4 DEF RepTypes
    <2>2. CASE rows[r].state = "streaming"
        <3>1. rows'[r] = [rows[r] EXCEPT !.state = "failed"] /\ page'[r] = rows'[r]
            BY <1>2, <1>3, <2>2
        <3> QED BY <2>1, <2>2, <3>1 DEF RepStates
    <2>3. CASE rows[r].state # "streaming"
        BY <1>3, <1>4, <2>1, <2>3
    <2> QED BY <2>2, <2>3
<1>6. rows' \in [Rep!Replies -> [state : RepStates, text : Seq(Nat)]] /\ page' = rows'
    <2>1. rows' = [r \in Rep!Replies |-> rows'[r]] /\ page' = [r \in Rep!Replies |-> page'[r]]
        BY <1>3
    <2> QED BY <1>5, <2>1
<1>7. /\ repTurn' \in [Users -> [running : Nat, begun : Nat]]
      /\ \A u \in Users : repTurn'[u].running = 0 /\ repTurn'[u].begun = repTurn[u].begun
    BY <1>1, <1>4 DEF RepTypes
<1>8. RepTypes'
    BY <1>1, <1>4, <1>6, <1>7 DEF RepTypes
<1>9. ASSUME NEW r \in Rep!Replies
      PROVE  RepTexts(r)' /\ RepTurns(r)'
    <2>1. RepTexts(r) /\ RepTurns(r) /\ r[1] \in Users
        BY DEF RepInv, Rep!Replies
    <2>2. /\ RepGiven(r) \in Seq(Nat) /\ rows[r].text \in Seq(Nat) /\ said[r].pieces \in Nat
          /\ r \in Rep!Known => replies[r].pending \in Seq(Nat)
          /\ r \in Rep!Known => RepGiven(r) = rows[r].text \o replies[r].pending
          /\ r \notin Rep!Known => RepGiven(r) = rows[r].text
        BY <1>4, RepHas
    <2>3. RepGiven(r)' = rows[r].text
        BY <1>4, <1>5, <2>2, ConcatEmptySeq DEF RepGiven
    <2>4. RepRising(rows[r].text, said[r].pieces)
        <3>1. CASE r \in Rep!Known
            <4>1. PICK text \in Seq(Nat) : text = rows[r].text
                BY <2>2
            <4>2. PICK pending \in Seq(Nat) : pending = replies[r].pending
                BY <2>2, <3>1
            <4>3. RepRising(text \o pending, said[r].pieces)
                BY <2>1, <2>2, <3>1, <4>1, <4>2 DEF RepTexts
            <4>4. RepRising(text, said[r].pieces)
                BY <2>2, <4>3, RepPrefix
            <4> QED BY <4>1, <4>4
        <3>2. CASE r \notin Rep!Known
            BY <2>1, <2>2, <3>2 DEF RepTexts
        <3> QED BY <3>1, <3>2
    <2>5. said[r].over /\ r \notin unsaved =>
              rows'[r] = [state |-> "complete", text |-> Rep!Pieces(0, said[r].pieces)]
        BY <1>5, <2>1 DEF RepTexts
    <2>6. said[r].turn = 0 => rows'[r] = Rep!None
        BY <1>5, <2>1 DEF RepTexts, Rep!None
    <2>7. r \notin repLost' \cup unsaved => rows[r].text = Rep!Pieces(0, said[r].pieces)
        BY <1>1, <2>1, <2>2 DEF RepTexts
    <2>8. RepTexts(r)'
        BY <1>1, <1>4, <2>1, <2>3, <2>4, <2>5, <2>6, <2>7 DEF RepTexts
    <2>9. RepTurns(r)'
        BY <1>1, <1>5, <1>7, <2>1 DEF RepTurns, Rep!Speaking
    <2> QED BY <2>8, <2>9
<1> QED BY <1>8, <1>9 DEF RepInv

\* A step that changes nothing.
LEMMA RepStill ==
    ASSUME RepInv, UNCHANGED Rep!vars
    PROVE  RepInv'
<1>1. UNCHANGED <<repTurn, said, rows, replies, page, repLost, unsaved, stuck, repFaults>> /\ Rep!Known' = Rep!Known
    BY DEF Rep!vars, Rep!Known
<1>2. RepTypes'
    BY <1>1 DEF RepInv, RepTypes
<1>3. \A r \in Rep!Replies : RepTexts(r)' /\ RepTurns(r)'
    BY <1>1, RepTextsOn, RepTurnsOn DEF RepInv
<1> QED BY <1>2, <1>3 DEF RepInv

\* Every step keeps the invariant.
LEMMA RepStep ==
    ASSUME RepInv, [Rep!Next]_Rep!vars
    PROVE  RepInv'
    BY RepTurnStarts, RepItemStarted, RepTurnCompleted, RepExited, RepDelta, RepItemCompleted,
       RepFlush, RepRestart, RepStill DEF Rep!Next

\* The inductive invariant holds of every reachable state of the replies.
THEOREM RepInvariant == Rep!Spec => []RepInv
<1>1. Rep!Init => RepInv
    BY RepInit
<1>2. RepInv /\ [Rep!Next]_Rep!vars => RepInv'
    BY RepStep
<1> QED BY <1>1, <1>2, PTL DEF Rep!Spec

\* Row and text held back are what Codex said, in its order, but for what a failed write or
\* a restart lost; a reply it finished is whole, none is left streaming, and the page shows
\* what the rows hold (`Replies`, `finish_streaming`).
THEOREM RepSaid == Rep!Spec => []Rep!RepliesAreSaid
<1>1. RepInv => Rep!RepliesAreSaid
    BY RepSays
<1>2. Rep!Spec => []RepInv
    BY RepInvariant
<1> QED BY <1>1, <1>2, PTL

HIDE DEF repTurn, said, rows, replies, page, repLost, unsaved, stuck, repFaults

-----------------------------------------------------------------------------
(* What follows of MCServices. *)

\* An invitation makes one account at most, and a member is told of every reset of their
\* password (`accept_invitation`, `acknowledge_password_reset`), for any number of users,
\* sessions, invitations and requests.
THEOREM AccountsAreKept == ServicesSpec => AccountsKept
<1>1. ServicesInit => (part = "accounts" => AccInv)
    BY AccInit DEF ServicesInit
<1>2. [ServicesNext]_all => (part' = part /\ (part = "accounts" => [Acc!Next]_Acc!vars))
    BY DEF ServicesNext, all, Acc!vars
<1>3. (part = "accounts" => AccInv) /\ [ServicesNext]_all => (part = "accounts" => AccInv)'
    BY <1>2, AccStep
<1>4. (part = "accounts" => AccInv) => (part = "accounts" => Acc!InvitedOnce)
    BY AccSays
<1>5. (part = "accounts" => AccInv) /\ [ServicesNext]_all => [part = "accounts" => Acc!TellsOfReset]_all
    <2> SUFFICES ASSUME AccInv, part = "accounts", ServicesNext, ~UNCHANGED all PROVE Acc!TellsOfReset
        OBVIOUS
    <2>1. Acc!Next /\ UNCHANGED <<part>> /\ ~UNCHANGED Acc!vars
        BY DEF ServicesNext, all, Acc!vars
    <2> QED BY <2>1, AccTells
<1> QED BY <1>1, <1>3, <1>4, <1>5, PTL DEF ServicesSpec, AccountsKept

\* Turns and tokens are counted exactly within their windows, and what left a window is
\* announced by the next pass that succeeds (`reserve_turn`, `roll_over`), for any windows,
\* limits and failures.
THEOREM UsageIsCounted ==
    ASSUME MeterConstants
    PROVE  ServicesSpec => []UsageCounted
<1>1. ServicesInit => (part = "allowance" => MeterInv)
    BY MeterInit DEF ServicesInit
<1>2. [ServicesNext]_all => (part' = part /\ (part = "allowance" => [Meter!Next]_Meter!vars))
    BY DEF ServicesNext, all, Meter!vars
<1>3. (part = "allowance" => MeterInv) /\ [ServicesNext]_all => (part = "allowance" => MeterInv)'
    BY <1>2, MeterStep
<1>4. (part = "allowance" => MeterInv) => (part = "allowance" => Meter!CountsExact /\ Meter!RolledOverAnnounced)
    BY MeterExact, MeterRolledOver
<1> QED BY <1>1, <1>3, <1>4, PTL DEF ServicesSpec, UsageCounted

\* A row and the page that follows the events hold what Codex said, and a reply ends with
\* its turn (`flush`, `finish_streaming`), for any users, replies, pieces of text, turns,
\* failures and restarts.
THEOREM RepliesKept == ServicesSpec => []RepliesAreSaid
<1>1. ServicesInit => (part = "replies" => RepInv)
    BY RepInit DEF ServicesInit
<1>2. [ServicesNext]_all => (part' = part /\ (part = "replies" => [Rep!Next]_Rep!vars))
    BY DEF ServicesNext, all, Rep!vars
<1>3. (part = "replies" => RepInv) /\ [ServicesNext]_all => (part = "replies" => RepInv)'
    BY <1>2, RepStep
<1>4. (part = "replies" => RepInv) => (part = "replies" => Rep!RepliesAreSaid)
    BY RepSays
<1> QED BY <1>1, <1>3, <1>4, PTL DEF ServicesSpec, RepliesAreSaid

=============================================================================
