------------------------------ MODULE Accounts ------------------------------
(***************************************************************************)
(* Accounts, sessions and invitations (crates/bokkie-gateway/src/          *)
(* accounts.rs, routes/accounts.rs, routes/admin.rs): the requests that    *)
(* take several steps, as hashing a password is awaited between what is    *)
(* read and what is written, run side by side.                             *)
(*                                                                         *)
(* Usernames, permissions, display names and time zones are left out, and  *)
(* a password that is wrong: it changes nothing here (module LoginLimiter  *)
(* counts it).  The times at which resets are recorded are all different.  *)
(***************************************************************************)
EXTENDS Integers, Sequences, FiniteSets, SequencesExt

CONSTANTS MaxUsers, MaxSessions, MaxInvitations, MaxRequests, MaxChanges   \* bounds

VARIABLES
    users,        \* the rows of `users`, by id
    sessions,     \* the rows of `sessions`; `told` is the reset its page shows
    invitations,  \* the rows of `invitations`
    requests,     \* the requests under way, and what they have read
    changes       \* how many passwords were set and accounts changed

vars == <<users, sessions, invitations, requests, changes>>

\* One admin, made on the control socket, is signed in.
Init ==
    /\ users = <<[role |-> "admin", disabled |-> FALSE, reset |-> 0,
                  oversight |-> FALSE, from |-> 0]>>
    /\ sessions = <<[user |-> 1, live |-> TRUE, told |-> 0, during |-> {}]>>
    /\ invitations = <<>> /\ requests = <<>> /\ changes = 0

\* The session a cookie names, while it is live and its account enabled (`find_session`).
Live(s) == sessions[s].live /\ ~users[sessions[s].user].disabled

IsAdmin(s) == Live(s) /\ users[sessions[s].user].role = "admin"

\* A request's first step: what it checks before a password is hashed.
Starts(r) ==
    /\ Len(requests) < MaxRequests
    /\ requests' = Append(requests, r)

Ends(i) == requests' = RemoveAt(requests, i)

\* Every session of a user but one is revoked (`revoke_all_sessions`).
Revoked(ss, u, except) ==
    [s \in DOMAIN ss |-> IF ss[s].user = u /\ s # except THEN [ss[s] EXCEPT !.live = FALSE] ELSE ss[s]]

\* A session as it is made. `during`, which no code keeps, are the changes
\* made while its sign-in was under way.
Created(ss, u, told, since) ==
    Append(ss, [user |-> u, live |-> TRUE, told |-> told, during |-> (since + 1)..changes])

-----------------------------------------------------------------------------
(* Signing in and out *)

\* The password is right, as it was stored when read (`check_credentials`).
\* The hash is verified, and the session made, after.
StartSignIn(u) ==
    /\ ~users[u].disabled
    /\ Starts([op |-> "signIn", user |-> u, told |-> users[u].reset, since |-> changes])
    /\ UNCHANGED <<users, sessions, invitations, changes>>

\* The session is made, and the page told what the account said (`login`).
SignIn(i) ==
    LET r == requests[i]
    IN  /\ r.op = "signIn" /\ Len(sessions) < MaxSessions
        /\ sessions' = Created(sessions, r.user, r.told, r.since)
        /\ Ends(i)
        /\ UNCHANGED <<users, invitations, changes>>

\* A page asks who is signed in (`current`).
Look(s) ==
    /\ Live(s) /\ sessions[s].told # users[sessions[s].user].reset
    /\ sessions' = [sessions EXCEPT ![s].told = users[sessions[s].user].reset]
    /\ UNCHANGED <<users, invitations, requests, changes>>

\* A user signs out, or revokes another of their sessions (`revoke_session`).
Revoke(s, other) ==
    /\ Live(s) /\ sessions[other].user = sessions[s].user /\ sessions[other].live
    /\ sessions' = [sessions EXCEPT ![other].live = FALSE]
    /\ UNCHANGED <<users, invitations, requests, changes>>

-----------------------------------------------------------------------------
(* Passwords *)

\* The current password is the one stored (`change_own_password`).
StartChange(s) ==
    /\ Live(s)
    /\ Starts([op |-> "change", user |-> sessions[s].user, session |-> s])
    /\ UNCHANGED <<users, sessions, invitations, changes>>

\* The new one is stored, and every other session of the user revoked.
ChangePassword(i) ==
    LET r == requests[i]
    IN  /\ r.op = "change" /\ changes < MaxChanges
        /\ changes' = changes + 1
        /\ sessions' = Revoked(sessions, r.user, r.session)
        /\ Ends(i)
        /\ UNCHANGED <<users, invitations>>

MayReset(admin, target) == users[target].role = "member" \/ target = admin

\* An admin may set the password of a member, or their own (`admin_reset_password`).
StartReset(s, target) ==
    /\ IsAdmin(s) /\ MayReset(sessions[s].user, target)
    /\ Starts([op |-> "reset", user |-> sessions[s].user, target |-> target])
    /\ UNCHANGED <<users, sessions, invitations, changes>>

\* It is decided again in the transaction that stores it, and revokes every session.
ResetPassword(i) ==
    LET r == requests[i]
    IN  /\ r.op = "reset" /\ changes < MaxChanges
        /\ MayReset(r.user, r.target)
        /\ changes' = changes + 1
        /\ users' = [users EXCEPT
                        ![r.target].reset = IF users[r.target].role = "member" THEN changes + 1 ELSE @]
        /\ sessions' = Revoked(sessions, r.target, 0)
        /\ Ends(i)
        /\ UNCHANGED invitations

\* The page that shows a reset is told its owner has read it.
StartAcknowledge(s) ==
    /\ Live(s) /\ sessions[s].told # 0
    /\ Starts([op |-> "acknowledge", user |-> sessions[s].user, session |-> s])
    /\ UNCHANGED <<users, sessions, invitations, changes>>

StillLive(s) == sessions[s].live

\* The record is cleared, only while the session is live (`acknowledge_password_reset`).
Acknowledge(i) ==
    LET r == requests[i]
    IN  /\ r.op = "acknowledge"
        /\ users' = IF StillLive(r.session) THEN [users EXCEPT ![r.user].reset = 0] ELSE users
        /\ Ends(i)
        /\ UNCHANGED <<sessions, invitations, changes>>

-----------------------------------------------------------------------------
(* Admins *)

\* An admin disables or enables an account, or sets oversight of a member
\* (`admin_update_user`); a disabled account's sessions are revoked.
Update(s, target, disabled, oversight) ==
    /\ IsAdmin(s) /\ changes < MaxChanges
    /\ ~(target = sessions[s].user /\ disabled)
    /\ ~(users[target].role = "admin" /\ oversight)
    /\ <<users[target].disabled, users[target].oversight>> # <<disabled, oversight>>
    /\ changes' = changes + 1
    /\ users' = [users EXCEPT ![target].disabled = disabled, ![target].oversight = oversight]
    /\ sessions' = IF disabled THEN Revoked(sessions, target, 0) ELSE sessions
    /\ UNCHANGED <<invitations, requests>>

Invite(s, role) ==
    /\ IsAdmin(s) /\ Len(invitations) < MaxInvitations
    /\ invitations' = Append(invitations, [role |-> role, used |-> FALSE, ended |-> "no"])
    /\ UNCHANGED <<users, sessions, requests, changes>>

Withdraw(s, v) ==
    /\ IsAdmin(s) /\ ~invitations[v].used /\ invitations[v].ended # "withdrawn"
    /\ invitations' = [invitations EXCEPT ![v].ended = "withdrawn"]
    /\ UNCHANGED <<users, sessions, requests, changes>>

\* An invitation's time passes.
Expire(v) ==
    /\ invitations[v].ended = "no"
    /\ invitations' = [invitations EXCEPT ![v].ended = "expired"]
    /\ UNCHANGED <<users, sessions, requests, changes>>

-----------------------------------------------------------------------------
(* New accounts *)

\* The code names an invitation that is open (`accept_invitation`).
StartAccept(v) ==
    /\ ~invitations[v].used /\ invitations[v].ended = "no"
    /\ Starts([op |-> "accept", invitation |-> v, role |-> invitations[v].role])
    /\ UNCHANGED <<users, sessions, invitations, changes>>

\* Mutant: the code is consumed without looking whether it still may be.
UsableAtStart(v) == TRUE

\* Whether the code can be consumed; its time was read when the request came.
Usable(v) == ~invitations[v].used /\ invitations[v].ended # "withdrawn"

NewUser(role, from) ==
    [role |-> role, disabled |-> FALSE, reset |-> 0,
     oversight |-> FALSE, from |-> from]

\* The account is made and the code consumed at once, or neither.
Accept(i) ==
    LET r == requests[i]
    IN  /\ r.op = "accept" /\ Len(users) < MaxUsers
        /\ IF Usable(r.invitation)
           THEN /\ users' = Append(users, NewUser(r.role, r.invitation))
                /\ invitations' = [invitations EXCEPT ![r.invitation].used = TRUE]
                /\ requests' = [requests EXCEPT ![i] = [op |-> "signIn", user |-> Len(users) + 1,
                                                        told |-> 0, since |-> changes]]
           ELSE UNCHANGED <<users, invitations>> /\ Ends(i)
        /\ UNCHANGED <<sessions, changes>>

Next ==
    \/ \E u \in DOMAIN users : StartSignIn(u)
    \/ \E i \in DOMAIN requests : SignIn(i) \/ ChangePassword(i) \/ ResetPassword(i)
                                  \/ Acknowledge(i) \/ Accept(i)
    \/ \E s \in DOMAIN sessions :
          \/ Look(s) \/ StartChange(s) \/ StartAcknowledge(s)
          \/ \E other \in DOMAIN sessions : Revoke(s, other)
          \/ \E target \in DOMAIN users :
                \/ StartReset(s, target)
                \/ \E disabled, oversight \in BOOLEAN : Update(s, target, disabled, oversight)
          \/ \E role \in {"admin", "member"} : Invite(s, role)
          \/ \E v \in DOMAIN invitations : Withdraw(s, v)
    \/ \E v \in DOMAIN invitations : Expire(v) \/ StartAccept(v)

Spec == Init /\ [][Next]_vars

-----------------------------------------------------------------------------
(* Correctness *)

\* Accepted by two at once, withdrawn or expired while a password is hashed,
\* an invitation makes at most one account, with the role it offered, and
\* none if it was withdrawn (`accept_invitation`).
InvitedOnce ==
    \A v \in DOMAIN invitations :
        LET made == {u \in DOMAIN users : users[u].from = v}
        IN  /\ Cardinality(made) =< 1
            /\ invitations[v].ended = "withdrawn" => made = {}
            /\ \A u \in made : users[u].role = invitations[v].role

\* A member is told of every reset of their password: its record goes only
\* as a session that showed that very reset says so, whatever resets and
\* sign-outs come between; a reset while that session was signing in aside
\* (`acknowledge_password_reset`).
TellsOfReset ==
    \A u \in DOMAIN users :
        users[u].reset # 0 /\ users'[u].reset = 0 =>
            \E s \in DOMAIN sessions :
                /\ sessions[s].user = u /\ sessions[s].live
                /\ sessions[s].told = users[u].reset \/ users[u].reset \in sessions[s].during

ResetsTold == [][TellsOfReset]_vars

=============================================================================
