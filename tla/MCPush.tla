------------------------------- MODULE MCPush -------------------------------
(* An instance of Push for TLC. *)
EXTENDS Push

OneDevice == {[id |-> 1, session |-> "phone", endpoint |-> "here"]}

\* States that differ only in what nothing reads again are one to TLC: why a
\* push was not sent, whether one was taken, how a run ended, and the times
\* of what is settled.
Relevant ==
    <<now, account, shownUntil, live, subs, gone, turn, calls, sender, tasks, flight, events,
      [r \in RunIds |-> IF run[r].state = "ended" THEN <<run[r].turn>> ELSE run[r]],
      [n \in DOMAIN notes |-> <<notes[n].turn, notes[n].run, notes[n].kind,
                                Max({notes[n].created, now - Hour})>>],
      [p \in DOMAIN pushes |->
          LET push == pushes[p] IN
          CASE push.state = "queued" -> <<push.cause, push.note, push.created>>
            [] push.state \in {"sending", "sent", "failed"} ->
                   <<push.state = "sending", push.note, push.cause = "notify", push.created>>
            [] push.state \in {"merged", "deleted"} -> <<>>
            [] OTHER -> <<push.note, push.cause = "notify", push.created>>],
      claims>>

=============================================================================
