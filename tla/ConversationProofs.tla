------------------------- MODULE ConversationProofs -------------------------
(*****************************************************************************)
(* What a Bot's conversation guarantees for any number of messages, runs and *)
(* turns, whatever fails and whenever the gateway restarts; and, last, that  *)
(* its status is announced, as long as the gateway does not restart.         *)
(*****************************************************************************)
EXTENDS Conversation, SequenceTheorems, SequencesExt, TLAPS

ReportType == [type : Reports \ {"took"}, turn : Turns \cup {0}, message : {NoOne}, ending : Endings]
              \cup [type : {"took"}, turn : Turns, message : Messages, ending : Endings]

WorkType == [step : Steps, active : Turns \cup {0}, server : Nat, reserved : BOOLEAN,
             turn : Turns \cup {0}, carries : BOOLEAN]
BotType == [grants : GrantSets, thread : Nat, made : GrantSets, carryover : BOOLEAN,
            refused : BOOLEAN]
LiveType == [turn : Turns \cup {0}, ended : [Turns -> Endings \cup {"none"}],
             steered : [Turns -> SUBSET Messages], owed : SUBSET Messages]
RunType == [state : {"waiting", "running"} \cup RunEndings, turn : Turns \cup {0}]
ReplyStates == {"none", "streaming", "complete", "interrupted", "failed"}
RouterType == [announces : {"nothing", "status", "ended", "refused", "exited"},
               turn : Turns \cup {0}, ending : Endings, idle : BOOLEAN, owing : BOOLEAN]
CodexType == [up : BOOLEAN, serial : Nat, running : SUBSET Turns, asked : SUBSET Turns,
              talk : [Turns -> {"silent", "speaking", "spoken"}], tainted : BOOLEAN]
TurnType == [thread : Nat, made : GrantSets, carries : BOOLEAN]
HistoryType == [changes : Nat, others : Nat, lost : Nat, waiting : SUBSET (Messages \X Turns)]

\* The task that holds the lock, where it is and what it has.
WorkFits ==
    /\ lock = NoOne <=> work.step = "none"
    /\ work.step = "none" => work = NoWork
    /\ lock # NoOne => stage[lock] = "new"
    /\ work.step \in {"runtime", "again", "steer"} => work.turn = 0 /\ ~work.reserved
    /\ work.step = "thread" => work.turn = 0 /\ (work.reserved <=> work.active = 0)
    /\ work.step = "start" => work.turn = 0 /\ work.reserved /\ bot.made = bot.grants
    /\ work.step \in {"record", "announce", "mark"} =>
           work.turn = Len(turns) /\ work.turn \in Turns
    /\ work.step = "record" => turns[work.turn].thread = bot.thread

\* The Bot's thread is the latest, and a fresh one that replaced another and has
\* run nothing still owes the carry-over.
Unused(thread) == \A t \in 1..Len(turns) : turns[t].thread # thread
ThreadsFit ==
    /\ \A t \in 1..Len(turns) : turns[t].thread =< bot.thread
    /\ bot.thread > 1 /\ Unused(bot.thread) => bot.carryover

\* A run that may still be started waits, and one that runs has a turn.
RunsFit ==
    \A r \in Runs :
        /\ stage[r] = "new" => run[r].state = "waiting"
        /\ run[r].state = "running" => run[r].turn \in Turns

\* Codex runs turns it started, the latest of their threads, and only these
\* speak.
CodexFits ==
    /\ Len(turns) =< MaxTurns
    /\ codex.running \subseteq 1..Len(turns)
    /\ codex.running # {} => codex.up
    /\ \A t \in Turns : codex.talk[t] # "silent" => t \in codex.running
    /\ \A t \in codex.running : \A u \in 1..Len(turns) :
           u > t => turns[u].thread # turns[t].thread

\* What the reports `s` say of turn `t`: that it ends, or what its reply does.
EndsIn(e, t) == e.type \in {"exited", "refused"} \/ (e.type = "ended" /\ e.turn = t)
EndComes(s, t) == \E i \in 1..Len(s) : EndsIn(s[i], t)
Comes(s, type, t) == \E i \in 1..Len(s) : s[i].type = type /\ s[i].turn = t
TellsOf(e, t) == EndsIn(e, t) \/ (e.type \in {"replying", "replied"} /\ e.turn = t)
Silent(s, t) == \A i \in 1..Len(s) : ~TellsOf(s[i], t)

\* The last report that tells of turn `t` says whether it speaks.
Foretells(s, t, speaks) ==
    \A i \in 1..Len(s) :
        (TellsOf(s[i], t) /\ \A j \in 1..Len(s) : j > i => ~TellsOf(s[j], t))
            => (s[i].type = "replying" <=> speaks)

\* The reports of the first `n` turns: those of a turn that does not run are
\* followed by its end, which is told once, and a turn that runs was started
\* after every end of an app server and every turn before it.
Orderly(s, running, n) ==
    /\ \A i \in 1..Len(s) : s[i].type # "exited" => s[i].turn \in 1..n
    /\ \A i \in 1..Len(s) : s[i].type \in {"started", "took", "replying", "replied"} =>
           \/ s[i].turn \in running
           \/ \E j \in 1..Len(s) : j > i /\ EndsIn(s[j], s[i].turn)
    /\ \A i \in 1..Len(s) : s[i].type = "ended" =>
           /\ s[i].turn \notin running
           /\ \A j \in 1..Len(s) : s[j].type = "ended" /\ s[j].turn = s[i].turn => j = i
    /\ \A t \in running : \A i \in 1..Len(s) :
           (s[i].type \in {"exited", "refused"} \/ (s[i].type = "started" /\ s[i].turn < t))
               => \E j \in 1..Len(s) : j > i /\ s[j].type = "started" /\ s[j].turn = t

ReportsFit == Orderly(stream, codex.running, Len(turns))

\* A turn whose end is still to be taken from the reports.
EndIsOpen(t) == t \in codex.running \/ t > Len(turns) \/ Comes(stream, "ended", t)
EndsFit ==
    /\ \A t \in Turns : EndIsOpen(t) =>
           /\ live.ended[t] = "none"
           /\ stage[t] = "unborn"
           /\ ~(router.announces = "ended" /\ router.turn = t)
    /\ router.announces = "ended" => router.turn \in Turns /\ stage[router.turn] = "unborn"

\* A turn that a task has still to record runs, or its end is known.
RecordFits ==
    Unrecorded =>
        \/ work.turn \in codex.running
        \/ Comes(stream, "ended", work.turn)
        \/ live.ended[work.turn] # "none"

\* The Bot's turn runs or its end is reported, and a turn that runs on the Bot's
\* thread is the Bot's or its start is reported.
TurnFits ==
    /\ live.turn # 0 => live.turn \in codex.running \/ EndComes(stream, live.turn)
    /\ \A t \in codex.running :
           turns[t].thread = bot.thread => live.turn = t \/ Comes(stream, "started", t)

\* For what is owed a follow-up is coming.
OwedFits ==
    live.owed # {} =>
        \/ router.announces = "ended" /\ router.owing
        \/ \E f \in Turns : f # lock /\ stage[f] = "new"

EndIsAnnounced(t) ==
    \/ router.announces \in {"refused", "exited"}
    \/ router.announces = "ended" /\ router.turn = t

RunningFits ==
    \A r \in Runs :
        run[r].state = "running" =>
            \/ run[r].turn \in codex.running
            \/ EndComes(stream, run[r].turn)
            \/ EndIsAnnounced(run[r].turn)

Speaks(t) == t \in codex.running /\ codex.talk[t] = "speaking"
ReplyFits ==
    \A t \in Turns :
        /\ Foretells(stream, t, Speaks(t))
        /\ Silent(stream, t) =>
               IF EndIsAnnounced(t) THEN ~Speaks(t) ELSE reply[t] = "streaming" <=> Speaks(t)

IInv ==
    /\ TypeOK /\ WorkFits /\ CountedExactly /\ ThreadsFit /\ CarriesOver /\ RunsFit
    /\ CodexFits /\ ReportsFit /\ EndsFit /\ RecordFits /\ TurnFits /\ OwedFits
    /\ RunningFits /\ ReplyFits

-----------------------------------------------------------------------------
(* Reports, as they are added and taken.                                    *)

\* A report is added at the end.
LEMMA Added ==
    ASSUME NEW S, NEW s \in Seq(S), NEW e \in S
    PROVE  /\ Append(s, e) \in Seq(S)
           /\ Len(Append(s, e)) = Len(s) + 1
           /\ \A i \in 1..Len(s) : Append(s, e)[i] = s[i]
           /\ Append(s, e)[Len(s) + 1] = e
           /\ Len(s) \in Nat
           /\ \A i \in 1..Len(Append(s, e)) : i \in 1..Len(s) \/ i = Len(s) + 1
  OBVIOUS

\* The first one is taken.
LEMMA Took ==
    ASSUME NEW S, NEW s \in Seq(S), s # <<>>
    PROVE  /\ Tail(s) \in Seq(S)
           /\ Head(s) = s[1] /\ Head(s) \in S
           /\ Len(s) \in Nat \ {0}
           /\ Len(Tail(s)) = Len(s) - 1
           /\ \A i \in 1..Len(s) - 1 : Tail(s)[i] = s[i + 1]
  OBVIOUS

\* Reports in order stay so as one is taken.
LEMMA OrderlyTail ==
    ASSUME NEW s \in Seq(ReportType), s # <<>>, NEW running, NEW n \in Nat, Orderly(s, running, n)
    PROVE  Orderly(Tail(s), running, n)
<1> DEFINE p == Tail(s)
<1>1. /\ Len(s) \in Nat \ {0} /\ Len(p) = Len(s) - 1
      /\ \A i \in 1..Len(p) : p[i] = s[i + 1] /\ i + 1 \in 1..Len(s)
  BY Took
<1>2. \A j \in 1..Len(s) : j > 1 => j - 1 \in 1..Len(p) /\ s[j] = p[j - 1]
  BY <1>1
<1> HIDE DEF p
<1>3. \A i \in 1..Len(p) : p[i].type # "exited" => p[i].turn \in 1..n
  BY <1>1 DEF Orderly
<1>4. ASSUME NEW i \in 1..Len(p), p[i].type \in {"started", "took", "replying", "replied"}
      PROVE  \/ p[i].turn \in running
             \/ \E j \in 1..Len(p) : j > i /\ EndsIn(p[j], p[i].turn)
  <2>1. \/ p[i].turn \in running
        \/ \E j \in 1..Len(s) : j > i + 1 /\ EndsIn(s[j], p[i].turn)
    BY <1>1, <1>4 DEF Orderly
  <2>2. ASSUME NEW j \in 1..Len(s), j > i + 1, EndsIn(s[j], p[i].turn)
        PROVE  \E k \in 1..Len(p) : k > i /\ EndsIn(p[k], p[i].turn)
    <3>1. j - 1 \in 1..Len(p) /\ j - 1 > i /\ EndsIn(p[j - 1], p[i].turn)
      BY <1>1, <1>2, <2>2
    <3> QED  BY <3>1
  <2> QED  BY <2>1, <2>2
<1>5. ASSUME NEW i \in 1..Len(p), p[i].type = "ended"
      PROVE  /\ p[i].turn \notin running
             /\ \A j \in 1..Len(p) : p[j].type = "ended" /\ p[j].turn = p[i].turn => j = i
  <2>1. i + 1 \in 1..Len(s) /\ s[i + 1].type = "ended" /\ s[i + 1].turn = p[i].turn
    BY <1>1, <1>5
  <2>2. ASSUME NEW j \in 1..Len(p), p[j].type = "ended", p[j].turn = p[i].turn
        PROVE  j = i
    <3>1. j + 1 \in 1..Len(s) /\ s[j + 1].type = "ended" /\ s[j + 1].turn = s[i + 1].turn
      BY <1>1, <2>1, <2>2
    <3>2. j + 1 = i + 1
      BY <2>1, <3>1 DEF Orderly
    <3> QED  BY <3>2
  <2> QED  BY <2>1, <2>2 DEF Orderly
<1>6. ASSUME NEW t \in running, NEW i \in 1..Len(p),
             p[i].type \in {"exited", "refused"} \/ (p[i].type = "started" /\ p[i].turn < t)
      PROVE  \E j \in 1..Len(p) : j > i /\ p[j].type = "started" /\ p[j].turn = t
  <2>1. PICK j \in 1..Len(s) : j > i + 1 /\ s[j].type = "started" /\ s[j].turn = t
    BY <1>1, <1>6 DEF Orderly
  <2>2. j - 1 \in 1..Len(p) /\ j - 1 > i /\ p[j - 1].type = "started" /\ p[j - 1].turn = t
    BY <1>1, <1>2, <2>1
  <2> QED  BY <2>2
<1> QED  BY <1>3, <1>4, <1>5, <1>6 DEF Orderly, p

\* A turn's first report.
LEMMA OrderlyStart ==
    ASSUME NEW s \in Seq(ReportType), NEW n \in Nat, NEW running \in SUBSET (1..n),
           Orderly(s, running, n),
           NEW e \in ReportType, e.type = "started", e.turn = n + 1
    PROVE  Orderly(Append(s, e), running \cup {n + 1}, n + 1)
<1> DEFINE p == Append(s, e)
           more == running \cup {n + 1}
           last == Len(s) + 1
<1>1. /\ Len(p) = last /\ Len(s) \in Nat /\ last \in 1..Len(p)
      /\ \A i \in 1..Len(s) : p[i] = s[i] /\ i \in 1..Len(p) /\ i < last
      /\ p[last] = e
      /\ \A i \in 1..Len(p) : i \in 1..Len(s) \/ i = last
  BY Added
<1> HIDE DEF p
<1>2. \A i \in 1..Len(p) : p[i].type # "exited" => p[i].turn \in 1..(n + 1)
  BY <1>1 DEF Orderly
<1>3. ASSUME NEW i \in 1..Len(p), p[i].type \in {"started", "took", "replying", "replied"}
      PROVE  \/ p[i].turn \in more
             \/ \E j \in 1..Len(p) : j > i /\ EndsIn(p[j], p[i].turn)
  <2>1. CASE i = last
    BY <2>1, <1>1
  <2>2. CASE i \in 1..Len(s)
    <3>1. \/ p[i].turn \in running
          \/ \E j \in 1..Len(s) : j > i /\ EndsIn(s[j], p[i].turn)
      BY <1>1, <1>3, <2>2 DEF Orderly
    <3> QED  BY <1>1, <3>1
  <2> QED  BY <1>1, <2>1, <2>2
<1>4. ASSUME NEW i \in 1..Len(p), p[i].type = "ended"
      PROVE  /\ p[i].turn \notin more
             /\ \A j \in 1..Len(p) : p[j].type = "ended" /\ p[j].turn = p[i].turn => j = i
  <2>1. i \in 1..Len(s)
    BY <1>1, <1>4
  <2>2. s[i].turn \in 1..n /\ s[i].turn \notin running
    BY <1>1, <1>4, <2>1 DEF Orderly
  <2>3. ASSUME NEW j \in 1..Len(p), p[j].type = "ended", p[j].turn = p[i].turn
        PROVE  j = i
    BY <1>1, <1>4, <2>1, <2>3 DEF Orderly
  <2> QED  BY <1>1, <2>1, <2>2, <2>3
<1>5. ASSUME NEW t \in more, NEW i \in 1..Len(p),
             p[i].type \in {"exited", "refused"} \/ (p[i].type = "started" /\ p[i].turn < t)
      PROVE  \E j \in 1..Len(p) : j > i /\ p[j].type = "started" /\ p[j].turn = t
  <2>1. t =< n + 1
    OBVIOUS
  <2>2. i \in 1..Len(s)
    BY <1>1, <1>5, <2>1
  <2>3. CASE t = n + 1
    BY <1>1, <2>2, <2>3
  <2>4. CASE t \in running
    <3>1. \E j \in 1..Len(s) : j > i /\ s[j].type = "started" /\ s[j].turn = t
      BY <1>1, <1>5, <2>2, <2>4 DEF Orderly
    <3> QED  BY <1>1, <3>1
  <2> QED  BY <2>3, <2>4
<1> QED  BY <1>2, <1>3, <1>4, <1>5 DEF Orderly, p

\* Codex reports what a turn that runs does.
LEMMA OrderlySays ==
    ASSUME NEW s \in Seq(ReportType), NEW n \in Nat, NEW running \in SUBSET (1..n),
           Orderly(s, running, n), NEW t \in running,
           NEW e \in ReportType, e.type \in {"took", "replying", "replied"}, e.turn = t
    PROVE  Orderly(Append(s, e), running, n)
<1> DEFINE p == Append(s, e)
           last == Len(s) + 1
<1>1. /\ Len(p) = last /\ Len(s) \in Nat /\ last \in 1..Len(p)
      /\ \A i \in 1..Len(s) : p[i] = s[i] /\ i \in 1..Len(p) /\ i < last
      /\ p[last] = e
      /\ \A i \in 1..Len(p) : i \in 1..Len(s) \/ i = last
  BY Added
<1> HIDE DEF p
<1>2. \A i \in 1..Len(p) : p[i].type # "exited" => p[i].turn \in 1..n
  BY <1>1 DEF Orderly
<1>3. ASSUME NEW i \in 1..Len(p), p[i].type \in {"started", "took", "replying", "replied"}
      PROVE  \/ p[i].turn \in running
             \/ \E j \in 1..Len(p) : j > i /\ EndsIn(p[j], p[i].turn)
  <2>1. CASE i = last
    BY <2>1, <1>1
  <2>2. CASE i \in 1..Len(s)
    <3>1. \/ p[i].turn \in running
          \/ \E j \in 1..Len(s) : j > i /\ EndsIn(s[j], p[i].turn)
      BY <1>1, <1>3, <2>2 DEF Orderly
    <3> QED  BY <1>1, <3>1
  <2> QED  BY <1>1, <2>1, <2>2
<1>4. ASSUME NEW i \in 1..Len(p), p[i].type = "ended"
      PROVE  /\ p[i].turn \notin running
             /\ \A j \in 1..Len(p) : p[j].type = "ended" /\ p[j].turn = p[i].turn => j = i
  <2>1. i \in 1..Len(s)
    BY <1>1, <1>4
  <2>3. ASSUME NEW j \in 1..Len(p), p[j].type = "ended", p[j].turn = p[i].turn
        PROVE  j = i
    BY <1>1, <1>4, <2>1, <2>3 DEF Orderly
  <2> QED  BY <1>1, <1>4, <2>1, <2>3 DEF Orderly
<1>5. ASSUME NEW u \in running, NEW i \in 1..Len(p),
             p[i].type \in {"exited", "refused"} \/ (p[i].type = "started" /\ p[i].turn < u)
      PROVE  \E j \in 1..Len(p) : j > i /\ p[j].type = "started" /\ p[j].turn = u
  <2>1. i \in 1..Len(s)
    BY <1>1, <1>5
  <2>2. \E j \in 1..Len(s) : j > i /\ s[j].type = "started" /\ s[j].turn = u
    BY <1>1, <1>5, <2>1 DEF Orderly
  <2> QED  BY <1>1, <2>2
<1> QED  BY <1>2, <1>3, <1>4, <1>5 DEF Orderly, p

\* The end of a turn is reported.
LEMMA OrderlyEnd ==
    ASSUME NEW s \in Seq(ReportType), NEW n \in Nat, NEW running \in SUBSET (1..n),
           Orderly(s, running, n), NEW t \in running,
           NEW e \in ReportType, e.type = "ended", e.turn = t
    PROVE  Orderly(Append(s, e), running \ {t}, n)
<1> DEFINE p == Append(s, e)
           last == Len(s) + 1
<1>1. /\ Len(p) = last /\ Len(s) \in Nat /\ last \in 1..Len(p)
      /\ \A i \in 1..Len(s) : p[i] = s[i] /\ i \in 1..Len(p) /\ i < last
      /\ p[last] = e
      /\ \A i \in 1..Len(p) : i \in 1..Len(s) \/ i = last
  BY Added
<1> HIDE DEF p
<1>2. \A i \in 1..Len(p) : p[i].type # "exited" => p[i].turn \in 1..n
  BY <1>1 DEF Orderly
<1>3. ASSUME NEW i \in 1..Len(p), p[i].type \in {"started", "took", "replying", "replied"}
      PROVE  \/ p[i].turn \in running \ {t}
             \/ \E j \in 1..Len(p) : j > i /\ EndsIn(p[j], p[i].turn)
  <2>1. i \in 1..Len(s)
    BY <1>1, <1>3
  <2>2. \/ p[i].turn \in running
        \/ \E j \in 1..Len(s) : j > i /\ EndsIn(s[j], p[i].turn)
    BY <1>1, <1>3, <2>1 DEF Orderly
  <2>3. CASE p[i].turn = t
    <3>1. last > i /\ EndsIn(p[last], p[i].turn)
      BY <1>1, <2>1, <2>3 DEF EndsIn
    <3> QED  BY <1>1, <3>1
  <2> QED  BY <1>1, <2>2, <2>3
<1>4. ASSUME NEW i \in 1..Len(p), p[i].type = "ended"
      PROVE  /\ p[i].turn \notin running \ {t}
             /\ \A j \in 1..Len(p) : p[j].type = "ended" /\ p[j].turn = p[i].turn => j = i
  <2>1. \A k \in 1..Len(s) : p[k].type = "ended" => p[k].turn \notin running
    BY <1>1 DEF Orderly
  <2>2. ASSUME NEW j \in 1..Len(p), p[j].type = "ended", p[j].turn = p[i].turn
        PROVE  j = i
    <3>1. CASE i = last \/ j = last
      BY <1>1, <1>4, <2>1, <2>2, <3>1
    <3>2. CASE i \in 1..Len(s) /\ j \in 1..Len(s)
      BY <1>1, <1>4, <2>2, <3>2 DEF Orderly
    <3> QED  BY <1>1, <3>1, <3>2
  <2> QED  BY <1>1, <1>4, <2>1, <2>2
<1>5. ASSUME NEW u \in running, NEW i \in 1..Len(p),
             p[i].type \in {"exited", "refused"} \/ (p[i].type = "started" /\ p[i].turn < u)
      PROVE  \E j \in 1..Len(p) : j > i /\ p[j].type = "started" /\ p[j].turn = u
  <2>1. i \in 1..Len(s)
    BY <1>1, <1>5
  <2>2. \E j \in 1..Len(s) : j > i /\ s[j].type = "started" /\ s[j].turn = u
    BY <1>1, <1>5, <2>1 DEF Orderly
  <2> QED  BY <1>1, <2>2
<1> QED  BY <1>2, <1>3, <1>4, <1>5 DEF Orderly, p

\* The app server ends: some of its reports are lost, and nothing runs.
LEMMA OrderlyStop ==
    ASSUME NEW s \in Seq(ReportType), NEW n \in Nat, NEW running, Orderly(s, running, n),
           NEW k \in 0..Len(s), NEW e \in ReportType,
           e.type = "exited" \/ (e.type = "refused" /\ e.turn \in 1..n)
    PROVE  Orderly(Append(SubSeq(s, 1, k), e), {}, n)
<1> DEFINE q == SubSeq(s, 1, k)
           p == Append(q, e)
           last == k + 1
<1>1. q \in Seq(ReportType) /\ Len(q) = k /\ \A i \in 1..k : q[i] = s[i] /\ i \in 1..Len(s)
  BY SubSeqProperties
<1> HIDE DEF q
<1>2. /\ Len(p) = last /\ k \in Nat /\ last \in 1..Len(p)
      /\ \A i \in 1..k : p[i] = s[i] /\ i \in 1..Len(p) /\ i < last
      /\ p[last] = e
      /\ \A i \in 1..Len(p) : i \in 1..k \/ i = last
  BY Added, <1>1
<1> HIDE DEF p
<1>3. \A i \in 1..Len(p) : p[i].type # "exited" => p[i].turn \in 1..n
  BY <1>1, <1>2 DEF Orderly
<1>4. ASSUME NEW i \in 1..Len(p), p[i].type \in {"started", "took", "replying", "replied"}
      PROVE  \E j \in 1..Len(p) : j > i /\ EndsIn(p[j], p[i].turn)
  <2>1. last > i /\ EndsIn(p[last], p[i].turn)
    BY <1>2, <1>4 DEF EndsIn
  <2> QED  BY <1>2, <2>1
<1>5. ASSUME NEW i \in 1..Len(p), p[i].type = "ended"
      PROVE  \A j \in 1..Len(p) : p[j].type = "ended" /\ p[j].turn = p[i].turn => j = i
  BY <1>1, <1>2, <1>5 DEF Orderly
<1> QED  BY <1>3, <1>4, <1>5 DEF Orderly, p, q

\* What a report adds to what the reports tell.
LEMMA AddedTells ==
    ASSUME NEW s \in Seq(ReportType), NEW e \in ReportType, NEW t, NEW type, NEW x \in BOOLEAN
    PROVE  /\ Comes(Append(s, e), type, t) <=> Comes(s, type, t) \/ (e.type = type /\ e.turn = t)
           /\ EndComes(Append(s, e), t) <=> EndComes(s, t) \/ EndsIn(e, t)
           /\ Silent(Append(s, e), t) <=> Silent(s, t) /\ ~TellsOf(e, t)
           /\ TellsOf(e, t) /\ (e.type = "replying" <=> x) => Foretells(Append(s, e), t, x)
           /\ ~TellsOf(e, t) /\ Foretells(s, t, x) => Foretells(Append(s, e), t, x)
<1> DEFINE p == Append(s, e)
           last == Len(s) + 1
<1>1. /\ Len(p) = last /\ Len(s) \in Nat /\ last \in 1..Len(p)
      /\ \A i \in 1..Len(s) : p[i] = s[i] /\ i \in 1..Len(p) /\ i < last
      /\ p[last] = e
      /\ \A i \in 1..Len(p) : i \in 1..Len(s) \/ i = last
  BY Added
<1> HIDE DEF p
<1>2. Comes(p, type, t) <=> Comes(s, type, t) \/ (e.type = type /\ e.turn = t)
  BY <1>1 DEF Comes
<1>3. EndComes(p, t) <=> EndComes(s, t) \/ EndsIn(e, t)
  <2> HIDE DEF last
  <2> QED  BY <1>1 DEF EndComes
<1>4. Silent(p, t) <=> Silent(s, t) /\ ~TellsOf(e, t)
  <2> HIDE DEF last
  <2> QED  BY <1>1 DEF Silent
<1>5. ASSUME TellsOf(e, t), e.type = "replying" <=> x
      PROVE  Foretells(p, t, x)
  <2> SUFFICES ASSUME NEW i \in 1..Len(p), TellsOf(p[i], t),
                      \A j \in 1..Len(p) : j > i => ~TellsOf(p[j], t)
               PROVE  p[i].type = "replying" <=> x
    BY DEF Foretells
  <2>1. i = last
    BY <1>1, <1>5
  <2> QED  BY <1>1, <1>5, <2>1
<1>6. ASSUME ~TellsOf(e, t), Foretells(s, t, x)
      PROVE  Foretells(p, t, x)
  <2> SUFFICES ASSUME NEW i \in 1..Len(p), TellsOf(p[i], t),
                      \A j \in 1..Len(p) : j > i => ~TellsOf(p[j], t)
               PROVE  p[i].type = "replying" <=> x
    BY DEF Foretells
  <2>1. i \in 1..Len(s) /\ p[i] = s[i]
    BY <1>1, <1>6
  <2>2. \A j \in 1..Len(s) : j > i => ~TellsOf(s[j], t)
    BY <1>1
  <2> QED  BY <1>6, <2>1, <2>2 DEF Foretells
<1> QED  BY <1>2, <1>3, <1>4, <1>5, <1>6 DEF p

\* Whether a report of a turn comes, once one more is added.
LEMMA AddedComes ==
    ASSUME NEW s \in Seq(ReportType), NEW e \in ReportType, NEW t, NEW type
    PROVE  Comes(Append(s, e), type, t) <=> Comes(s, type, t) \/ (e.type = type /\ e.turn = t)
<1> TRUE \in BOOLEAN
  OBVIOUS
<1> QED  BY AddedTells

\* A last report that tells of a turn tells all of it.
LEMMA AddedReply ==
    ASSUME NEW s \in Seq(ReportType), NEW e \in ReportType, NEW t, NEW x \in BOOLEAN,
           TellsOf(e, t), e.type = "replying" <=> x
    PROVE  Foretells(Append(s, e), t, x) /\ ~Silent(Append(s, e), t)
<1>1. \A type : /\ Silent(Append(s, e), t) <=> Silent(s, t) /\ ~TellsOf(e, t)
                /\ TellsOf(e, t) /\ (e.type = "replying" <=> x) => Foretells(Append(s, e), t, x)
  BY AddedTells
<1> QED  BY <1>1

\* What the reports still tell without their first.
LEMMA TookTells ==
    ASSUME NEW s \in Seq(ReportType), s # <<>>, NEW t, NEW type, NEW x \in BOOLEAN
    PROVE  /\ Comes(s, type, t) <=>
                  Comes(Tail(s), type, t) \/ (Head(s).type = type /\ Head(s).turn = t)
           /\ EndComes(s, t) <=> EndComes(Tail(s), t) \/ EndsIn(Head(s), t)
           /\ Silent(s, t) <=> Silent(Tail(s), t) /\ ~TellsOf(Head(s), t)
           /\ Foretells(s, t, x) => Foretells(Tail(s), t, x)
           /\ Foretells(s, t, x) /\ Silent(Tail(s), t) /\ TellsOf(Head(s), t) =>
                  (Head(s).type = "replying" <=> x)
<1> DEFINE p == Tail(s)
           h == Head(s)
<1>1. /\ Len(s) \in Nat \ {0} /\ Len(p) = Len(s) - 1 /\ h = s[1]
      /\ \A i \in 1..Len(p) : p[i] = s[i + 1] /\ i + 1 \in 1..Len(s)
  BY Took
<1>2. \A j \in 1..Len(s) : j = 1 \/ (j > 1 /\ j - 1 \in 1..Len(p) /\ s[j] = p[j - 1])
  BY <1>1
<1>3. 1 \in 1..Len(s)
  BY <1>1
<1> HIDE DEF p, h
<1>4. Comes(s, type, t) <=> Comes(p, type, t) \/ (h.type = type /\ h.turn = t)
  <2>1. ASSUME NEW j \in 1..Len(s), s[j].type = type, s[j].turn = t
        PROVE  Comes(p, type, t) \/ (h.type = type /\ h.turn = t)
    BY <1>1, <1>2, <2>1 DEF Comes
  <2>2. Comes(p, type, t) => Comes(s, type, t)
    BY <1>1 DEF Comes
  <2>3. h.type = type /\ h.turn = t => Comes(s, type, t)
    BY <1>1, <1>3 DEF Comes
  <2> QED  BY <2>1, <2>2, <2>3 DEF Comes
<1>5. EndComes(s, t) <=> EndComes(p, t) \/ EndsIn(h, t)
  BY <1>1, <1>2, <1>3 DEF EndComes
<1>6. Silent(s, t) <=> Silent(p, t) /\ ~TellsOf(h, t)
  BY <1>1, <1>2, <1>3 DEF Silent
<1>7. ASSUME Foretells(s, t, x)
      PROVE  Foretells(p, t, x)
  <2> SUFFICES ASSUME NEW i \in 1..Len(p), TellsOf(p[i], t),
                      \A j \in 1..Len(p) : j > i => ~TellsOf(p[j], t)
               PROVE  p[i].type = "replying" <=> x
    BY DEF Foretells
  <2>1. i + 1 \in 1..Len(s) /\ p[i] = s[i + 1]
    BY <1>1
  <2>2. ASSUME NEW j \in 1..Len(s), j > i + 1
        PROVE  ~TellsOf(s[j], t)
    <3>1. j - 1 \in 1..Len(p) /\ j - 1 > i /\ s[j] = p[j - 1]
      BY <1>1, <1>2, <2>2
    <3> QED  BY <3>1
  <2> QED  BY <1>7, <2>1, <2>2 DEF Foretells
<1>8. ASSUME Foretells(s, t, x), Silent(p, t), TellsOf(h, t)
      PROVE  h.type = "replying" <=> x
  <2>1. \A j \in 1..Len(s) : j > 1 => ~TellsOf(s[j], t)
    BY <1>2, <1>8 DEF Silent
  <2> QED  BY <1>1, <1>3, <1>8, <2>1 DEF Foretells
<1> QED  BY <1>4, <1>5, <1>6, <1>7, <1>8 DEF p, h

\* What the first of the reports says of those after it.
LEMMA FirstTells ==
    ASSUME NEW s \in Seq(ReportType), s # <<>>, NEW running, NEW n \in Nat, Orderly(s, running, n)
    PROVE  /\ Head(s).type # "exited" => Head(s).turn \in 1..n
           /\ Head(s).type \in {"started", "took", "replying", "replied"} =>
                  Head(s).turn \in running \/ EndComes(Tail(s), Head(s).turn)
           /\ Head(s).type = "ended" =>
                  Head(s).turn \notin running /\ ~Comes(Tail(s), "ended", Head(s).turn)
           /\ \A t \in running :
                  (\/ Head(s).type \in {"exited", "refused"}
                   \/ Head(s).type = "started" /\ Head(s).turn < t)
                      => Comes(Tail(s), "started", t)
<1> DEFINE p == Tail(s)
           h == Head(s)
<1>1. /\ Len(s) \in Nat \ {0} /\ Len(p) = Len(s) - 1 /\ h = s[1] /\ 1 \in 1..Len(s)
      /\ \A i \in 1..Len(p) : p[i] = s[i + 1] /\ i + 1 \in 1..Len(s) /\ i + 1 # 1
  BY Took
<1>2. \A j \in 1..Len(s) : j > 1 => j - 1 \in 1..Len(p) /\ s[j] = p[j - 1]
  BY <1>1
<1> HIDE DEF p, h
<1>3. h.type # "exited" => h.turn \in 1..n
  BY <1>1 DEF Orderly
<1>4. ASSUME h.type \in {"started", "took", "replying", "replied"}, h.turn \notin running
      PROVE  EndComes(p, h.turn)
  <2>1. PICK j \in 1..Len(s) : j > 1 /\ EndsIn(s[j], h.turn)
    BY <1>1, <1>4 DEF Orderly
  <2> QED  BY <1>2, <2>1 DEF EndComes
<1>5. ASSUME h.type = "ended"
      PROVE  h.turn \notin running /\ ~Comes(p, "ended", h.turn)
  <2>1. /\ h.turn \notin running
        /\ \A j \in 1..Len(s) : s[j].type = "ended" /\ s[j].turn = h.turn => j = 1
    BY <1>1, <1>5 DEF Orderly
  <2>2. \A i \in 1..Len(p) : ~(p[i].type = "ended" /\ p[i].turn = h.turn)
    BY <1>1, <2>1
  <2> QED  BY <2>1, <2>2 DEF Comes
<1>6. ASSUME NEW t \in running, \/ h.type \in {"exited", "refused"}
                                \/ h.type = "started" /\ h.turn < t
      PROVE  Comes(p, "started", t)
  <2>1. PICK j \in 1..Len(s) : j > 1 /\ s[j].type = "started" /\ s[j].turn = t
    BY <1>1, <1>6 DEF Orderly
  <2> QED  BY <1>2, <2>1 DEF Comes
<1> QED  BY <1>3, <1>4, <1>5, <1>6 DEF p, h

\* Reports that are lost as an app server stops.
LEMMA StopTells ==
    ASSUME NEW s \in Seq(ReportType), NEW k \in 0..Len(s), NEW e \in ReportType,
           e.type = "exited", NEW t
    PROVE  /\ Append(SubSeq(s, 1, k), e) \in Seq(ReportType)
           /\ Comes(Append(SubSeq(s, 1, k), e), "ended", t) => Comes(s, "ended", t)
           /\ EndComes(Append(SubSeq(s, 1, k), e), t)
           /\ ~Silent(Append(SubSeq(s, 1, k), e), t)
           /\ Foretells(Append(SubSeq(s, 1, k), e), t, FALSE)
<1> DEFINE q == SubSeq(s, 1, k)
<1>1. q \in Seq(ReportType) /\ Len(q) = k /\ \A i \in 1..k : q[i] = s[i] /\ i \in 1..Len(s)
  BY SubSeqProperties
<1> HIDE DEF q
<1>2. Append(q, e) \in Seq(ReportType)
  BY <1>1, Added
<1>3. EndsIn(e, t) /\ TellsOf(e, t)
  BY DEF EndsIn, TellsOf
<1>4. Comes(q, "ended", t) => Comes(s, "ended", t)
  BY <1>1 DEF Comes
<1>5. /\ Comes(Append(q, e), "ended", t) <=> Comes(q, "ended", t) \/ (e.type = "ended" /\ e.turn = t)
      /\ EndComes(Append(q, e), t) <=> EndComes(q, t) \/ EndsIn(e, t)
      /\ Silent(Append(q, e), t) <=> Silent(q, t) /\ ~TellsOf(e, t)
      /\ TellsOf(e, t) /\ (e.type = "replying" <=> FALSE) => Foretells(Append(q, e), t, FALSE)
  BY <1>1, AddedTells
<1> QED  BY <1>2, <1>3, <1>4, <1>5 DEF q

-----------------------------------------------------------------------------
(* The steps of the tasks, until Codex starts a turn.                       *)

\* The types, by name.
LEMMA Types ==
    TypeOK <=>
        /\ lock \in Tasks \cup {NoOne} /\ work \in WorkType /\ stage \in [Tasks -> Stages]
        /\ bot \in BotType /\ live \in LiveType /\ run \in [Runs -> RunType]
        /\ reply \in [Turns -> ReplyStates] /\ counted \in 0..TurnLimit
        /\ status \in {"idle", "working", "refused"} /\ router \in RouterType
        /\ stream \in Seq(ReportType) /\ codex \in CodexType
        /\ turns \in Seq(TurnType)
        /\ history \in HistoryType /\ faults \in Nat
  BY DEF TypeOK, WorkType, BotType, LiveType, RunType, ReplyStates, RouterType, ReportType,
         CodexType, TurnType, HistoryType

\* The types after a step, by name.
LEMMA TypesNext ==
    TypeOK' <=>
        /\ lock' \in Tasks \cup {NoOne} /\ work' \in WorkType /\ stage' \in [Tasks -> Stages]
        /\ bot' \in BotType /\ live' \in LiveType /\ run' \in [Runs -> RunType]
        /\ reply' \in [Turns -> ReplyStates] /\ counted' \in 0..TurnLimit
        /\ status' \in {"idle", "working", "refused"} /\ router' \in RouterType
        /\ stream' \in Seq(ReportType) /\ codex' \in CodexType
        /\ turns' \in Seq(TurnType)
        /\ history' \in HistoryType /\ faults' \in Nat
  BY DEF TypeOK, WorkType, BotType, LiveType, RunType, ReplyStates, RouterType, ReportType,
         CodexType, TurnType, HistoryType

\* The turns are numbered from one.
LEMMA TurnsAre ==
    ASSUME TypeOK
    PROVE  /\ Len(turns) \in Nat /\ DOMAIN turns = 1..Len(turns) /\ turns \in Seq(TurnType)
           /\ \A t \in 1..Len(turns) : turns[t] \in TurnType /\ turns[t].thread \in Nat
<1>1. turns \in Seq(TurnType)
  BY Types
<1>2. \A t \in 1..Len(turns) : turns[t] \in TurnType
  BY <1>1
<1> QED  BY <1>1, <1>2 DEF TurnType

\* What a step of a task leaves as it was.
LEMMA TaskKeeps ==
    ASSUME IInv, TypeOK', WorkFits', CountedExactly', ThreadsFit',
           UNCHANGED <<stream, turns, router, reply>>,
           codex'.running = codex.running, codex'.talk = codex.talk, codex.up => codex'.up,
           live'.turn = live.turn, live'.ended = live.ended,
           bot'.thread # bot.thread => bot'.thread > bot.thread,
           \A f \in Turns : stage[f] = "unborn" => stage'[f] = "unborn",
           \A r \in Runs : run'[r] = run[r] \/ run'[r].state = "failed",
           \A r \in Runs : stage'[r] = "new" => stage[r] = "new" /\ run'[r] = run[r],
           UNCHANGED <<lock, work>> \/ work'.step \notin {"record", "mark", "announce"},
           \/ live'.owed = {}
           \/ /\ live'.owed = live.owed
              /\ \A f \in Turns : stage[f] = "new" /\ f # lock => stage'[f] = "new" /\ f # lock'
    PROVE  IInv'
<1> USE DEF IInv
<1>1. CarriesOver'
  BY DEF CarriesOver
<1>2. RunsFit'
  BY DEF RunsFit
<1>3. CodexFits'
  BY DEF CodexFits
<1>4. ReportsFit'
  BY DEF ReportsFit
<1>5. EndsFit'
  BY DEF EndsFit, EndIsOpen
<1>6. RecordFits'
  BY DEF RecordFits, Unrecorded
<1>7. TurnFits'
  <2>1. \A t \in 1..Len(turns) : turns[t].thread \in Nat /\ turns[t].thread =< bot.thread
    BY TurnsAre DEF ThreadsFit
  <2>2. bot.thread \in Nat /\ bot'.thread \in Nat /\ codex.running \subseteq 1..Len(turns)
    BY DEF TypeOK, CodexFits
  <2>3. \A t \in codex.running : turns[t].thread = bot'.thread => turns[t].thread = bot.thread
    BY <2>1, <2>2
  <2> QED  BY <2>3 DEF TurnFits
<1>8. OwedFits'
  BY DEF OwedFits
<1>9. RunningFits'
  BY DEF RunningFits, EndIsAnnounced
<1>10. ReplyFits'
  BY DEF ReplyFits, EndIsAnnounced, Speaks
<1> QED  BY <1>1, <1>2, <1>3, <1>4, <1>5, <1>6, <1>7, <1>8, <1>9, <1>10

\* A task that holds the lock is where it says.
LEMMA Holder ==
    ASSUME IInv, NEW t \in Tasks, NEW step, step # "none", Holds(t, step)
    PROVE  lock = t /\ t # NoOne /\ stage[t] = "new" /\ work.step = step
  BY ConversationAssumption DEF Holds, IInv, WorkFits, Tasks, Turns

\* No two kinds of tasks have a name in common.
LEMMA NamesDiffer ==
    /\ \A m \in Messages : m \notin Runs /\ m \notin Turns /\ m # NoOne /\ m \in Tasks
    /\ \A r \in Runs : r \notin Messages /\ r \notin Turns /\ r # NoOne /\ r \in Tasks
    /\ \A f \in Turns : f \notin Messages /\ f \notin Runs /\ f # NoOne /\ f \in Tasks /\ f # 0
  BY ConversationAssumption DEF Tasks, Turns

\* A send that finds the Bot refused, or no turn left.
LEMMA SendRefusedKeeps ==
    ASSUME IInv, NEW m \in Messages, SendRefused(m)
    PROVE  IInv'
<1>1. TypeOK'
  BY NamesDiffer DEF SendRefused, IInv, TypeOK, Stages, rowVars, codexVars
<1>2. WorkFits' /\ CountedExactly' /\ ThreadsFit'
  BY DEF SendRefused, rowVars, codexVars, IInv, WorkFits, CountedExactly, ThreadsFit, Unused
<1>3. /\ UNCHANGED <<lock, work, bot, run, reply, live, router, codex, stream, turns>>
      /\ \A f \in Tasks : f # m => stage'[f] = stage[f]
      /\ stage'[m] = "done"
  BY NamesDiffer DEF SendRefused, rowVars, codexVars, IInv, TypeOK
<1> QED  BY <1>1, <1>2, <1>3, TaskKeeps, NamesDiffer

\* A send that takes the lock.
LEMMA SendKeeps ==
    ASSUME IInv, NEW m \in Messages, Send(m)
    PROVE  IInv'
<1> USE DEF Send, Takes, rowVars, codexVars
<1>1. TypeOK'
  <2>1. work' \in WorkType /\ lock' \in Tasks
    BY NamesDiffer, Types DEF IInv, LiveType, WorkType, NoWork, Steps
  <2> QED  BY <2>1, Types, TypesNext DEF IInv
<1>2. WorkFits' /\ CountedExactly' /\ ThreadsFit'
  BY NamesDiffer DEF IInv, WorkFits, CountedExactly, ThreadsFit, Unused, NoWork, TypeOK
<1>3. work'.step = "runtime"
  BY DEF NoWork
<1> QED  BY <1>1, <1>2, <1>3, TaskKeeps, NamesDiffer DEF IInv, TypeOK

\* A run the Bot cannot start ends.
LEMMA RunRefusedKeeps ==
    ASSUME IInv, NEW r \in Runs, RunRefused(r)
    PROVE  IInv'
<1> USE DEF RunRefused, rowVars, codexVars
<1>1. TypeOK'
  <2>1. run' \in [Runs -> RunType] /\ stage' \in [Tasks -> Stages]
    BY NamesDiffer, Types DEF IInv, RunType, RunEndings, Stages
  <2> QED  BY <2>1, Types, TypesNext DEF IInv
<1>2. WorkFits' /\ CountedExactly' /\ ThreadsFit'
  BY DEF IInv, WorkFits, CountedExactly, ThreadsFit, Unused
<1>3. \A q \in Runs : run'[q] = run[q] \/ run'[q].state = "failed"
  BY DEF IInv, TypeOK
<1>4. \A q \in Runs : stage'[q] = "new" => stage[q] = "new" /\ run'[q] = run[q]
  BY NamesDiffer DEF IInv, TypeOK
<1> QED  BY <1>1, <1>2, <1>3, <1>4, TaskKeeps, NamesDiffer DEF IInv, TypeOK

\* A run takes the lock of an idle Bot.
LEMMA StartRoutineKeeps ==
    ASSUME IInv, NEW r \in Runs, StartRoutine(r)
    PROVE  IInv'
<1> USE DEF StartRoutine, Takes, rowVars, codexVars
<1>1. TypeOK'
  <2>1. work' \in WorkType /\ lock' \in Tasks
    BY NamesDiffer, Types DEF IInv, LiveType, WorkType, NoWork, Steps
  <2> QED  BY <2>1, Types, TypesNext DEF IInv
<1>2. WorkFits' /\ CountedExactly' /\ ThreadsFit'
  BY NamesDiffer DEF IInv, WorkFits, CountedExactly, ThreadsFit, Unused, NoWork, TypeOK
<1>3. work'.step = "runtime"
  BY DEF NoWork
<1>4. UNCHANGED <<stage, bot, run, reply, live, router, codex, stream, turns>> /\ lock' = r
  OBVIOUS
<1> HIDE DEF StartRoutine
<1>5. \A f \in Turns : f # lock'
  BY <1>4, NamesDiffer
<1> QED  BY <1>1, <1>2, <1>3, <1>4, <1>5, TaskKeeps

\* A follow-up takes what is owed, whatever comes of it.
LEMMA StartOwedKeeps ==
    ASSUME IInv, NEW f \in Turns, StartOwed(f)
    PROVE  IInv'
<1> USE DEF StartOwed, rowVars, codexVars
<1>1. /\ \/ UNCHANGED <<lock, work>> /\ stage' \in {[stage EXCEPT ![f] = s] : s \in {"done", "quiet", "failed"}}
         \/ Takes(f) /\ UNCHANGED stage
      /\ history' \in {history, [history EXCEPT !.waiting = {}]}
      /\ live' = [live EXCEPT !.owed = {}] /\ lock = NoOne /\ stage[f] = "new"
      /\ UNCHANGED <<bot, run, reply, counted, status, router, codex, stream, turns, faults>>
  BY DEF Takes
<1> HIDE DEF StartOwed
<1>2. TypeOK'
  <2>1. work' \in WorkType /\ lock' \in Tasks \cup {NoOne} /\ stage' \in [Tasks -> Stages]
    <3>1. stage' \in [Tasks -> Stages]
      BY <1>1, NamesDiffer, Types DEF IInv, Stages
    <3>2. CASE UNCHANGED <<lock, work>>
      BY <3>1, <3>2, Types DEF IInv
    <3>3. CASE Takes(f)
      <4>1. f \in Tasks /\ f \notin Messages
        BY NamesDiffer
      <4>2. work' = [NoWork EXCEPT !.step = "runtime", !.active = 0] /\ lock' = f
        BY <3>3, <4>1 DEF Takes
      <4> QED  BY <3>1, <4>1, <4>2 DEF WorkType, NoWork, Steps
    <3> QED  BY <1>1, <3>2, <3>3
  <2>2. live' \in LiveType /\ history' \in HistoryType
    BY <1>1, Types DEF IInv, LiveType, HistoryType
  <2> QED  BY <1>1, <2>1, <2>2, Types, TypesNext DEF IInv
<1>3. WorkFits' /\ CountedExactly' /\ ThreadsFit'
  <2>1. CASE UNCHANGED <<lock, work>>
    <3>1. \A t \in Tasks : t # f => stage'[t] = stage[t]
      BY <1>1, <2>1 DEF IInv, TypeOK
    <3>2. history'.others = history.others /\ history'.lost = history.lost
      BY <1>1, Types DEF IInv, HistoryType
    <3> QED  BY <1>1, <2>1, <3>1, <3>2 DEF IInv, WorkFits, CountedExactly, ThreadsFit, Unused
  <2>2. CASE Takes(f) /\ UNCHANGED stage
    <3>1. work.step = "none" /\ work = NoWork
      BY <1>1 DEF IInv, WorkFits
    <3>2. /\ work'.step = "runtime" /\ work'.turn = 0 /\ ~work'.reserved
          /\ lock' = f /\ f # NoOne /\ stage'[f] = "new"
      BY <1>1, <2>2, NamesDiffer DEF Takes, NoWork
    <3>3. WorkFits'
      BY <3>2 DEF WorkFits
    <3>4. history'.others = history.others /\ history'.lost = history.lost
      BY <1>1, Types DEF IInv, HistoryType
    <3>5. CountedExactly'
      BY <1>1, <3>1, <3>2, <3>4 DEF IInv, CountedExactly, NoWork
    <3>6. ThreadsFit'
      BY <1>1 DEF IInv, ThreadsFit, Unused
    <3> QED  BY <3>3, <3>5, <3>6
  <2> QED  BY <1>1, <2>1, <2>2
<1>4. UNCHANGED <<lock, work>> \/ work'.step = "runtime"
  BY <1>1 DEF Takes, NoWork
<1>5. /\ \A g \in Turns : stage[g] = "unborn" => stage'[g] = "unborn"
      /\ \A r \in Runs : stage'[r] = "new" => stage[r] = "new"
      /\ live'.turn = live.turn /\ live'.ended = live.ended /\ live'.owed = {}
  BY <1>1, NamesDiffer DEF IInv, TypeOK
<1>6. /\ \A q \in Runs : run'[q] = run[q]
      /\ bot'.thread = bot.thread
  BY <1>1
<1> QED  BY <1>1, <1>2, <1>3, <1>4, <1>5, <1>6, TaskKeeps

\* A task that gives up lets everything else go on.
LEMMA GivesUpKeeps ==
    ASSUME IInv, NEW t \in Tasks, lock = t, GivesUp(t),
           UNCHANGED <<stream, turns, router, reply, live, codex>>,
           bot' \in {bot, [bot EXCEPT !.refused = TRUE]}, status' \in {status, "refused"},
           history' \in HistoryType, faults' \in Nat, counted' \in 0..TurnLimit, CountedExactly'
    PROVE  IInv'
<1> DEFINE next == IF t \in Turns THEN "failed" ELSE "done"
<1>1. /\ lock' = NoOne /\ work' = NoWork /\ stage' = [stage EXCEPT ![t] = next]
      /\ run' = [r \in Runs |-> IF r = t THEN [run[r] EXCEPT !.state = "failed"] ELSE run[r]]
  BY DEF GivesUp, Leaves
<1>2. next \in {"failed", "done"}
  OBVIOUS
<1> HIDE DEF next
<1>3. stage' \in [Tasks -> Stages] /\ stage'[t] = next /\ \A u \in Tasks : u # t => stage'[u] = stage[u]
  BY <1>1, <1>2, Types DEF IInv, Stages
<1>4. run' \in [Runs -> RunType] /\ \A r \in Runs : r # t => run'[r] = run[r]
  BY <1>1, Types DEF IInv, RunType, RunEndings
<1>5. NoWork \in WorkType
  BY DEF NoWork, WorkType, Steps
<1>6. TypeOK'
  <2>1. bot' \in BotType /\ status' \in {"idle", "working", "refused"}
    BY Types DEF IInv, BotType
  <2> QED  BY <1>1, <1>3, <1>4, <1>5, <2>1, Types, TypesNext DEF IInv
<1>7. bot'.thread = bot.thread /\ bot'.carryover = bot.carryover
  BY DEF IInv, TypeOK
<1>8. WorkFits' /\ ThreadsFit'
  BY <1>1, <1>7 DEF WorkFits, NoWork, ThreadsFit, Unused, IInv
<1>9. t # NoOne
  BY ConversationAssumption DEF Tasks, Turns
<1>10. \A r \in Runs : run'[r] = run[r] \/ run'[r].state = "failed"
  BY <1>1, Types DEF IInv, RunType
<1>11. \A f \in Turns : stage[f] = "unborn" => stage'[f] = "unborn"
  BY <1>3, <1>9, NamesDiffer DEF IInv, WorkFits
<1>12. \A f \in Turns : stage[f] = "new" /\ f # lock => stage'[f] = "new" /\ f # lock'
  BY <1>1, <1>3, NamesDiffer
<1>13. \A r \in Runs : stage'[r] = "new" => stage[r] = "new" /\ run'[r] = run[r]
  BY <1>2, <1>3, <1>4, NamesDiffer
<1>14. work'.step = "none"
  BY <1>1 DEF NoWork
<1> QED  BY <1>6, <1>7, <1>8, <1>10, <1>11, <1>12, <1>13, <1>14, TaskKeeps

\* The numbers that are counted.
LEMMA Numbers ==
    ASSUME IInv
    PROVE  /\ counted \in Nat /\ counted =< TurnLimit /\ TurnLimit \in Nat /\ Len(turns) \in Nat
           /\ history.others \in Nat /\ history.lost \in Nat /\ faults \in Nat
  BY ConversationAssumption, Types, TurnsAre DEF IInv, HistoryType

\* One more of what is counted.
LEMMA Sums ==
    \A a \in Nat, b \in Nat, c \in Nat :
        /\ a + b + c + 1 = (a + 1) + b + c + 0
        /\ a + b + c + 1 = a + b + (c + 1) + 0
        /\ a + b + c + 0 = a + b + c
        /\ (a + b + c + 1) - 1 = a + b + c /\ a + b + c \in Nat
  OBVIOUS

\* `waiting` alone changes.
LEMMA WaitingChanges ==
    ASSUME IInv, NEW w \in SUBSET (Messages \X Turns), history' = [history EXCEPT !.waiting = w]
    PROVE  history' \in HistoryType /\ history'.others = history.others /\ history'.lost = history.lost
  BY Types DEF IInv, HistoryType

\* A task that lets its counted turn go, or has none.
LEMMA ReleasedCounts ==
    ASSUME IInv, NEW t \in Tasks, lock = t, work.turn = 0, GivesUp(t), UNCHANGED turns,
           Released \/ (counted' = counted /\ ~work.reserved),
           history'.others = history.others, history'.lost = history.lost
    PROVE  counted' \in 0..TurnLimit /\ CountedExactly'
<1>1. work' = NoWork
  BY DEF GivesUp, Leaves
<1>2. work'.reserved = FALSE /\ work.reserved \in BOOLEAN
  BY <1>1, Types DEF NoWork, IInv, WorkType
<1>3. counted' = IF work.reserved THEN counted - 1 ELSE counted
  BY DEF Released
<1>4. counted = Len(turns) + history.others + history.lost + (IF work.reserved THEN 1 ELSE 0)
  BY DEF IInv, CountedExactly
<1>5. counted' = Len(turns') + history'.others + history'.lost
  BY <1>2, <1>3, <1>4, Numbers, Sums
<1>6. counted' \in 0..TurnLimit
  <2>1. counted' \in Nat
    BY <1>5, Numbers, Sums
  <2>2. counted' =< counted
    BY <1>2, <1>3, Numbers
  <2> QED  BY <2>1, <2>2, Numbers
<1>7. CountedExactly'
  BY <1>2, <1>5, <1>6, Numbers, Sums DEF CountedExactly
<1> QED  BY <1>6, <1>7

\* A task for which no turn is left, or no app server.
LEMMA NoTurnKeeps ==
    ASSUME IInv, NEW t \in Tasks, NoTurn(t)
    PROVE  IInv'
<1>1. lock = t /\ work.step \in {"runtime", "again"}
  BY DEF NoTurn, Holds
<1>2. work.turn = 0 /\ ~work.reserved
  BY <1>1 DEF IInv, WorkFits
<1>3. /\ GivesUp(t) /\ faults' \in Nat
      /\ history' = [history EXCEPT !.waiting = IF t \in Turns THEN {} ELSE @]
      /\ UNCHANGED <<bot, reply, counted, live, status, router, codex, stream, turns>>
  BY Numbers DEF NoTurn, codexVars, Fails
<1>4. \E w \in SUBSET (Messages \X Turns) : history' = [history EXCEPT !.waiting = w]
  BY <1>3, Types DEF IInv, HistoryType
<1>5. history' \in HistoryType /\ history'.others = history.others /\ history'.lost = history.lost
  BY <1>4, WaitingChanges
<1>6. counted' \in 0..TurnLimit /\ CountedExactly'
  BY <1>1, <1>2, <1>3, <1>5, ReleasedCounts
<1> QED  BY <1>1, <1>3, <1>5, <1>6, GivesUpKeeps

\* A thread that cannot be served, or fails its checks.
LEMMA PrepareFailsKeeps ==
    ASSUME IInv, NEW t \in Tasks, PrepareFails(t) \/ ThreadRefused(t)
    PROVE  IInv'
<1>1. lock = t /\ work.step = "thread"
  BY DEF PrepareFails, ThreadRefused, Holds
<1>2. work.turn = 0
  BY <1>1 DEF IInv, WorkFits
<1>3. /\ GivesUp(t) /\ faults' \in Nat /\ Released
      /\ history' = [history EXCEPT !.waiting = IF t \in Turns THEN {} ELSE @]
      /\ bot' \in {bot, [bot EXCEPT !.refused = TRUE]} /\ status' \in {status, "refused"}
      /\ UNCHANGED <<reply, live, router, codex, stream, turns>>
  BY Numbers DEF PrepareFails, ThreadRefused, codexVars, Fails
<1>4. \E w \in SUBSET (Messages \X Turns) : history' = [history EXCEPT !.waiting = w]
  BY <1>3, Types DEF IInv, HistoryType
<1>5. history' \in HistoryType /\ history'.others = history.others /\ history'.lost = history.lost
  BY <1>4, WaitingChanges
<1>6. counted' \in 0..TurnLimit /\ CountedExactly'
  BY <1>1, <1>2, <1>3, <1>5, ReleasedCounts
<1> QED  BY <1>1, <1>3, <1>5, <1>6, GivesUpKeeps

\* A turn that certainly did not start.
LEMMA BeginRejectedKeeps ==
    ASSUME IInv, NEW t \in Tasks, BeginRejected(t)
    PROVE  IInv'
<1>1. lock = t /\ work.step = "start"
  BY DEF BeginRejected, Holds
<1>2. work.turn = 0
  BY <1>1 DEF IInv, WorkFits
<1>3. /\ GivesUp(t) /\ faults' \in Nat /\ Released
      /\ history' = [history EXCEPT !.waiting = IF t \in Turns THEN {} ELSE @]
      /\ UNCHANGED <<bot, reply, live, status, router, codex, stream, turns>>
  BY Numbers DEF BeginRejected, codexVars, Fails
<1>4. \E w \in SUBSET (Messages \X Turns) : history' = [history EXCEPT !.waiting = w]
  BY <1>3, Types DEF IInv, HistoryType
<1>5. history' \in HistoryType /\ history'.others = history.others /\ history'.lost = history.lost
  BY <1>4, WaitingChanges
<1>6. counted' \in 0..TurnLimit /\ CountedExactly'
  BY <1>1, <1>2, <1>3, <1>5, ReleasedCounts
<1> QED  BY <1>1, <1>3, <1>5, <1>6, GivesUpKeeps

\* A turn that runs and is not recorded, or whose run is not marked, stays counted.
LEMMA RecordFailsKeeps ==
    ASSUME IInv, NEW t \in Tasks, RecordFails(t) \/ MarkFails(t)
    PROVE  IInv'
<1>1. lock = t /\ work.step \in {"record", "mark"}
  BY DEF RecordFails, MarkFails, Holds
<1>2. work.turn # 0
  BY <1>1, NamesDiffer DEF IInv, WorkFits
<1>3. /\ GivesUp(t) /\ faults' \in Nat
      /\ UNCHANGED <<bot, reply, counted, live, status, router, codex, stream, turns, history>>
  BY Numbers DEF RecordFails, MarkFails, codexVars, Fails
<1>4. work' = NoWork
  BY <1>3 DEF GivesUp, Leaves
<1>5. counted' \in 0..TurnLimit /\ CountedExactly'
  BY <1>2, <1>3, <1>4, Numbers DEF IInv, CountedExactly, NoWork
<1> QED  BY <1>1, <1>3, <1>5, Types, GivesUpKeeps DEF IInv

\* A task that keeps the lock and goes on.
LEMMA GoesOnKeeps ==
    ASSUME IInv, NEW t \in Tasks, lock = t, UNCHANGED <<lock, stage, run, reply, live, status, router>>,
           UNCHANGED <<stream, turns, history, faults>>,
           work' \in WorkType, work'.step \in {"again", "thread", "steer", "start"},
           bot' \in BotType, counted' \in 0..TurnLimit, codex' \in CodexType,
           WorkFits', CountedExactly', ThreadsFit',
           bot'.thread # bot.thread => bot'.thread > bot.thread,
           codex'.running = codex.running, codex'.talk = codex.talk, codex.up => codex'.up
    PROVE  IInv'
<1>1. TypeOK'
  BY Types, TypesNext DEF IInv
<1> QED  BY <1>1, TaskKeeps

\* A turn is counted before it is asked for.
LEMMA ReserveKeeps ==
    ASSUME IInv, NEW t \in Tasks, Reserve(t)
    PROVE  IInv'
<1>1. lock = t /\ t # NoOne /\ work.step = "runtime" /\ stage[t] = "new"
  BY Holder DEF Reserve
<1>2. work.turn = 0 /\ ~work.reserved /\ work \in WorkType
  BY <1>1, Types DEF IInv, WorkFits
<1>3. /\ work.active # 0 \/ HasTurnLeft
      /\ counted' = IF work.active = 0 THEN counted + 1 ELSE counted
      /\ codex' = IF codex.up THEN codex ELSE [NoServer EXCEPT !.up = TRUE, !.serial = codex.serial + 1]
      /\ work' = [work EXCEPT !.step = "thread", !.server = codex'.serial, !.reserved = work.active = 0]
      /\ UNCHANGED <<lock, stage, bot, run, reply, live, status, router, stream, turns, history, faults>>
  BY DEF Reserve, Runtime
<1>4. codex' \in CodexType /\ codex.up => codex'.up
  BY <1>3, Types DEF IInv, CodexType, NoServer
<1>5. codex'.running = codex.running /\ codex'.talk = codex.talk
  <2>1. CASE codex.up
    BY <1>3, <2>1
  <2>2. CASE ~codex.up
    <3>1. codex.running = {}
      BY <2>2 DEF IInv, CodexFits
    <3>2. codex.talk \in [Turns -> {"silent", "speaking", "spoken"}]
      BY Types DEF IInv, CodexType
    <3>3. \A u \in Turns : codex.talk[u] = "silent"
      BY <3>1 DEF IInv, CodexFits
    <3>4. codex'.running = {} /\ codex'.talk = [u \in Turns |-> "silent"]
      BY <1>3, <2>2 DEF NoServer
    <3> QED  BY <3>1, <3>2, <3>3, <3>4
  <2> QED  BY <2>1, <2>2
<1>6. codex' \in CodexType
  <2>1. codex \in CodexType /\ codex.serial + 1 \in Nat
    BY Types DEF IInv, CodexType
  <2>2. [NoServer EXCEPT !.up = TRUE, !.serial = codex.serial + 1] \in CodexType
    BY <2>1 DEF CodexType, NoServer
  <2> QED  BY <1>3, <2>1, <2>2
<1>7. /\ work' \in WorkType /\ work'.step = "thread" /\ work'.active = work.active
      /\ work'.turn = 0 /\ (work'.reserved <=> work.active = 0)
  <2>1. codex'.serial \in Nat /\ (work.active = 0) \in BOOLEAN
    BY <1>6 DEF CodexType
  <2>2. work' = [work EXCEPT !.step = "thread", !.server = codex'.serial, !.reserved = work.active = 0]
    BY <1>3
  <2> QED  BY <1>2, <2>1, <2>2 DEF WorkType, Steps
<1>8. counted' \in 0..TurnLimit
  BY <1>3, Numbers DEF HasTurnLeft
<1>9. counted = Len(turns) + history.others + history.lost
  BY <1>2, Numbers DEF IInv, CountedExactly
<1>10. CountedExactly'
  BY <1>3, <1>7, <1>9, Numbers DEF CountedExactly
<1>11. WorkFits' /\ ThreadsFit'
  BY <1>1, <1>3, <1>7 DEF IInv, WorkFits, ThreadsFit, Unused
<1> QED  BY <1>1, <1>3, <1>4, <1>5, <1>6, <1>7, <1>8, <1>10, <1>11, Types, GoesOnKeeps DEF IInv

\* A steer that missed its turn has one of its own counted.
LEMMA ReserveAgainKeeps ==
    ASSUME IInv, NEW t \in Tasks, ReserveAgain(t)
    PROVE  IInv'
<1>1. lock = t /\ t # NoOne /\ work.step = "again" /\ stage[t] = "new"
  BY Holder DEF ReserveAgain
<1>2. work.turn = 0 /\ ~work.reserved /\ work \in WorkType
  BY <1>1, Types DEF IInv, WorkFits
<1>3. /\ HasTurnLeft
      /\ counted' = counted + 1
      /\ work' = [work EXCEPT !.step = "thread", !.active = 0, !.reserved = TRUE]
      /\ UNCHANGED <<lock, stage, bot, run, reply, live, status, router, codex, stream, turns>>
      /\ UNCHANGED <<history, faults>>
  BY DEF ReserveAgain, codexVars
<1>4. /\ work' \in WorkType /\ work'.step = "thread" /\ work'.active = 0
      /\ work'.turn = 0 /\ work'.reserved = TRUE
  BY <1>2, <1>3 DEF WorkType, Steps
<1>5. counted' \in 0..TurnLimit
  BY <1>3, Numbers DEF HasTurnLeft
<1>6. counted = Len(turns) + history.others + history.lost
  BY <1>2, Numbers DEF IInv, CountedExactly
<1>7. CountedExactly'
  BY <1>3, <1>4, <1>6, Numbers DEF CountedExactly
<1>8. WorkFits' /\ ThreadsFit'
  BY <1>1, <1>3, <1>4 DEF IInv, WorkFits, ThreadsFit, Unused
<1> QED  BY <1>1, <1>3, <1>4, <1>5, <1>7, <1>8, Types, GoesOnKeeps DEF IInv

\* The Bot's thread, or a fresh one with the Bot's grants.
LEMMA PrepareThreadKeeps ==
    ASSUME IInv, NEW t \in Tasks, PrepareThread(t)
    PROVE  IInv'
<1>1. lock = t /\ t # NoOne /\ work.step = "thread" /\ stage[t] = "new"
  BY Holder DEF PrepareThread
<1>2. work.turn = 0 /\ (work.reserved <=> work.active = 0) /\ work \in WorkType
  BY <1>1, Types DEF IInv, WorkFits
<1>3. /\ bot' = IF work.active # 0 \/ OwnThread THEN bot
                ELSE [bot EXCEPT !.thread = @ + 1, !.made = bot.grants, !.carryover = bot.thread # 0]
      /\ work' = [work EXCEPT !.step = IF work.active # 0 THEN "steer" ELSE "start"]
      /\ UNCHANGED <<lock, stage, run, reply, counted, live, status, router, codex, stream, turns>>
      /\ UNCHANGED <<history, faults>>
  BY DEF PrepareThread, codexVars, Goes
<1>4. /\ work' \in WorkType /\ work'.active = work.active /\ work'.turn = 0
      /\ work'.reserved = work.reserved
      /\ work'.step = IF work.active # 0 THEN "steer" ELSE "start"
  BY <1>2, <1>3 DEF WorkType, Steps
<1>5. CountedExactly' /\ counted' \in 0..TurnLimit
  BY <1>2, <1>3, <1>4, Types DEF CountedExactly, IInv
<1>6. bot \in BotType /\ bot.thread \in Nat
  BY Types DEF IInv, BotType
<1>7. CASE work.active # 0 \/ OwnThread
  <2>1. WorkFits' /\ ThreadsFit'
    BY <1>1, <1>2, <1>3, <1>4, <1>7 DEF IInv, WorkFits, ThreadsFit, Unused, OwnThread
  <2> QED  BY <1>1, <1>3, <1>4, <1>5, <1>6, <1>7, <2>1, Types, GoesOnKeeps DEF IInv
<1>8. CASE ~(work.active # 0 \/ OwnThread)
  <2>1. /\ bot' \in BotType /\ bot'.thread = bot.thread + 1 /\ bot'.made = bot'.grants
        /\ bot'.carryover <=> bot.thread # 0
    <3>1. bot' = [bot EXCEPT !.thread = bot.thread + 1, !.made = bot.grants,
                             !.carryover = bot.thread # 0]
      BY <1>3, <1>8
    <3>2. (bot.thread # 0) \in BOOLEAN /\ bot.thread + 1 \in Nat /\ bot.grants \in GrantSets
      BY <1>6 DEF BotType
    <3> QED  BY <1>6, <3>1, <3>2 DEF BotType
  <2>2. WorkFits'
    BY <1>1, <1>2, <1>3, <1>4, <1>8, <2>1 DEF IInv, WorkFits
  <2>3. ThreadsFit'
    <3>1. \A u \in 1..Len(turns) : turns[u].thread \in Nat /\ turns[u].thread =< bot.thread
      BY TurnsAre DEF IInv, ThreadsFit
    <3>2. bot'.thread > 1 => bot'.carryover
      BY <1>6, <2>1
    <3> QED  BY <1>3, <1>6, <2>1, <3>1, <3>2 DEF ThreadsFit
  <2>4. bot'.thread > bot.thread
    BY <1>6, <2>1
  <2> QED  BY <1>1, <1>3, <1>4, <1>5, <2>1, <2>2, <2>3, <2>4, Types, GoesOnKeeps DEF IInv
<1> QED  BY <1>7, <1>8

\* The turn to steer ended.
LEMMA SteerMissesKeeps ==
    ASSUME IInv, NEW m \in Messages, SteerMisses(m)
    PROVE  IInv'
<1>1. lock = m /\ m # NoOne /\ work.step = "steer" /\ stage[m] = "new" /\ m \in Tasks
  BY Holder, NamesDiffer DEF SteerMisses
<1>2. /\ work' = [work EXCEPT !.step = "again"]
      /\ UNCHANGED <<lock, stage, bot, run, reply, counted, live, status, router, codex, stream>>
      /\ UNCHANGED <<turns, history, faults>>
  BY DEF SteerMisses, codexVars, Goes, rowVars
<1>3. /\ work' \in WorkType /\ work'.turn = work.turn /\ work'.reserved = work.reserved
      /\ work'.step = "again"
  BY <1>2, Types DEF WorkType, Steps, IInv
<1>4. CountedExactly' /\ counted' \in 0..TurnLimit
  BY <1>2, <1>3, Types DEF CountedExactly, IInv
<1>5. WorkFits' /\ ThreadsFit'
  BY <1>1, <1>2, <1>3 DEF IInv, WorkFits, ThreadsFit, Unused
<1> QED  BY <1>1, <1>2, <1>3, <1>4, <1>5, Types, GoesOnKeeps DEF IInv

\* A run waits on for the sign-in.
LEMMA RunWaitsKeeps ==
    ASSUME IInv, NEW r \in Runs, RunWaits(r)
    PROVE  IInv'
<1>1. lock = r /\ r # NoOne /\ work.step = "runtime" /\ stage[r] = "new" /\ r \in Tasks
  BY Holder, NamesDiffer DEF RunWaits
<1>2. /\ lock' = NoOne /\ work' = NoWork /\ stage' = [stage EXCEPT ![r] = "new"]
      /\ UNCHANGED <<bot, run, reply, counted, live, status, router, codex, stream, turns, history>>
      /\ faults' \in Nat
  BY Numbers DEF RunWaits, Leaves, codexVars, rowVars, Fails
<1>3. stage' = stage
  BY <1>1, <1>2, Types DEF IInv
<1>4. work.turn = 0 /\ ~work.reserved /\ NoWork \in WorkType
  BY <1>1 DEF IInv, WorkFits, NoWork, WorkType, Steps
<1>5. TypeOK'
  BY <1>2, <1>3, <1>4, Types, TypesNext DEF IInv
<1>6. CountedExactly'
  BY <1>2, <1>4, Numbers DEF IInv, CountedExactly, NoWork
<1>7. WorkFits' /\ ThreadsFit'
  BY <1>2 DEF WorkFits, NoWork, IInv, ThreadsFit, Unused
<1>8. work'.step = "none"
  BY <1>2 DEF NoWork
<1>9. \A f \in Turns : f # lock'
  BY <1>2, NamesDiffer
<1> QED  BY <1>2, <1>3, <1>5, <1>6, <1>7, <1>8, <1>9, TaskKeeps

\* The answer of a steer is lost.
LEMMA SteerFailsKeeps ==
    ASSUME IInv, NEW m \in Messages, SteerFails(m)
    PROVE  IInv'
<1>1. lock = m /\ m # NoOne /\ work.step = "steer" /\ stage[m] = "new" /\ m \in Tasks
  BY Holder, NamesDiffer DEF SteerFails
<1>2. /\ UNCHANGED <<bot, reply, counted, live, status, router, codex, stream, turns, history>>
      /\ faults' \in Nat
  BY Numbers DEF SteerFails, codexVars, Fails
<1>3. work.turn = 0 /\ ~work.reserved /\ work \in WorkType
  BY <1>1, Types DEF IInv, WorkFits
<1>4. CASE Goes("again") /\ UNCHANGED <<lock, stage, run>>
  <2>1. /\ work' \in WorkType /\ work'.turn = work.turn /\ work'.reserved = work.reserved
        /\ work'.step = "again"
    BY <1>3, <1>4 DEF WorkType, Steps, Goes
  <2>2. CountedExactly'
    BY <1>2, <2>1 DEF CountedExactly, IInv
  <2>3. WorkFits' /\ ThreadsFit'
    BY <1>1, <1>2, <1>3, <1>4, <2>1 DEF IInv, WorkFits, ThreadsFit, Unused
  <2>4. TypeOK'
    BY <1>2, <1>4, <2>1, Types, TypesNext DEF IInv
  <2> QED  BY <1>2, <1>4, <2>1, <2>2, <2>3, <2>4, TaskKeeps
<1>5. CASE GivesUp(m)
  <2>1. counted' \in 0..TurnLimit /\ CountedExactly'
    BY <1>1, <1>2, <1>3, <1>5, ReleasedCounts
  <2> QED  BY <1>1, <1>2, <1>5, <2>1, Types, GivesUpKeeps DEF IInv
<1> QED  BY <1>4, <1>5 DEF SteerFails

\* The user is told that the Bot is idle, or the Bot's turn will tell.
LEMMA AnnounceIdleKeeps ==
    ASSUME IInv, NEW f \in Turns, AnnounceIdle(f) \/ LeaveToTurn(f)
    PROVE  IInv'
<1>1. /\ stage[f] \in {"quiet", "failed"} /\ stage' = [stage EXCEPT ![f] = "done"]
      /\ UNCHANGED <<lock, work, bot, run, reply, counted, live, router, codex, stream, turns>>
      /\ UNCHANGED <<history, faults>>
      /\ status' \in {status, "refused", "working", "idle"}
  BY DEF AnnounceIdle, LeaveToTurn, Current, rowVars, codexVars
<1>2. /\ stage' \in [Tasks -> Stages]
      /\ \A u \in Tasks : u # f => stage'[u] = stage[u]
      /\ stage'[f] = "done"
  BY <1>1, NamesDiffer, Types DEF IInv, Stages
<1>3. TypeOK'
  BY <1>1, <1>2, Types, TypesNext DEF IInv
<1>4. lock # f
  BY <1>1, NamesDiffer DEF IInv, WorkFits
<1>5. WorkFits' /\ ThreadsFit' /\ CountedExactly'
  <2>1. lock # NoOne => lock \in Tasks
    BY Types DEF IInv
  <2> QED  BY <1>1, <1>2, <1>4, <2>1 DEF IInv, WorkFits, ThreadsFit, Unused, CountedExactly
<1>6. \A g \in Turns : stage[g] \in {"unborn", "new"} => stage'[g] = stage[g]
  BY <1>1, <1>2, NamesDiffer
<1>7. \A r \in Runs : stage'[r] = stage[r]
  BY <1>2, NamesDiffer
<1> QED  BY <1>1, <1>3, <1>5, <1>6, <1>7, TaskKeeps

\* The Bot's grants change while no task holds the lock.
LEMMA ChangeGrantsKeeps ==
    ASSUME IInv, ChangeGrants
    PROVE  IInv'
<1>1. PICK g \in GrantSets : bot' = [bot EXCEPT !.grants = g]
  BY DEF ChangeGrants
<1>2. /\ lock = NoOne /\ history' = [history EXCEPT !.changes = @ + 1]
      /\ UNCHANGED <<lock, work, stage, run, reply, counted, live, status, router, codex, stream>>
      /\ UNCHANGED <<turns, faults>>
  BY DEF ChangeGrants, taskVars, codexVars
<1>3. bot' \in BotType /\ bot'.thread = bot.thread /\ bot'.carryover = bot.carryover
  BY <1>1, Types DEF IInv, BotType
<1>4. /\ history' \in HistoryType /\ history'.others = history.others
      /\ history'.lost = history.lost
  <2>1. history \in HistoryType
    BY Types DEF IInv
  <2> QED  BY <1>2, <2>1 DEF HistoryType
<1>5. TypeOK'
  BY <1>2, <1>3, <1>4, Types, TypesNext DEF IInv
<1>6. work = NoWork
  BY <1>2 DEF IInv, WorkFits
<1>7. WorkFits' /\ ThreadsFit' /\ CountedExactly'
  BY <1>2, <1>3, <1>4, <1>6 DEF IInv, WorkFits, ThreadsFit, Unused, CountedExactly, NoWork
<1> QED  BY <1>2, <1>3, <1>5, <1>7, TaskKeeps

\* A turn of another Bot is counted.
LEMMA OtherTurnKeeps ==
    ASSUME IInv, OtherTurn
    PROVE  IInv'
<1>1. /\ HasTurnLeft /\ counted' = counted + 1 /\ history' = [history EXCEPT !.others = @ + 1]
      /\ UNCHANGED <<lock, work, stage, bot, run, reply, live, status, router, codex, stream>>
      /\ UNCHANGED <<turns, faults>>
  BY DEF OtherTurn, taskVars, codexVars
<1>2. /\ history' \in HistoryType /\ history'.others = history.others + 1
      /\ history'.lost = history.lost
  <2>1. history \in HistoryType /\ history.others + 1 \in Nat
    BY Types, Numbers DEF IInv
  <2> QED  BY <1>1, <2>1 DEF HistoryType
<1>3. counted' \in 0..TurnLimit
  BY <1>1, Numbers DEF HasTurnLeft
<1>4. TypeOK'
  BY <1>1, <1>2, <1>3, Types, TypesNext DEF IInv
<1>5. CountedExactly'
  <2> DEFINE k == IF work.reserved /\ work.turn = 0 THEN 1 ELSE 0
  <2>1. k \in Nat /\ counted = Len(turns) + history.others + history.lost + k
    BY DEF IInv, CountedExactly
  <2> HIDE DEF k
  <2>2. \A a \in Nat, b \in Nat, c \in Nat : a + (b + 1) + c + k = a + b + c + k + 1
    BY <2>1
  <2>3. Len(turns) \in Nat /\ history.others \in Nat /\ history.lost \in Nat
    BY Numbers
  <2>4. counted' = Len(turns) + history.others + history.lost + k + 1
    BY <1>1, <2>1
  <2>5. counted' = Len(turns) + (history.others + 1) + history.lost + k
    BY <2>2, <2>3, <2>4
  <2> QED  BY <1>1, <1>2, <2>5 DEF CountedExactly, k
<1>6. WorkFits' /\ ThreadsFit'
  BY <1>1 DEF IInv, WorkFits, ThreadsFit, Unused
<1> QED  BY <1>1, <1>4, <1>5, <1>6, TaskKeeps

-----------------------------------------------------------------------------
(* Codex starts a turn.                                                     *)

\* What holds once Codex started a turn that nobody else knows of: all but what
\* the task did with it.
LEMMA StartKeeps ==
    ASSUME IInv, StartsTurn, TypeOK', UNCHANGED <<bot, live, router, reply>>,
           \A f \in Turns : stage[f] = "unborn" => stage'[f] = "unborn",
           \A f \in Turns : stage[f] = "new" /\ f # lock => stage'[f] = "new" /\ f # lock',
           \A r \in Runs : run'[r] = run[r] \/ run'[r].state = "failed",
           \A r \in Runs : stage'[r] = "new" => stage[r] = "new" /\ run'[r] = run[r]
    PROVE  /\ Len(turns') = Len(turns) + 1 /\ Len(turns') \in Turns
           /\ turns'[Len(turns')].thread = bot.thread
           /\ Len(turns') \in codex'.running
           /\ history'.others = history.others /\ history'.lost = history.lost
           /\ ThreadsFit' /\ CarriesOver' /\ RunsFit' /\ CodexFits' /\ ReportsFit' /\ EndsFit'
           /\ TurnFits' /\ OwedFits' /\ RunningFits' /\ ReplyFits'
<1> DEFINE n == Len(turns) + 1
           started == Report("started", n)
           new == [thread |-> bot.thread, made |-> bot.made, carries |-> bot.carryover]
<1>1. /\ Alive /\ ThreadIdle /\ Len(turns) < MaxTurns
      /\ turns' = Append(turns, new)
      /\ history' = [history EXCEPT !.waiting = {}]
      /\ codex' = [codex EXCEPT !.running = @ \cup {Len(turns')}]
      /\ stream' = Append(stream, Report("started", Len(turns')))
  BY DEF StartsTurn
<1>2. new \in TurnType /\ turns \in Seq(TurnType) /\ Len(turns) \in Nat
  BY Types, TurnsAre DEF IInv, BotType, TurnType
<1>3. /\ Len(turns') = n /\ turns'[n] = new /\ \A t \in 1..Len(turns) : turns'[t] = turns[t]
      /\ \A t \in 1..Len(turns') : t \in 1..Len(turns) \/ t = n
  BY <1>1, <1>2
<1>4. n \in Turns /\ n \notin codex.running /\ MaxTurns \in Nat
  BY <1>1, <1>2, ConversationAssumption DEF Turns, IInv, CodexFits
<1>5. started \in ReportType /\ started.type = "started" /\ started.turn = n
  BY <1>4 DEF Report, ReportType, Reports, Endings
<1>6. /\ stream' = Append(stream, started) /\ stream \in Seq(ReportType)
      /\ codex'.running = codex.running \cup {n} /\ codex'.talk = codex.talk /\ codex'.up = codex.up
      /\ history'.others = history.others /\ history'.lost = history.lost
  BY <1>1, <1>3, Types DEF IInv, CodexType, HistoryType
<1>7. codex.running \in SUBSET (1..Len(turns))
  BY DEF IInv, CodexFits
<1>8. /\ \A t \in 1..Len(turns) : turns[t].thread \in Nat /\ turns[t].thread =< bot.thread
      /\ bot.thread \in Nat
  BY TurnsAre, Types DEF IInv, ThreadsFit, BotType
<1> HIDE DEF n, started
<1>9. n = Len(turns) + 1
  BY DEF n
<1>10. ThreadsFit' /\ CarriesOver'
  <2>1. ~Unused(bot.thread)'
    BY <1>3, <1>9, <1>2 DEF Unused
  <2>2. ThreadsFit'
    BY <1>3, <1>8, <2>1 DEF ThreadsFit
  <2>3. DOMAIN turns' = 1..Len(turns') /\ DOMAIN turns = 1..Len(turns)
    BY <1>1, <1>2
  <2>4. ASSUME NEW t \in 1..Len(turns'), turns'[t].thread > 1,
               \A u \in 1..(t - 1) : turns'[u].thread # turns'[t].thread
        PROVE  turns'[t].carries
    <3>1. CASE t = n
      <4>1. 1..(t - 1) = 1..Len(turns)
        BY <1>2, <1>9, <3>1
      <4>2. Unused(bot.thread) /\ bot.thread > 1
        BY <1>3, <2>4, <3>1, <4>1 DEF Unused
      <4> QED  BY <1>3, <3>1, <4>2 DEF IInv, ThreadsFit
    <3>2. CASE t \in 1..Len(turns)
      <4>1. \A u \in 1..(t - 1) : u \in 1..Len(turns)
        BY <1>2, <3>2
      <4> QED  BY <1>3, <2>3, <2>4, <3>2, <4>1 DEF IInv, CarriesOver
    <3> QED  BY <1>3, <3>1, <3>2
  <2> QED  BY <2>2, <2>3, <2>4 DEF CarriesOver
<1>11. RunsFit'
  BY DEF IInv, RunsFit
<1>12. CodexFits'
  <2>1. ASSUME NEW t \in codex'.running, NEW u \in 1..Len(turns'), u > t
        PROVE  turns'[u].thread # turns'[t].thread
    <3>1. t \in codex.running /\ t \in 1..Len(turns)
      BY <1>2, <1>3, <1>6, <1>7, <1>9, <2>1
    <3>2. CASE u = n
      BY <1>1, <1>3, <3>1, <3>2 DEF ThreadIdle
    <3>3. CASE u \in 1..Len(turns)
      BY <1>3, <2>1, <3>1, <3>3 DEF IInv, CodexFits
    <3> QED  BY <1>3, <3>2, <3>3
  <2>2. codex'.running \subseteq 1..Len(turns')
    BY <1>2, <1>3, <1>6, <1>7, <1>9
  <2>3. Len(turns') =< MaxTurns /\ codex'.up
    BY <1>1, <1>2, <1>3, <1>4, <1>6, <1>9 DEF Alive
  <2> QED  BY <1>6, <2>1, <2>2, <2>3 DEF IInv, CodexFits
<1>13. ReportsFit'
  <2>1. Orderly(stream, codex.running, Len(turns))
    BY DEF IInv, ReportsFit
  <2>2. started.turn = Len(turns) + 1
    BY <1>5, <1>9
  <2>3. Orderly(Append(stream, started), codex.running \cup {Len(turns) + 1}, Len(turns) + 1)
    BY <1>2, <1>5, <1>6, <1>7, <2>1, <2>2, OrderlyStart
  <2> QED  BY <1>3, <1>6, <1>9, <2>3 DEF ReportsFit
<1>14. EndsFit'
  <2>1. ASSUME NEW t \in Turns, EndIsOpen(t)'
        PROVE  EndIsOpen(t)
    <3>1. Comes(stream', "ended", t) <=> Comes(stream, "ended", t)
      BY <1>5, <1>6, AddedComes
    <3>2. t > Len(turns') => t > Len(turns)
      BY <1>2, <1>3, <1>9 DEF Turns
    <3>3. n > Len(turns)
      BY <1>2, <1>9
    <3> QED  BY <1>6, <2>1, <3>1, <3>2, <3>3 DEF EndIsOpen
  <2> QED  BY <2>1 DEF IInv, EndsFit
<1>15. \A t : EndComes(stream, t) => EndComes(stream', t)
  BY <1>5, <1>6, AddedTells
<1>16. TurnFits'
  <2>1. live'.turn # 0 => live'.turn \in codex'.running \/ EndComes(stream', live'.turn)
    BY <1>6, <1>15 DEF IInv, TurnFits
  <2>2. ASSUME NEW t \in codex'.running, turns'[t].thread = bot'.thread
        PROVE  live'.turn = t \/ Comes(stream', "started", t)
    <3>1. Comes(stream', "started", t) <=> Comes(stream, "started", t) \/ t = n
      BY <1>5, <1>6, AddedTells
    <3>2. t \in codex.running \/ t = n
      BY <1>6
    <3> QED  BY <1>3, <1>7, <2>2, <3>1, <3>2 DEF IInv, TurnFits
  <2> QED  BY <2>1, <2>2 DEF TurnFits
<1>17. OwedFits'
  BY DEF IInv, OwedFits
<1>18. RunningFits'
  BY <1>6, <1>15 DEF IInv, RunningFits, EndIsAnnounced
<1>19. ReplyFits'
  <2> SUFFICES ASSUME NEW t \in Turns
               PROVE  ReplyFits!(t)'
    BY DEF ReplyFits
  <2>1. ~TellsOf(started, t)
    BY <1>5 DEF TellsOf, EndsIn
  <2>2. codex.talk[n] = "silent"
    BY <1>4 DEF IInv, CodexFits
  <2>3. Speaks(t)' <=> Speaks(t)
    BY <1>4, <1>6, <2>2 DEF Speaks
  <2>4. Foretells(stream', t, Speaks(t)) /\ (Silent(stream', t) <=> Silent(stream, t))
    <3>1. Speaks(t) \in BOOLEAN
      BY DEF Speaks
    <3> QED  BY <1>5, <1>6, <2>1, <3>1, AddedTells DEF IInv, ReplyFits
  <2>5. Foretells(stream', t, Speaks(t)')
    BY <2>3, <2>4 DEF Foretells
  <2> QED  BY <2>3, <2>4, <2>5 DEF IInv, ReplyFits, EndIsAnnounced
<1> QED  BY <1>3, <1>4, <1>6, <1>9, <1>10, <1>11, <1>12, <1>13, <1>14, <1>16, <1>17, <1>18, <1>19

\* The types of what starting a turn changes.
LEMMA StartTypes ==
    ASSUME IInv, StartsTurn
    PROVE  /\ turns' \in Seq(TurnType) /\ codex' \in CodexType /\ stream' \in Seq(ReportType)
           /\ history' \in HistoryType
<1> DEFINE n == Len(turns)
           new == [thread |-> bot.thread, made |-> bot.made, carries |-> bot.carryover]
<1>1. /\ n < MaxTurns /\ turns' = Append(turns, new)
      /\ history' = [history EXCEPT !.waiting = {}]
      /\ codex' = [codex EXCEPT !.running = @ \cup {Len(turns')}]
      /\ stream' = Append(stream, Report("started", Len(turns')))
  BY DEF StartsTurn
<1>2. new \in TurnType /\ turns \in Seq(TurnType) /\ n \in Nat
  BY Types, TurnsAre DEF IInv, BotType, TurnType
<1>3. turns' \in Seq(TurnType) /\ Len(turns') = n + 1
  BY <1>1, <1>2
<1>4. Len(turns') \in Turns
  BY <1>1, <1>2, <1>3, ConversationAssumption DEF Turns
<1>5. Report("started", Len(turns')) \in ReportType
  BY <1>4 DEF Report, ReportType, Reports, Endings
<1>6. codex' \in CodexType
  BY <1>1, <1>4, Types DEF IInv, CodexType
<1>7. stream' \in Seq(ReportType)
  BY <1>1, <1>5, Types, Added DEF IInv
<1>8. history' \in HistoryType
  BY <1>1, WaitingChanges
<1> QED  BY <1>3, <1>6, <1>7, <1>8

\* Codex answers that it started the turn.
LEMMA BeginTurnKeeps ==
    ASSUME IInv, NEW t \in Tasks, BeginTurn(t)
    PROVE  IInv'
<1>1. lock = t /\ t # NoOne /\ work.step = "start" /\ stage[t] = "new"
  BY Holder DEF BeginTurn
<1>2. /\ StartsTurn
      /\ work' = [work EXCEPT !.step = "record", !.turn = Len(turns'), !.carries = bot.carryover]
      /\ UNCHANGED <<lock, stage, bot, run, reply, counted, live, status, router, faults>>
  BY DEF BeginTurn, rowVars
<1>3. work.turn = 0 /\ work.reserved /\ work \in WorkType /\ bot.carryover \in BOOLEAN
  BY <1>1, Types DEF IInv, WorkFits, BotType
<1>4. Len(turns') \in Turns
  <2>1. Len(turns) < MaxTurns /\ Len(turns') = Len(turns) + 1
    BY <1>2, Types DEF StartsTurn, IInv
  <2> QED  BY <2>1, TurnsAre, ConversationAssumption DEF Turns, IInv
<1>5. /\ work' \in WorkType /\ work'.step = "record" /\ work'.turn = Len(turns')
      /\ work'.reserved = work.reserved
  BY <1>2, <1>3, <1>4 DEF WorkType, Steps
<1>6. TypeOK'
  BY <1>2, <1>5, StartTypes, Types, TypesNext DEF IInv
<1>7. /\ Len(turns') = Len(turns) + 1 /\ turns'[Len(turns')].thread = bot.thread
      /\ Len(turns') \in codex'.running
      /\ history'.others = history.others /\ history'.lost = history.lost
      /\ ThreadsFit' /\ CarriesOver' /\ RunsFit' /\ CodexFits' /\ ReportsFit' /\ EndsFit'
      /\ TurnFits' /\ OwedFits' /\ RunningFits' /\ ReplyFits'
  BY <1>2, <1>6, StartKeeps
<1>8. WorkFits'
  BY <1>1, <1>2, <1>4, <1>5, <1>7 DEF IInv, WorkFits
<1>9. CountedExactly'
  <2>1. counted = Len(turns) + history.others + history.lost + 1
    BY <1>3 DEF IInv, CountedExactly
  <2>2. work'.turn # 0
    BY <1>4, <1>5, NamesDiffer
  <2>3. Len(turns) \in Nat /\ history.others \in Nat /\ history.lost \in Nat
    BY Numbers
  <2>4. counted = (Len(turns) + 1) + history.others + history.lost + 0
    BY <2>1, <2>3, Sums
  <2> QED  BY <1>2, <1>7, <2>2, <2>4 DEF CountedExactly
<1>10. RecordFits'
  BY <1>5, <1>7 DEF RecordFits
<1> QED  BY <1>6, <1>7, <1>8, <1>9, <1>10 DEF IInv

\* Codex may have started the turn, and its answer is lost.
LEMMA BeginLostKeeps ==
    ASSUME IInv, NEW t \in Tasks, BeginLost(t)
    PROVE  IInv'
<1>1. lock = t /\ t # NoOne /\ work.step = "start" /\ stage[t] = "new"
  BY Holder DEF BeginLost
<1>2. work.turn = 0 /\ work.reserved
  BY <1>1 DEF IInv, WorkFits
<1>3. GivesUp(t) /\ UNCHANGED <<bot, reply, counted, live, status, router>> /\ faults' \in Nat
  BY Numbers DEF BeginLost, Fails
<1>4. work' = NoWork
  BY <1>3 DEF GivesUp, Leaves
<1>5. counted = Len(turns) + history.others + history.lost + 1
  BY <1>2 DEF IInv, CountedExactly
<1>6. CASE /\ history' = [history EXCEPT !.lost = @ + 1, !.waiting = IF t \in Turns THEN {} ELSE @]
           /\ UNCHANGED codexVars
  <2>1. /\ history' \in HistoryType /\ history'.others = history.others
        /\ history'.lost = history.lost + 1
    <3>1. history \in HistoryType
      BY Types DEF IInv
    <3>2. PICK w \in SUBSET (Messages \X Turns) :
              history' = [history EXCEPT !.lost = history.lost + 1, !.waiting = w]
      BY <1>6, <3>1 DEF HistoryType
    <3>3. history.lost + 1 \in Nat
      BY Numbers
    <3>4. history' \in HistoryType
      BY <3>1, <3>2, <3>3 DEF HistoryType
    <3>5. history'.others = history.others /\ history'.lost = history.lost + 1
      BY <3>1, <3>2, <3>3 DEF HistoryType
    <3> QED  BY <3>4, <3>5
  <2>2. counted' \in 0..TurnLimit
    BY <1>3, Types DEF IInv
  <2>3. CountedExactly'
    <3>1. Len(turns) \in Nat /\ history.others \in Nat /\ history.lost \in Nat
      BY Numbers
    <3>2. Len(turns) + history.others + history.lost + 1
              = Len(turns) + history.others + (history.lost + 1) + 0
      BY <3>1, Sums
    <3>3. counted' = Len(turns) + history.others + (history.lost + 1) + 0
      BY <1>3, <1>5, <3>2
    <3> QED  BY <1>4, <1>6, <2>1, <3>3 DEF CountedExactly, NoWork, codexVars
  <2> QED  BY <1>1, <1>3, <1>6, <2>1, <2>2, <2>3, GivesUpKeeps DEF codexVars
<1>7. CASE StartsTurn
  <2> DEFINE next == IF t \in Turns THEN "failed" ELSE "done"
  <2>1. /\ lock' = NoOne /\ stage' = [stage EXCEPT ![t] = next]
        /\ run' = [r \in Runs |-> IF r = t THEN [run[r] EXCEPT !.state = "failed"] ELSE run[r]]
    BY <1>3 DEF GivesUp, Leaves
  <2>2. next \in {"failed", "done"}
    OBVIOUS
  <2> HIDE DEF next
  <2>3. /\ stage' \in [Tasks -> Stages] /\ stage'[t] = next
        /\ \A u \in Tasks : u # t => stage'[u] = stage[u]
    BY <2>1, <2>2, Types DEF IInv, Stages
  <2>4. run' \in [Runs -> RunType] /\ \A r \in Runs : r # t => run'[r] = run[r]
    BY <2>1, Types DEF IInv, RunType, RunEndings
  <2>5. NoWork \in WorkType
    BY DEF NoWork, WorkType, Steps
  <2>6. TypeOK'
    BY <1>3, <1>4, <1>7, <2>1, <2>3, <2>4, <2>5, StartTypes, Types, TypesNext DEF IInv
  <2>7. \A r \in Runs : run'[r] = run[r] \/ run'[r].state = "failed"
    BY <2>1, Types DEF IInv, RunType
  <2>8. \A f \in Turns : stage[f] = "unborn" => stage'[f] = "unborn"
    BY <1>1, <2>3, NamesDiffer
  <2>9. \A f \in Turns : stage[f] = "new" /\ f # lock => stage'[f] = "new" /\ f # lock'
    BY <1>1, <2>1, <2>3, NamesDiffer
  <2>10. \A r \in Runs : stage'[r] = "new" => stage[r] = "new" /\ run'[r] = run[r]
    BY <2>2, <2>3, <2>4, NamesDiffer
  <2>11. /\ Len(turns') = Len(turns) + 1
         /\ history'.others = history.others /\ history'.lost = history.lost
         /\ ThreadsFit' /\ CarriesOver' /\ RunsFit' /\ CodexFits' /\ ReportsFit' /\ EndsFit'
         /\ TurnFits' /\ OwedFits' /\ RunningFits' /\ ReplyFits'
    BY <1>3, <1>7, <2>6, <2>7, <2>8, <2>9, <2>10, StartKeeps
  <2>12. WorkFits' /\ RecordFits'
    BY <1>4, <2>1 DEF WorkFits, RecordFits, Unrecorded, NoWork
  <2>13. CountedExactly'
    <3>1. Len(turns) \in Nat /\ history.others \in Nat /\ history.lost \in Nat
      BY Numbers
    <3>2. counted = (Len(turns) + 1) + history.others + history.lost + 0
      BY <1>5, <3>1, Sums
    <3> QED  BY <1>3, <1>4, <2>11, <3>2 DEF CountedExactly, NoWork
  <2> QED  BY <2>6, <2>11, <2>12, <2>13 DEF IInv
<1> QED  BY <1>6, <1>7 DEF BeginLost

\* A turn that has ended was reported to end.
LEMMA EndedEnds ==
    ASSUME NEW s, NEW t, Comes(s, "ended", t)
    PROVE  EndComes(s, t)
  BY DEF Comes, EndComes, EndsIn

\* A task that lets the lock go leaves the others where they are.
LEMMA LeavesStages ==
    ASSUME IInv, NEW t \in Tasks, lock = t, stage[t] = "new", Leaves(t, "done")
    PROVE  /\ stage' \in [Tasks -> Stages] /\ lock' = NoOne /\ work' = NoWork
           /\ work' \in WorkType
           /\ \A f \in Turns : stage[f] = "unborn" => stage'[f] = "unborn"
           /\ \A f \in Turns : stage[f] = "new" /\ f # lock => stage'[f] = "new" /\ f # lock'
           /\ \A r \in Runs : stage'[r] = "new" => stage[r] = "new" /\ r # t
<1>1. lock' = NoOne /\ work' = NoWork /\ stage' = [stage EXCEPT ![t] = "done"]
  BY DEF Leaves
<1>2. /\ stage' \in [Tasks -> Stages] /\ stage'[t] = "done"
      /\ \A u \in Tasks : u # t => stage'[u] = stage[u]
  BY <1>1, Types DEF IInv, Stages
<1>3. NoWork \in WorkType
  BY DEF NoWork, WorkType, Steps
<1> QED  BY <1>1, <1>2, <1>3, NamesDiffer

\* A task whose turn started, and is recorded.
LEMMA MovesOn ==
    ASSUME IInv, NEW t \in Tasks, lock = t, t # NoOne, stage[t] = "new",
           work.step \in {"record", "announce"}, UNCHANGED <<turns, counted, history>>,
           \/ /\ \/ work.step = "record" /\ Goes("announce")
                 \/ t \in Runs /\ Goes("mark")
              /\ UNCHANGED <<lock, stage>>
           \/ Leaves(t, "done")
    PROVE  /\ work' \in WorkType /\ lock' \in Tasks \cup {NoOne} /\ stage' \in [Tasks -> Stages]
           /\ WorkFits' /\ CountedExactly'
           /\ \A f \in Turns : stage[f] = "unborn" => stage'[f] = "unborn"
           /\ \A f \in Turns : stage[f] = "new" /\ f # lock => stage'[f] = "new" /\ f # lock'
           /\ \A r \in Runs : stage'[r] = "new" => stage[r] = "new"
           /\ Unrecorded' => Unrecorded /\ work'.turn = work.turn
<1>1. /\ work.turn = Len(turns) /\ work.turn \in Turns /\ work \in WorkType
      /\ counted = Len(turns) + history.others + history.lost
  <2>1. work.turn = Len(turns) /\ work.turn \in Turns /\ work.turn # 0
    BY NamesDiffer DEF IInv, WorkFits
  <2> QED  BY <2>1, Numbers, Types DEF IInv, CountedExactly
<1>2. ASSUME NEW s \in {"announce", "mark"}, Goes(s), UNCHANGED <<lock, stage>>,
             s = "mark" => t \in Runs, s = "announce" => work.step = "record"
      PROVE  /\ work' \in WorkType /\ WorkFits' /\ CountedExactly'
             /\ Unrecorded' => Unrecorded /\ work'.turn = work.turn
  <2>1. work' \in WorkType /\ work'.step = s /\ work'.turn = work.turn
    BY <1>1, <1>2 DEF Goes, WorkType, Steps
  <2>2. WorkFits'
    BY <1>1, <1>2, <2>1 DEF IInv, WorkFits
  <2>3. CountedExactly'
    BY <1>1, <2>1, Numbers, NamesDiffer DEF CountedExactly
  <2> QED  BY <1>2, <2>1, <2>2, <2>3 DEF Unrecorded
<1>3. ASSUME Leaves(t, "done")
      PROVE  WorkFits' /\ CountedExactly' /\ ~Unrecorded'
  <2>1. lock' = NoOne /\ work' = NoWork
    BY <1>3 DEF Leaves
  <2> QED  BY <1>1, <2>1, Numbers DEF WorkFits, CountedExactly, Unrecorded, NoWork
<1>4. CASE Leaves(t, "done")
  BY <1>3, <1>4, LeavesStages
<1>5. CASE /\ \/ work.step = "record" /\ Goes("announce")
              \/ t \in Runs /\ Goes("mark")
           /\ UNCHANGED <<lock, stage>>
  BY <1>2, <1>5, Types DEF IInv
<1> QED  BY <1>4, <1>5

\* The turn that started is recorded, unless it has ended.
LEMMA RecordKeeps ==
    ASSUME IInv, NEW t \in Tasks, Record(t)
    PROVE  IInv'
<1> DEFINE w == work.turn
           runs == live.ended[w] = "none"
<1>1. lock = t /\ t # NoOne /\ work.step = "record" /\ stage[t] = "new"
  BY Holder DEF Record
<1>2. /\ bot' = [bot EXCEPT !.carryover = @ /\ ~work.carries]
      /\ live' = [live EXCEPT !.owed = {}, !.turn = IF runs THEN w ELSE @]
      /\ \/ /\ \/ Goes("announce")
               \/ t \in Runs /\ Goes("mark")
            /\ UNCHANGED <<lock, stage>>
         \/ Leaves(t, "done")
      /\ UNCHANGED <<run, reply, counted, status, router, codex, stream, turns, history, faults>>
  BY DEF Record, Recorded, codexVars
<1>3. /\ w = Len(turns) /\ w \in Turns /\ turns[w].thread = bot.thread
      /\ Len(turns) \in Nat /\ w \in 1..Len(turns)
  BY <1>1, TurnsAre DEF IInv, WorkFits, Turns
<1>4. /\ work' \in WorkType /\ lock' \in Tasks \cup {NoOne} /\ stage' \in [Tasks -> Stages]
      /\ WorkFits' /\ CountedExactly'
      /\ \A f \in Turns : stage[f] = "unborn" => stage'[f] = "unborn"
      /\ \A r \in Runs : stage'[r] = "new" => stage[r] = "new"
      /\ Unrecorded' => Unrecorded /\ work'.turn = work.turn
  BY <1>1, <1>2, MovesOn
<1>5. /\ live' \in LiveType /\ live'.ended = live.ended /\ live'.owed = {}
      /\ live'.turn = IF runs THEN w ELSE live.turn
  BY <1>2, <1>3, Types DEF IInv, LiveType
<1>6. bot' \in BotType /\ bot'.thread = bot.thread
  BY <1>2, Types DEF IInv, BotType, WorkType
<1>7. TypeOK'
  BY <1>2, <1>4, <1>5, <1>6, Types, TypesNext DEF IInv
<1>8. ThreadsFit' /\ CarriesOver' /\ RunsFit'
  <2>1. ~Unused(bot.thread)'
    BY <1>2, <1>3 DEF Unused
  <2> QED  BY <1>2, <1>4, <1>6, <2>1 DEF IInv, ThreadsFit, CarriesOver, RunsFit
<1>9. CodexFits' /\ ReportsFit' /\ EndsFit' /\ RunningFits' /\ ReplyFits' /\ OwedFits'
  BY <1>2, <1>4, <1>5 DEF IInv, CodexFits, ReportsFit, EndsFit, EndIsOpen, RunningFits,
                          EndIsAnnounced, ReplyFits, Speaks, OwedFits
<1>10. w \in codex.running \/ Comes(stream, "ended", w) \/ live.ended[w] # "none"
  BY <1>1 DEF IInv, RecordFits, Unrecorded
<1>11. RecordFits'
  BY <1>2, <1>4, <1>5, <1>10 DEF RecordFits
<1>12. TurnFits'
  <2>1. CASE ~runs
    BY <1>2, <1>5, <1>6, <2>1 DEF IInv, TurnFits
  <2>2. CASE runs
    <3>1. w \in codex.running \/ EndComes(stream, w)
      BY <1>10, <2>2, EndedEnds
    <3>2. ASSUME NEW u \in codex.running, turns[u].thread = bot.thread
          PROVE  u = w
      <4>1. u \in 1..Len(turns)
        BY DEF IInv, CodexFits
      <4>2. ~(w > u)
        BY <1>3, <3>2 DEF IInv, CodexFits
      <4> QED  BY <1>3, <4>1, <4>2
    <3> QED  BY <1>2, <1>5, <1>6, <2>2, <3>1, <3>2 DEF TurnFits
  <2> QED  BY <2>1, <2>2
<1> QED  BY <1>4, <1>7, <1>8, <1>9, <1>11, <1>12 DEF IInv

\* The task that recorded the turn announces it.
LEMMA AnnounceWorkingKeeps ==
    ASSUME IInv, NEW t \in Tasks, AnnounceWorking(t)
    PROVE  IInv'
<1>1. lock = t /\ t # NoOne /\ work.step = "announce" /\ stage[t] = "new"
  BY Holder DEF AnnounceWorking
<1>2. /\ \/ t \in Runs /\ Goes("mark") /\ UNCHANGED <<lock, stage>>
         \/ Leaves(t, "done")
      /\ status' \in {status, "refused", "working", "idle"}
      /\ UNCHANGED <<bot, run, reply, counted, live, router, codex, stream, turns, history, faults>>
  BY DEF AnnounceWorking, Recorded, Current, rowVars, codexVars
<1>3. /\ work' \in WorkType /\ lock' \in Tasks \cup {NoOne} /\ stage' \in [Tasks -> Stages]
      /\ WorkFits' /\ CountedExactly'
      /\ \A f \in Turns : stage[f] = "unborn" => stage'[f] = "unborn"
      /\ \A f \in Turns : stage[f] = "new" /\ f # lock => stage'[f] = "new" /\ f # lock'
      /\ \A r \in Runs : stage'[r] = "new" => stage[r] = "new"
      /\ Unrecorded' => Unrecorded /\ work'.turn = work.turn
  BY <1>1, <1>2, MovesOn
<1>4. TypeOK'
  BY <1>2, <1>3, Types, TypesNext DEF IInv
<1>5. ThreadsFit' /\ CarriesOver' /\ RunsFit' /\ TurnFits' /\ OwedFits'
  BY <1>2, <1>3 DEF IInv, ThreadsFit, Unused, CarriesOver, RunsFit, TurnFits, OwedFits
<1>6. CodexFits' /\ ReportsFit' /\ EndsFit' /\ RunningFits' /\ ReplyFits'
  BY <1>2, <1>3 DEF IInv, CodexFits, ReportsFit, EndsFit, EndIsOpen, RunningFits,
                    EndIsAnnounced, ReplyFits, Speaks
<1>7. RecordFits'
  BY <1>2, <1>3 DEF IInv, RecordFits
<1> QED  BY <1>3, <1>4, <1>5, <1>6, <1>7 DEF IInv

\* A run is marked running, or ended with its turn.
LEMMA MarkKeeps ==
    ASSUME IInv, NEW r \in Runs, Mark(r)
    PROVE  IInv'
<1> DEFINE w == work.turn
           ending == live.ended[w]
           state == IF ending = "none" THEN "running" ELSE RunEnding(ending)
<1>1. lock = r /\ r # NoOne /\ work.step = "mark" /\ stage[r] = "new" /\ r \in Tasks
  BY Holder, NamesDiffer DEF Mark
<1>2. /\ run' = [run EXCEPT ![r] = [state |-> state, turn |-> w]]
      /\ Leaves(r, "done")
      /\ UNCHANGED <<bot, reply, counted, live, status, router, codex, stream, turns>>
      /\ UNCHANGED <<history, faults>>
  BY DEF Mark, codexVars
<1>3. /\ stage' \in [Tasks -> Stages] /\ lock' = NoOne /\ work' = NoWork
      /\ work' \in WorkType
      /\ \A f \in Turns : stage[f] = "unborn" => stage'[f] = "unborn"
      /\ \A f \in Turns : stage[f] = "new" /\ f # lock => stage'[f] = "new" /\ f # lock'
      /\ \A q \in Runs : stage'[q] = "new" => stage[q] = "new" /\ q # r
  BY <1>1, <1>2, LeavesStages
<1>4. w \in Turns /\ w # 0
  BY <1>1, NamesDiffer DEF IInv, WorkFits
<1>5. state \in {"running", "succeeded", "failed", "interrupted"} /\ (state = "running" => ending = "none")
  BY DEF RunEnding
<1> HIDE DEF state, ending
<1>6. /\ run' \in [Runs -> RunType] /\ run'[r].state = state /\ run'[r].turn = w
      /\ \A q \in Runs : q # r => run'[q] = run[q]
  <2>1. [state |-> state, turn |-> w] \in RunType
    BY <1>4, <1>5 DEF RunType, RunEndings
  <2> QED  BY <1>2, <2>1, Types DEF IInv
<1>7. TypeOK'
  BY <1>2, <1>3, <1>6, Types, TypesNext DEF IInv
<1>8. WorkFits' /\ RecordFits'
  BY <1>3 DEF WorkFits, RecordFits, Unrecorded, NoWork
<1>9. CountedExactly'
  BY <1>2, <1>3, <1>4, Numbers DEF IInv, CountedExactly, NoWork
<1>10. ThreadsFit' /\ CarriesOver' /\ TurnFits' /\ OwedFits'
  BY <1>2, <1>3 DEF IInv, ThreadsFit, Unused, CarriesOver, TurnFits, OwedFits
<1>11. RunsFit'
  BY <1>3, <1>4, <1>6 DEF IInv, RunsFit
<1>12. CodexFits' /\ ReportsFit' /\ EndsFit' /\ ReplyFits'
  BY <1>2, <1>3 DEF IInv, CodexFits, ReportsFit, EndsFit, EndIsOpen,
                    EndIsAnnounced, ReplyFits, Speaks
<1>13. RunningFits'
  <2>1. ending = "none" => w \in codex.running \/ EndComes(stream, w)
    BY <1>1, EndedEnds DEF ending, IInv, RecordFits, Unrecorded
  <2> QED  BY <1>2, <1>5, <1>6, <2>1 DEF IInv, RunningFits, EndIsAnnounced
<1> QED  BY <1>7, <1>8, <1>9, <1>10, <1>11, <1>12, <1>13 DEF IInv

-----------------------------------------------------------------------------
(* What Codex reports of a turn that runs.                                  *)

\* A report that starts and ends nothing.
LEMMA SaysKeeps ==
    ASSUME IInv, NEW t \in codex.running, NEW e \in ReportType,
           e.type \in {"took", "replying", "replied"}, e.turn = t,
           stream' = Append(stream, e), UNCHANGED <<turns, live, router, reply, bot>>,
           codex'.running = codex.running, codex'.up = codex.up,
           \A u \in Turns : u # t => codex'.talk[u] = codex.talk[u],
           e.type = "took" => codex'.talk = codex.talk,
           e.type = "replying" => codex'.talk[t] = "speaking",
           e.type = "replied" => codex'.talk[t] = "spoken",
           \A f \in Turns : stage[f] = "unborn" => stage'[f] = "unborn"
    PROVE  /\ stream' \in Seq(ReportType) /\ CodexFits' /\ ReportsFit' /\ EndsFit' /\ TurnFits'
           /\ ReplyFits'
           /\ \A u : EndComes(stream, u) => EndComes(stream', u)
           /\ \A u : Comes(stream, "ended", u) => Comes(stream', "ended", u)
<1>1. stream \in Seq(ReportType) /\ codex.running \in SUBSET (1..Len(turns)) /\ Len(turns) \in Nat
  BY Types, TurnsAre DEF IInv, CodexFits
<1>2. stream' \in Seq(ReportType) /\ ReportsFit'
  BY <1>1, OrderlySays, Added DEF IInv, ReportsFit
<1>3. \A u : Comes(stream', "ended", u) <=> Comes(stream, "ended", u)
  BY <1>1, AddedComes
<1>4. \A u : Comes(stream, "started", u) => Comes(stream', "started", u)
  BY <1>1, AddedComes
<1>5. \A u : EndComes(stream, u) => EndComes(stream', u)
  <2> TRUE \in BOOLEAN
    OBVIOUS
  <2> QED  BY <1>1, AddedTells
<1>6. CodexFits'
  BY DEF IInv, CodexFits
<1>7. EndsFit'
  BY <1>3 DEF IInv, EndsFit, EndIsOpen
<1>8. TurnFits'
  BY <1>4, <1>5 DEF IInv, TurnFits
<1>9. ReplyFits'
  <2> SUFFICES ASSUME NEW u \in Turns
               PROVE  /\ Foretells(stream', u, Speaks(u)')
                      /\ Silent(stream', u) =>
                             IF EndIsAnnounced(u)' THEN ~Speaks(u)' ELSE reply'[u] = "streaming" <=> Speaks(u)'
    BY DEF ReplyFits
  <2>1. EndIsAnnounced(u)' <=> EndIsAnnounced(u)
    BY DEF EndIsAnnounced
  <2>2. Speaks(u)' \in BOOLEAN /\ Speaks(u) \in BOOLEAN
    BY DEF Speaks
  <2>3. CASE TellsOf(e, u)
    <3>1. e.type \in {"replying", "replied"} /\ u = t
      BY <2>3 DEF TellsOf, EndsIn
    <3>2. e.type = "replying" <=> Speaks(u)'
      BY <3>1 DEF Speaks
    <3>3. Foretells(stream', u, Speaks(u)') /\ ~Silent(stream', u)
      BY <1>1, <2>2, <2>3, <3>2, AddedReply
    <3> QED  BY <3>3
  <2>4. CASE ~TellsOf(e, u)
    <3>1. Speaks(u)' <=> Speaks(u)
      BY <2>4 DEF TellsOf, Speaks
    <3>2. Foretells(stream', u, Speaks(u)) /\ (Silent(stream', u) <=> Silent(stream, u))
      BY <1>1, <2>2, <2>4, AddedTells DEF IInv, ReplyFits
    <3> QED  BY <2>1, <3>1, <3>2 DEF IInv, ReplyFits, Foretells
  <2> QED  BY <2>3, <2>4
<1> QED  BY <1>2, <1>3, <1>5, <1>6, <1>7, <1>8, <1>9

\* Codex takes a message into the turn that runs, and the answer comes or is lost.
LEMMA SteerKeeps ==
    ASSUME IInv, NEW m \in Messages, Steer(m) \/ SteerLost(m)
    PROVE  IInv'
<1> DEFINE t == work.active
           e == [Report("took", t) EXCEPT !.message = m]
<1>1. lock = m /\ m # NoOne /\ work.step = "steer" /\ stage[m] = "new" /\ m \in Tasks
  BY Holder, NamesDiffer DEF Steer, SteerLost
<1>2. /\ t \in codex.running /\ t \in Turns
      /\ codex' = [codex EXCEPT !.asked = @ \cup {t}]
      /\ stream' = Append(stream, e)
      /\ history' = [history EXCEPT !.waiting = @ \cup {<<m, t>>}]
      /\ Leaves(m, "done") \/ (Goes("again") /\ UNCHANGED <<lock, stage>>)
      /\ UNCHANGED <<bot, run, reply, counted, live, status, router, turns>>
      /\ faults' \in Nat
  BY Types, Numbers DEF Steer, SteerLost, TakesIn, Fails, rowVars, IInv, CodexType
<1>3. e \in ReportType /\ e.type = "took" /\ e.turn = t
  BY <1>2 DEF Report, ReportType, Reports, Endings
<1>4. /\ stage' \in [Tasks -> Stages] /\ work' \in WorkType /\ work'.turn = 0 /\ ~work'.reserved
      /\ \/ lock' = NoOne /\ work' = NoWork
         \/ lock' = m /\ work'.step = "again" /\ stage'[m] = "new"
      /\ \A f \in Turns : stage[f] = "unborn" => stage'[f] = "unborn"
      /\ \A f \in Turns : stage[f] = "new" /\ f # lock => stage'[f] = "new" /\ f # lock'
      /\ \A q \in Runs : stage'[q] = "new" => stage[q] = "new"
  <2>1. CASE Leaves(m, "done")
    BY <1>1, <2>1, LeavesStages DEF NoWork
  <2>2. CASE Goes("again") /\ UNCHANGED <<lock, stage>>
    <3>1. work.turn = 0 /\ ~work.reserved /\ work \in WorkType /\ stage \in [Tasks -> Stages]
      BY <1>1, Types DEF IInv, WorkFits
    <3>2. /\ work' \in WorkType /\ work'.turn = work.turn /\ work'.reserved = work.reserved
          /\ work'.step = "again"
      BY <2>2, <3>1 DEF Goes, WorkType, Steps
    <3> QED  BY <1>1, <2>2, <3>1, <3>2
  <2> QED  BY <1>2, <2>1, <2>2
<1>5. /\ codex' \in CodexType /\ codex'.running = codex.running /\ codex'.up = codex.up
      /\ codex'.talk = codex.talk
  BY <1>2, Types DEF IInv, CodexType
<1>6. /\ history' \in HistoryType /\ history'.others = history.others
      /\ history'.lost = history.lost
  <2>1. history.waiting \cup {<<m, t>>} \in SUBSET (Messages \X Turns)
    BY <1>2, Types DEF IInv, HistoryType
  <2> QED  BY <1>2, <2>1, WaitingChanges
<1> HIDE DEF e, t
<1>7. /\ stream' \in Seq(ReportType) /\ CodexFits' /\ ReportsFit' /\ EndsFit' /\ TurnFits'
      /\ ReplyFits' /\ \A u : EndComes(stream, u) => EndComes(stream', u)
  BY <1>2, <1>3, <1>4, <1>5, SaysKeeps
<1>8. TypeOK'
  BY <1>1, <1>2, <1>4, <1>5, <1>6, <1>7, Types, TypesNext DEF IInv
<1>9. WorkFits' /\ RecordFits'
  BY <1>1, <1>4, NamesDiffer DEF WorkFits, RecordFits, Unrecorded, NoWork
<1>10. CountedExactly'
  <2>1. ~work.reserved /\ counted = Len(turns) + history.others + history.lost
    BY <1>1, Numbers DEF IInv, WorkFits, CountedExactly
  <2> QED  BY <1>2, <1>4, <1>6, <2>1, Numbers DEF CountedExactly
<1>11. ThreadsFit' /\ CarriesOver' /\ RunsFit' /\ OwedFits'
  BY <1>2, <1>4 DEF IInv, ThreadsFit, Unused, CarriesOver, RunsFit, OwedFits
<1>12. RunningFits'
  BY <1>2, <1>5, <1>7 DEF IInv, RunningFits, EndIsAnnounced
<1> QED  BY <1>7, <1>8, <1>9, <1>10, <1>11, <1>12 DEF IInv

\* Codex does nothing to the gateway.
LEMMA CodexOnly ==
    ASSUME IInv, UNCHANGED codexOnly, history'.others = history.others, history'.lost = history.lost
    PROVE  /\ WorkFits' /\ CountedExactly' /\ ThreadsFit' /\ CarriesOver' /\ RunsFit' /\ OwedFits'
           /\ UNCHANGED <<lock, work, stage, bot, run, reply, counted, live, status, router, turns>>
<1>1. UNCHANGED <<lock, work, stage, bot, run, reply, counted, live, status, router, turns>>
  BY DEF codexOnly, taskVars, rowVars
<1> QED  BY <1>1 DEF IInv, WorkFits, CountedExactly, ThreadsFit, Unused, CarriesOver, RunsFit, OwedFits

\* A turn begins a reply, or finishes it.
LEMMA SpeakKeeps ==
    ASSUME IInv, NEW t \in codex.running, Speak(t) \/ StopSpeaking(t)
    PROVE  IInv'
<1> DEFINE e == IF Speak(t) THEN Report("replying", t) ELSE Report("replied", t)
           new == IF Speak(t) THEN "speaking" ELSE "spoken"
<1>1. /\ UNCHANGED codexOnly /\ UNCHANGED faults
      /\ stream' = Append(stream, e)
      /\ \E w \in SUBSET (Messages \X Turns) : history' = [history EXCEPT !.waiting = w]
      /\ \E a \in SUBSET Turns : codex' = [codex EXCEPT !.talk[t] = new, !.asked = a]
  <2>1. history \in HistoryType /\ codex \in CodexType
    BY Types DEF IInv
  <2>2. CASE Speak(t)
    <3>1. /\ history' = [history EXCEPT !.waiting = @ \ Answered(t)]
          /\ codex' = [codex EXCEPT !.talk[t] = "speaking", !.asked = @ \ {t}]
          /\ stream' = Append(stream, e) /\ UNCHANGED codexOnly /\ UNCHANGED faults
      BY <2>2 DEF Speak, Tells
    <3>2. history.waiting \ Answered(t) \in SUBSET (Messages \X Turns)
      BY <2>1 DEF HistoryType
    <3>3. codex.asked \ {t} \in SUBSET Turns
      BY <2>1 DEF CodexType
    <3> QED  BY <2>2, <3>1, <3>2, <3>3
  <2>3. CASE ~Speak(t)
    <3>1. /\ codex' = [codex EXCEPT !.talk[t] = "spoken"] /\ UNCHANGED <<codexOnly, history, faults>>
          /\ stream' = Append(stream, e)
      BY <2>3 DEF StopSpeaking, Tells
    <3>2. history' = [history EXCEPT !.waiting = history.waiting]
      BY <2>1, <3>1 DEF HistoryType
    <3>3. codex' = [codex EXCEPT !.talk[t] = "spoken", !.asked = codex.asked]
      BY <2>1, <3>1 DEF CodexType
    <3>4. history.waiting \in SUBSET (Messages \X Turns) /\ codex.asked \in SUBSET Turns
      BY <2>1 DEF HistoryType, CodexType
    <3> QED  BY <2>3, <3>1, <3>2, <3>3, <3>4
  <2> QED  BY <2>2, <2>3
<1>2. t \in Turns
  BY Types DEF IInv, CodexType
<1>3. /\ e \in ReportType /\ e.turn = t
      /\ \/ e.type = "replying" /\ new = "speaking"
         \/ e.type = "replied" /\ new = "spoken"
  BY <1>2 DEF Report, ReportType, Reports, Endings
<1> HIDE DEF e, new
<1>4. /\ codex' \in CodexType /\ codex'.running = codex.running /\ codex'.up = codex.up
      /\ codex'.talk[t] = new /\ \A u \in Turns : u # t => codex'.talk[u] = codex.talk[u]
  <2>1. PICK a \in SUBSET Turns : codex' = [codex EXCEPT !.talk[t] = new, !.asked = a]
    BY <1>1
  <2> QED  BY <1>2, <1>3, <2>1, Types DEF IInv, CodexType
<1>5. /\ history' \in HistoryType /\ history'.others = history.others
      /\ history'.lost = history.lost
  BY <1>1, WaitingChanges
<1>6. /\ WorkFits' /\ CountedExactly' /\ ThreadsFit' /\ CarriesOver' /\ RunsFit' /\ OwedFits'
      /\ UNCHANGED <<lock, work, stage, bot, run, reply, counted, live, status, router, turns>>
  BY <1>1, <1>5, CodexOnly
<1>7. /\ stream' \in Seq(ReportType) /\ CodexFits' /\ ReportsFit' /\ EndsFit' /\ TurnFits'
      /\ ReplyFits' /\ \A u : EndComes(stream, u) => EndComes(stream', u)
      /\ \A u : Comes(stream, "ended", u) => Comes(stream', "ended", u)
  BY <1>1, <1>3, <1>4, <1>6, SaysKeeps
<1>8. TypeOK'
  BY <1>1, <1>4, <1>5, <1>6, <1>7, Types, TypesNext DEF IInv
<1>9. RecordFits' /\ RunningFits'
  BY <1>4, <1>6, <1>7 DEF IInv, RecordFits, Unrecorded, RunningFits, EndIsAnnounced
<1> QED  BY <1>6, <1>7, <1>8, <1>9 DEF IInv

\* A turn ends.
LEMMA EndTurnKeeps ==
    ASSUME IInv, NEW t \in codex.running, EndTurn(t)
    PROVE  IInv'
<1>1. PICK ending \in Endings :
          /\ history' = [history EXCEPT !.waiting = IF ending = "completed" THEN @ ELSE @ \ Answered(t)]
          /\ stream' = Append(stream, [Report("ended", t) EXCEPT !.ending = ending])
  BY DEF EndTurn, Tells
<1> DEFINE e == [Report("ended", t) EXCEPT !.ending = ending]
<1>2. /\ codex' = [codex EXCEPT !.running = @ \ {t}, !.asked = @ \ {t}, !.talk[t] = "silent"]
      /\ UNCHANGED codexOnly /\ UNCHANGED faults
  BY DEF EndTurn
<1>3. t \in Turns /\ stream \in Seq(ReportType) /\ Len(turns) \in Nat
  BY Types, TurnsAre DEF IInv, CodexType
<1>4. e \in ReportType /\ e.turn = t /\ e.type = "ended"
  BY <1>3 DEF Report, ReportType, Reports, Endings
<1>5. /\ codex' \in CodexType /\ codex'.running = codex.running \ {t} /\ codex'.up = codex.up
      /\ codex'.talk[t] = "silent" /\ \A u \in Turns : u # t => codex'.talk[u] = codex.talk[u]
  BY <1>2, <1>3, Types DEF IInv, CodexType
<1>6. /\ history' \in HistoryType /\ history'.others = history.others
      /\ history'.lost = history.lost
  <2>1. (IF ending = "completed" THEN history.waiting ELSE history.waiting \ Answered(t))
            \in SUBSET (Messages \X Turns)
    BY Types DEF IInv, HistoryType
  <2> QED  BY <1>1, <2>1, WaitingChanges
<1>7. /\ WorkFits' /\ CountedExactly' /\ ThreadsFit' /\ CarriesOver' /\ RunsFit' /\ OwedFits'
      /\ UNCHANGED <<lock, work, stage, bot, run, reply, counted, live, status, router, turns>>
  BY <1>2, <1>6, CodexOnly
<1> HIDE DEF e
<1>8. stream' = Append(stream, e) /\ codex.running \in SUBSET (1..Len(turns))
  BY <1>1 DEF e, IInv, CodexFits
<1>9. stream' \in Seq(ReportType) /\ ReportsFit'
  BY <1>3, <1>4, <1>5, <1>7, <1>8, OrderlyEnd, Added DEF IInv, ReportsFit
<1>10. TypeOK'
  BY <1>2, <1>5, <1>6, <1>7, <1>9, Types, TypesNext DEF IInv
<1>11. CodexFits'
  BY <1>5, <1>7 DEF IInv, CodexFits
<1>12. /\ \A u : Comes(stream', "ended", u) <=> Comes(stream, "ended", u) \/ u = t
       /\ \A u : Comes(stream', "started", u) <=> Comes(stream, "started", u)
       /\ \A u : EndComes(stream, u) => EndComes(stream', u)
       /\ EndComes(stream', t)
  <2> TRUE \in BOOLEAN
    OBVIOUS
  <2>1. \A u : EndComes(stream', u) <=> EndComes(stream, u) \/ EndsIn(e, u)
    BY <1>3, <1>4, <1>8, AddedTells
  <2>2. EndsIn(e, t)
    BY <1>4 DEF EndsIn
  <2> QED  BY <1>3, <1>4, <1>8, <2>1, <2>2, AddedComes
<1>13. EndsFit'
  <2>1. \A u \in Turns : EndIsOpen(u)' => EndIsOpen(u)
    BY <1>5, <1>7, <1>12 DEF EndIsOpen
  <2> QED  BY <1>7, <2>1 DEF IInv, EndsFit
<1>14. RecordFits' /\ RunningFits' /\ TurnFits'
  BY <1>5, <1>7, <1>12 DEF IInv, RecordFits, Unrecorded, RunningFits, EndIsAnnounced, TurnFits
<1>15. ReplyFits'
  <2> SUFFICES ASSUME NEW u \in Turns
               PROVE  /\ Foretells(stream', u, Speaks(u)')
                      /\ Silent(stream', u) =>
                             IF EndIsAnnounced(u)' THEN ~Speaks(u)' ELSE reply'[u] = "streaming" <=> Speaks(u)'
    BY DEF ReplyFits
  <2>1. EndIsAnnounced(u)' <=> EndIsAnnounced(u)
    BY <1>7 DEF EndIsAnnounced
  <2>2. Speaks(u)' \in BOOLEAN /\ Speaks(u) \in BOOLEAN
    BY DEF Speaks
  <2>3. CASE u = t
    <3>1. ~Speaks(u)' /\ TellsOf(e, u)
      BY <1>4, <1>5, <2>3 DEF Speaks, TellsOf, EndsIn
    <3>2. e.type = "replying" <=> FALSE
      BY <1>4
    <3>3. Foretells(stream', u, FALSE) /\ ~Silent(stream', u)
      BY <1>3, <1>4, <1>8, <3>1, <3>2, AddedReply
    <3> QED  BY <3>1, <3>3 DEF Foretells
  <2>4. CASE u # t
    <3>1. ~TellsOf(e, u) /\ (Speaks(u)' <=> Speaks(u))
      BY <1>4, <1>5, <2>4 DEF TellsOf, EndsIn, Speaks
    <3>2. Foretells(stream', u, Speaks(u)) /\ (Silent(stream', u) <=> Silent(stream, u))
      BY <1>3, <1>4, <1>8, <2>2, <3>1, AddedTells DEF IInv, ReplyFits
    <3> QED  BY <1>7, <2>1, <3>1, <3>2 DEF IInv, ReplyFits, Foretells
  <2> QED  BY <2>3, <2>4
<1> QED  BY <1>7, <1>9, <1>10, <1>11, <1>13, <1>14, <1>15 DEF IInv

-----------------------------------------------------------------------------
(* An app server, or the gateway, stops.                                    *)

\* Nothing runs any more, and the last report says so.
LEMMA StoppedKeeps ==
    ASSUME IInv, UNCHANGED codexOnly, ~Unrecorded,
           codex' \in CodexType, codex'.running = {}, \A t \in Turns : codex'.talk[t] = "silent",
           history' = [history EXCEPT !.waiting = {}], faults' \in Nat,
           NEW s \in Seq(ReportType), NEW running, Orderly(s, running, Len(turns)),
           NEW k \in 0..Len(s), NEW e \in ReportType, e.type = "exited",
           stream' = Append(SubSeq(s, 1, k), e),
           \A t : Comes(s, "ended", t) => Comes(stream, "ended", t)
    PROVE  IInv'
<1>1. \A t : /\ stream' \in Seq(ReportType)
             /\ Comes(stream', "ended", t) => Comes(stream, "ended", t)
             /\ EndComes(stream', t) /\ ~Silent(stream', t) /\ Foretells(stream', t, FALSE)
  BY StopTells
<1>2. history' \in HistoryType /\ history'.others = history.others /\ history'.lost = history.lost
  BY WaitingChanges
<1>3. /\ WorkFits' /\ CountedExactly' /\ ThreadsFit' /\ CarriesOver' /\ RunsFit' /\ OwedFits'
      /\ UNCHANGED <<lock, work, stage, bot, run, reply, counted, live, status, router, turns>>
  BY <1>2, CodexOnly
<1>4. TypeOK'
  BY <1>1, <1>2, <1>3, Types, TypesNext DEF IInv
<1>5. CodexFits'
  BY <1>3 DEF IInv, CodexFits
<1>6. ReportsFit'
  BY <1>3, OrderlyStop, TurnsAre DEF IInv, ReportsFit
<1>7. EndsFit'
  <2>1. \A t \in Turns : EndIsOpen(t)' => EndIsOpen(t)
    BY <1>1, <1>3 DEF EndIsOpen
  <2> QED  BY <1>3, <2>1 DEF IInv, EndsFit
<1>8. RecordFits' /\ TurnFits' /\ RunningFits'
  BY <1>1, <1>3 DEF RecordFits, Unrecorded, TurnFits, RunningFits
<1>9. ReplyFits'
  <2>1. \A t \in Turns : ~Speaks(t)'
    BY DEF Speaks
  <2> QED  BY <1>1, <2>1 DEF ReplyFits, Foretells
<1> QED  BY <1>3, <1>4, <1>5, <1>6, <1>7, <1>8, <1>9 DEF IInv

\* The app server stops.
LEMMA StopKeeps ==
    ASSUME IInv, StopRecorded
    PROVE  IInv'
<1>1. stream \in Seq(ReportType) /\ codex \in CodexType
  BY Types DEF IInv
<1>2. PICK n \in Kept : stream' = Append(SubSeq(stream, 1, n), Report("exited", 0))
  BY DEF StopRecorded, Stop
<1>3. Report("exited", 0) \in ReportType /\ Report("exited", 0).type = "exited"
  BY DEF Report, ReportType, Reports, Endings
<1>4. /\ codex' \in CodexType /\ codex'.running = {}
      /\ \A t \in Turns : codex'.talk[t] = "silent"
  BY <1>1 DEF StopRecorded, Stop, Stopped, NoServer, CodexType
<1>5. faults' \in Nat
  BY Types, Numbers DEF IInv, StopRecorded, Stop, Fails
<1>6. Orderly(stream, codex.running, Len(turns)) /\ n \in 0..Len(stream)
  BY DEF IInv, ReportsFit, Kept
<1> QED  BY <1>1, <1>2, <1>3, <1>4, <1>5, <1>6, StoppedKeeps DEF StopRecorded, Stop

\* A safety rule is broken, which also stops the app server.
LEMMA ViolateKeeps ==
    ASSUME IInv, NEW t \in codex.running, Violate(t)
    PROVE  IInv'
<1> DEFINE r == Report("refused", t)
           e == Report("exited", 0)
           s == Append(stream, r)
<1>1. stream \in Seq(ReportType) /\ codex \in CodexType /\ t \in Turns /\ t \in 1..Len(turns)
  BY Types DEF IInv, CodexType, CodexFits
<1>2. r \in ReportType /\ r.type = "refused" /\ r.turn = t /\ e \in ReportType /\ e.type = "exited"
  BY <1>1 DEF Report, ReportType, Reports, Endings
<1>3. stream' = stream \o <<r, e>>
  BY DEF Violate
<1> HIDE DEF r, e
<1>4. s \in Seq(ReportType) /\ Len(s) = Len(stream) + 1 /\ Len(stream) \in Nat
  BY <1>1, <1>2, Added
<1>5. stream' = Append(SubSeq(s, 1, Len(s)), e)
  <2>1. stream \o <<r, e>> = Append(s, e)
    BY <1>1, <1>2
  <2>2. SubSeq(s, 1, Len(s)) = s
    BY <1>4
  <2> QED  BY <1>3, <2>1, <2>2
<1>6. Len(s) \in 0..Len(s) /\ Len(stream) \in 0..Len(stream)
  BY <1>4
<1>7. Orderly(s, {}, Len(turns))
  <2>1. s = Append(SubSeq(stream, 1, Len(stream)), r)
    BY <1>1
  <2>2. Orderly(stream, codex.running, Len(turns)) /\ Len(turns) \in Nat
    BY TurnsAre DEF IInv, ReportsFit
  <2>3. Orderly(Append(SubSeq(stream, 1, Len(stream)), r), {}, Len(turns))
    BY <1>1, <1>2, <1>6, <2>2, OrderlyStop
  <2> QED  BY <2>1, <2>3
<1>8. \A u : Comes(s, "ended", u) => Comes(stream, "ended", u)
  BY <1>1, <1>2, AddedComes
<1>9. /\ codex' \in CodexType /\ codex'.running = {}
      /\ \A u \in Turns : codex'.talk[u] = "silent"
  BY <1>1 DEF Violate, Stopped, NoServer, CodexType
<1>10. faults' \in Nat
  BY Types, Numbers DEF IInv, Violate, Fails
<1> HIDE DEF s
<1>11. /\ UNCHANGED codexOnly /\ ~Unrecorded
       /\ history' = [history EXCEPT !.waiting = {}]
  BY DEF Violate
<1> QED  BY <1>2, <1>4, <1>5, <1>6, <1>7, <1>8, <1>9, <1>10, <1>11, StoppedKeeps

\* Replies and runs that end keep to their types, and no others change.
LEMMA FinishedReplies ==
    ASSUME IInv, NEW of \in SUBSET Turns, NEW state \in {"complete", "interrupted", "failed"},
           Finished(of, state)
    PROVE  /\ reply' \in [Turns -> ReplyStates]
           /\ \A t \in Turns : t \in of => reply'[t] # "streaming"
           /\ \A t \in Turns : t \notin of => reply'[t] = reply[t]
  BY Types DEF IInv, Finished, ReplyStates

\* Runs that end with their turn.
LEMMA EndedRuns ==
    ASSUME IInv, NEW of \in SUBSET Turns, NEW state \in RunEndings, EndsRuns(of, state)
    PROVE  /\ run' \in [Runs -> RunType]
           /\ \A r \in Runs : run[r].state # "running" => run'[r] = run[r]
           /\ \A r \in Runs : run'[r].state = "running" =>
                  run[r].state = "running" /\ run'[r] = run[r] /\ run[r].turn \notin of
           /\ \A r \in Runs : stage[r] = "new" => run'[r] = run[r] /\ run'[r].state = "waiting"
<1>1. run \in [Runs -> RunType]
  BY Types DEF IInv
<1>2. ASSUME NEW r \in Runs
      PROVE  /\ run'[r] \in RunType
             /\ run[r].state # "running" => run'[r] = run[r]
             /\ run'[r].state = "running" =>
                    run[r].state = "running" /\ run'[r] = run[r] /\ run[r].turn \notin of
  <2>1. run[r] \in RunType /\ state # "running"
    BY <1>1 DEF RunEndings
  <2>2. run'[r] = IF run[r].state = "running" /\ run[r].turn \in of
                  THEN [run[r] EXCEPT !.state = state] ELSE run[r]
    BY DEF EndsRuns
  <2> QED  BY <2>1, <2>2 DEF RunType
<1>3. run' \in [Runs -> RunType]
  BY <1>2 DEF EndsRuns
<1>4. \A r \in Runs : stage[r] = "new" => run[r].state = "waiting"
  BY DEF IInv, RunsFit
<1> QED  BY <1>2, <1>3, <1>4

\* The gateway stops and starts.
LEMMA RestartKeeps ==
    ASSUME IInv, Restart
    PROVE  IInv'
<1>1. /\ lock' = NoOne /\ work' = NoWork /\ live' = NoLive /\ router' = AtRest /\ stream' = <<>>
      /\ codex' = [Stopped EXCEPT !.tainted = FALSE] /\ faults' \in Nat
      /\ UNCHANGED <<bot, counted, status, turns>>
  BY Types, Numbers DEF Restart, Fails, IInv
<1>2. "failed" \in RunEndings /\ Turns \in SUBSET Turns
  BY DEF RunEndings
<1>3. /\ reply' \in [Turns -> ReplyStates] /\ \A t \in Turns : reply'[t] # "streaming"
  BY <1>2, FinishedReplies DEF Restart
<1>4. /\ run' \in [Runs -> RunType]
      /\ \A r \in Runs : run'[r].state # "running"
      /\ \A r \in Runs : stage[r] = "new" => run'[r].state = "waiting"
  BY <1>2, EndedRuns DEF Restart, IInv, RunsFit
<1>5. /\ stage' \in [Tasks -> Stages]
      /\ \A t \in Turns : stage[t] = "unborn" => stage'[t] = "unborn"
      /\ \A t \in Tasks : stage'[t] = "new" => stage[t] = "new"
  <2>1. \A t \in Tasks : stage'[t] = "done" \/ stage'[t] = stage[t]
    BY DEF Restart
  <2>2. stage \in [Tasks -> Stages] /\ "done" \in Stages
    BY Types DEF IInv, Stages
  <2>3. stage' \in [Tasks -> Stages]
    BY <2>1, <2>2 DEF Restart
  <2>4. ASSUME NEW t \in Turns, stage[t] = "unborn"
        PROVE  stage'[t] = "unborn"
    BY <2>4, NamesDiffer DEF Restart
  <2> QED  BY <2>1, <2>3, <2>4
<1>6. /\ codex' \in CodexType /\ codex'.running = {} /\ \A t \in Turns : codex'.talk[t] = "silent"
  BY <1>1, Types DEF IInv, Stopped, NoServer, CodexType
<1>7. history' \in HistoryType /\ history'.others = history.others
      /\ history'.lost = IF work.reserved /\ work.turn = 0 THEN history.lost + 1 ELSE history.lost
  <2>1. history \in HistoryType
    BY Types DEF IInv
  <2> DEFINE lost == IF work.reserved /\ work.turn = 0 THEN history.lost + 1 ELSE history.lost
  <2>2. history' = [history EXCEPT !.waiting = {}, !.lost = lost]
    BY DEF Restart
  <2>3. lost \in Nat
    BY Numbers
  <2> HIDE DEF lost
  <2>4. history' \in HistoryType /\ history'.others = history.others /\ history'.lost = lost
    BY <2>1, <2>2, <2>3 DEF HistoryType
  <2> QED  BY <2>4 DEF lost
<1>8. TypeOK'
  <2>1. work' \in WorkType /\ live' \in LiveType /\ router' \in RouterType
        /\ stream' \in Seq(ReportType)
    BY <1>1 DEF WorkType, NoWork, Steps, LiveType, NoLive, RouterType, AtRest, Endings
  <2> QED  BY <1>1, <1>3, <1>4, <1>5, <1>6, <1>7, <2>1, Types, TypesNext DEF IInv
<1>9. WorkFits'
  BY <1>1 DEF WorkFits, NoWork
<1>10. CountedExactly'
  <2>1. counted = Len(turns) + history.others + history.lost
            + (IF work.reserved /\ work.turn = 0 THEN 1 ELSE 0)
    BY DEF IInv, CountedExactly
  <2>2. ~work'.reserved
    BY <1>1 DEF NoWork
  <2>3. CASE work.reserved /\ work.turn = 0
    <3>1. counted = Len(turns) + history.others + history.lost + 1
      BY <2>1, <2>3
    <3>2. history'.lost = history.lost + 1 /\ history'.others = history.others
      BY <1>7, <2>3
    <3>3. Len(turns) \in Nat /\ history.others \in Nat /\ history.lost \in Nat
      BY Numbers
    <3>4. counted = Len(turns) + history.others + (history.lost + 1) + 0
      BY <3>1, <3>3, Sums
    <3> QED  BY <1>1, <2>2, <3>2, <3>4 DEF CountedExactly
  <2>4. CASE ~(work.reserved /\ work.turn = 0)
    BY <1>1, <1>7, <2>1, <2>2, <2>4, Numbers DEF CountedExactly
  <2> QED  BY <2>3, <2>4
<1>11. ThreadsFit' /\ CarriesOver' /\ RunsFit' /\ CodexFits'
  <2>1. ThreadsFit' /\ CarriesOver'
    BY <1>1 DEF IInv, ThreadsFit, Unused, CarriesOver
  <2>2. RunsFit'
    BY <1>4, <1>5, NamesDiffer DEF RunsFit
  <2>3. CodexFits'
    BY <1>1, <1>6 DEF IInv, CodexFits
  <2> QED  BY <2>1, <2>2, <2>3
<1>12. Len(stream') = 0 /\ 1..Len(stream') = {}
  BY <1>1
<1>13. ReportsFit'
  BY <1>6, <1>12 DEF ReportsFit, Orderly
<1>14. EndsFit'
  <2>1. ASSUME NEW t \in Turns, EndIsOpen(t)'
        PROVE  EndIsOpen(t)
    BY <1>1, <1>6, <1>12, <2>1 DEF EndIsOpen, Comes
  <2>2. router'.announces # "ended" /\ \A t \in Turns : live'.ended[t] = "none"
    BY <1>1 DEF AtRest, NoLive
  <2> QED  BY <1>5, <2>1, <2>2 DEF IInv, EndsFit
<1>15. RecordFits' /\ TurnFits' /\ OwedFits' /\ RunningFits'
  BY <1>1, <1>4, <1>6 DEF RecordFits, Unrecorded, NoWork, TurnFits, OwedFits, RunningFits, NoLive
<1>16. ReplyFits'
  BY <1>1, <1>3, <1>6, <1>12 DEF ReplyFits, Foretells, Silent, Speaks, EndIsAnnounced, AtRest
<1> QED  BY <1>8, <1>9, <1>10, <1>11, <1>13, <1>14, <1>15, <1>16 DEF IInv

-----------------------------------------------------------------------------
(* The router takes a report.                                               *)

\* What the report and those left tell.
LEMMA Handled ==
    ASSUME IInv, NEW type, Handles(type)
    PROVE  /\ Event \in ReportType /\ Event.type = type /\ stream' \in Seq(ReportType)
           /\ router = AtRest /\ \A t : ~EndIsAnnounced(t)
           /\ Orderly(stream', codex.running, Len(turns))
           /\ type # "exited" => Event.turn \in Turns /\ Event.turn \in 1..Len(turns)
           /\ \A t, other : Comes(stream, other, t)
                  <=> Comes(stream', other, t) \/ (type = other /\ Event.turn = t)
           /\ \A t : EndComes(stream, t) <=> EndComes(stream', t) \/ EndsIn(Event, t)
           /\ \A t : Silent(stream, t) <=> Silent(stream', t) /\ ~TellsOf(Event, t)
           /\ \A t \in Turns : Foretells(stream', t, Speaks(t))
           /\ \A t \in Turns : Silent(stream', t) /\ TellsOf(Event, t) =>
                  (type = "replying" <=> Speaks(t))
<1>1. /\ stream \in Seq(ReportType) /\ stream # <<>> /\ stream' = Tail(stream) /\ router = AtRest
      /\ Event = Head(stream) /\ Event.type = type
  BY Types DEF IInv, Handles, Event
<1>2. Event \in ReportType /\ stream' \in Seq(ReportType)
  BY <1>1, Took
<1>3. Len(turns) \in Nat /\ Len(turns) =< MaxTurns /\ MaxTurns \in Nat
      /\ Orderly(stream, codex.running, Len(turns))
  BY TurnsAre, ConversationAssumption DEF IInv, CodexFits, ReportsFit
<1>4. Orderly(stream', codex.running, Len(turns))
  BY <1>1, <1>3, OrderlyTail
<1>5. type # "exited" => Event.turn \in Turns /\ Event.turn \in 1..Len(turns)
  <2>1. type # "exited" => Event.turn \in 1..Len(turns)
    BY <1>1, <1>3, FirstTells
  <2> QED  BY <1>3, <2>1 DEF Turns
<1>6. ASSUME NEW t, NEW other
      PROVE  /\ Comes(stream, other, t)
                    <=> Comes(stream', other, t) \/ (type = other /\ Event.turn = t)
             /\ EndComes(stream, t) <=> EndComes(stream', t) \/ EndsIn(Event, t)
             /\ Silent(stream, t) <=> Silent(stream', t) /\ ~TellsOf(Event, t)
  <2> TRUE \in BOOLEAN
    OBVIOUS
  <2> QED  BY <1>1, TookTells
<1>7. ASSUME NEW t \in Turns
      PROVE  /\ Foretells(stream', t, Speaks(t))
             /\ Silent(stream', t) /\ TellsOf(Event, t) => (type = "replying" <=> Speaks(t))
  <2>1. Speaks(t) \in BOOLEAN
    BY DEF Speaks
  <2>2. Foretells(stream, t, Speaks(t))
    BY DEF IInv, ReplyFits
  <2> QED  BY <1>1, <2>1, <2>2, TookTells
<1>8. \A t : ~EndIsAnnounced(t)
  BY <1>1 DEF EndIsAnnounced, AtRest
<1> QED  BY <1>1, <1>2, <1>4, <1>5, <1>6, <1>7, <1>8

\* What the first report says of what runs.
LEMMA HandledFirst ==
    ASSUME IInv, NEW type, Handles(type)
    PROVE  /\ type \in {"started", "took", "replying", "replied"} =>
                  Event.turn \in codex.running \/ EndComes(stream', Event.turn)
           /\ type = "ended" =>
                  Event.turn \notin codex.running /\ ~Comes(stream', "ended", Event.turn)
           /\ \A t \in codex.running :
                  (\/ type \in {"exited", "refused"}
                   \/ type = "started" /\ Event.turn < t)
                      => Comes(stream', "started", t)
<1>1. /\ stream \in Seq(ReportType) /\ stream # <<>> /\ stream' = Tail(stream)
      /\ Event = Head(stream) /\ Event.type = type
  BY Types DEF IInv, Handles, Event
<1>2. Len(turns) \in Nat /\ Orderly(stream, codex.running, Len(turns))
  BY TurnsAre DEF IInv, ReportsFit
<1> QED  BY <1>1, <1>2, FirstTells

\* What taking a report leaves as it was.
LEMMA HandledKeeps ==
    ASSUME IInv, NEW type, Handles(type),
           UNCHANGED <<taskVars, bot, run, counted, status, codex, turns, history, faults>>,
           live' \in LiveType, reply' \in [Turns -> ReplyStates], router' \in RouterType
    PROVE  /\ UNCHANGED <<lock, work, stage, bot, run, turns, codex>>
           /\ TypeOK' /\ WorkFits' /\ CountedExactly' /\ ThreadsFit' /\ CarriesOver' /\ RunsFit'
           /\ CodexFits' /\ ReportsFit'
           /\ live'.owed \in {live.owed, {}} => OwedFits'
<1>1. UNCHANGED <<lock, work, stage, bot, run, counted, status, codex, turns, history, faults>>
  BY DEF taskVars
<1>2. stream' \in Seq(ReportType) /\ Orderly(stream', codex.running, Len(turns)) /\ router = AtRest
  BY Handled
<1>3. TypeOK'
  BY <1>1, <1>2, Types, TypesNext DEF IInv
<1>4. WorkFits' /\ CountedExactly' /\ ThreadsFit' /\ CarriesOver' /\ RunsFit' /\ CodexFits'
  BY <1>1 DEF IInv, WorkFits, CountedExactly, ThreadsFit, Unused, CarriesOver, RunsFit, CodexFits
<1>5. ReportsFit'
  BY <1>1, <1>2 DEF ReportsFit
<1>6. live'.owed \in {live.owed, {}} => OwedFits'
  BY <1>1, <1>2 DEF IInv, OwedFits, AtRest
<1> QED  BY <1>1, <1>3, <1>4, <1>5, <1>6

\* A report that ends nothing and says nothing of a reply.
LEMMA QuietReportKeeps ==
    ASSUME IInv, NEW type \in {"started", "took"}, Handles(type),
           UNCHANGED <<taskVars, rowVars, status, codex, turns, history, faults>>,
           live' \in LiveType, router' \in RouterType,
           router'.announces \in {"nothing", "status"},
           live'.ended = live.ended, live'.owed = live.owed,
           \/ live'.turn = live.turn /\ type = "took"
           \/ /\ live'.turn = live.turn /\ type = "started"
              /\ turns[Event.turn].thread # bot.thread
           \/ /\ live'.turn = Event.turn /\ type = "started"
              /\ turns[Event.turn].thread = bot.thread
    PROVE  IInv'
<1>1. /\ UNCHANGED <<lock, work, stage, bot, run, turns, codex, reply>>
      /\ UNCHANGED <<taskVars, bot, run, counted, status, codex, turns, history, faults>>
      /\ reply' \in [Turns -> ReplyStates]
  BY Types DEF IInv, taskVars, rowVars
<1>2. /\ TypeOK' /\ WorkFits' /\ CountedExactly' /\ ThreadsFit' /\ CarriesOver' /\ RunsFit'
      /\ CodexFits' /\ ReportsFit' /\ OwedFits'
  BY <1>1, HandledKeeps
<1>3. /\ Event.type = type /\ Event.turn \in 1..Len(turns)
      /\ \A t : ~EndIsAnnounced(t)
      /\ \A t, other : Comes(stream, other, t)
             <=> Comes(stream', other, t) \/ (type = other /\ Event.turn = t)
      /\ \A t : EndComes(stream, t) <=> EndComes(stream', t) \/ EndsIn(Event, t)
      /\ \A t : Silent(stream, t) <=> Silent(stream', t) /\ ~TellsOf(Event, t)
      /\ \A t \in Turns : Foretells(stream', t, Speaks(t))
  BY Handled
<1>4. \A t : ~TellsOf(Event, t) /\ ~EndsIn(Event, t)
  BY <1>3 DEF TellsOf, EndsIn
<1>5. \A t : Comes(stream, "ended", t) <=> Comes(stream', "ended", t)
  BY <1>3
<1>6. \A t : EndComes(stream, t) <=> EndComes(stream', t)
  BY <1>3, <1>4
<1>7. EndsFit'
  BY <1>1, <1>5 DEF IInv, EndsFit, EndIsOpen
<1>8. RecordFits' /\ RunningFits'
  BY <1>1, <1>3, <1>5, <1>6 DEF IInv, RecordFits, Unrecorded, RunningFits
<1>9. TurnFits'
  <2>1. live'.turn # 0 => live'.turn \in codex.running \/ EndComes(stream', live'.turn)
    <3>1. type = "started" => Event.turn \in codex.running \/ EndComes(stream', Event.turn)
      BY HandledFirst
    <3> QED  BY <1>6, <3>1 DEF IInv, TurnFits
  <2>2. ASSUME NEW u \in codex.running, turns[u].thread = bot.thread
        PROVE  live'.turn = u \/ Comes(stream', "started", u)
    <3>1. live.turn = u \/ Comes(stream, "started", u)
      BY <2>2 DEF IInv, TurnFits
    <3>2. CASE live'.turn = live.turn
      <4>1. live'.turn = u \/ ~(type = "started" /\ Event.turn = u)
        BY <2>2, <3>2
      <4> QED  BY <1>3, <3>1, <3>2, <4>1
    <3>3. CASE /\ live'.turn = Event.turn /\ type = "started"
               /\ turns[Event.turn].thread = bot.thread /\ u # Event.turn
      <4>1. u \in 1..Len(turns) /\ Len(turns) \in Nat
        BY TurnsAre DEF IInv, CodexFits
      <4>2. ~(Event.turn > u)
        BY <1>3, <2>2, <3>3 DEF IInv, CodexFits
      <4>3. Event.turn < u
        BY <1>3, <3>3, <4>1, <4>2
      <4> QED  BY <3>3, <4>3, HandledFirst
    <3> QED  BY <3>2, <3>3
  <2> QED  BY <1>1, <2>1, <2>2 DEF TurnFits
<1>10. ReplyFits'
  <2> SUFFICES ASSUME NEW u \in Turns
               PROVE  /\ Foretells(stream', u, Speaks(u)')
                      /\ Silent(stream', u) =>
                             IF EndIsAnnounced(u)' THEN ~Speaks(u)' ELSE reply'[u] = "streaming" <=> Speaks(u)'
    BY DEF ReplyFits
  <2>1. ~EndIsAnnounced(u)' /\ (Speaks(u)' <=> Speaks(u))
    BY <1>1 DEF EndIsAnnounced, Speaks
  <2>2. Silent(stream', u) => (reply[u] = "streaming" <=> Speaks(u))
    BY <1>3, <1>4 DEF IInv, ReplyFits
  <2> QED  BY <1>1, <1>3, <2>1, <2>2 DEF Foretells
<1> QED  BY <1>2, <1>7, <1>8, <1>9, <1>10 DEF IInv

\* A turn started.
LEMMA TurnStartedKeeps ==
    ASSUME IInv, TurnStarted
    PROVE  IInv'
<1>1. /\ Handles("started") /\ router = AtRest
      /\ UNCHANGED <<taskVars, rowVars, status, codex, turns, history, faults>>
  BY DEF TurnStarted, Handles
<1>2. live \in LiveType /\ AtRest \in RouterType
  BY Types DEF IInv, RouterType, AtRest, Endings
<1>3. Event.turn \in Turns /\ "started" \in {"started", "took"}
  BY <1>1, Handled
<1>4. CASE turns[Event.turn].thread = bot.thread
  <2>1. /\ live' = [live EXCEPT !.turn = Event.turn]
        /\ router' \in {AtRest, [AtRest EXCEPT !.announces = "status"]}
    BY <1>1, <1>4 DEF TurnStarted
  <2>2. /\ live' \in LiveType /\ live'.turn = Event.turn /\ live'.ended = live.ended
        /\ live'.owed = live.owed
    BY <1>2, <1>3, <2>1 DEF LiveType
  <2>3. router' \in RouterType /\ router'.announces \in {"nothing", "status"}
    BY <1>2, <2>1 DEF RouterType, AtRest
  <2> QED  BY <1>1, <1>3, <1>4, <2>2, <2>3, QuietReportKeeps
<1>5. CASE turns[Event.turn].thread # bot.thread
  <2>1. live' = live /\ router' = AtRest
    BY <1>1, <1>5 DEF TurnStarted
  <2>2. router' \in RouterType /\ router'.announces \in {"nothing", "status"}
    BY <1>2, <2>1 DEF AtRest
  <2> QED  BY <1>1, <1>2, <1>3, <1>5, <2>1, <2>2, QuietReportKeeps
<1> QED  BY <1>4, <1>5

\* A steered message became part of its turn.
LEMMA ItemTakenKeeps ==
    ASSUME IInv, ItemTaken
    PROVE  IInv'
<1>1. /\ Handles("took") /\ router = AtRest /\ router' = AtRest
      /\ UNCHANGED <<taskVars, rowVars, status, codex, turns, history, faults>>
      /\ live' = [live EXCEPT !.steered[Event.turn] = @ \cup {Event.message}]
  BY DEF ItemTaken, Handles
<1>2. /\ live \in LiveType /\ AtRest \in RouterType
      /\ AtRest.announces \in {"nothing", "status"}
  BY Types DEF IInv, RouterType, AtRest, Endings
<1>3. Event.turn \in Turns /\ "took" \in {"started", "took"}
  BY <1>1, Handled
<1>4. Event.message \in Messages
  <2>1. Event \in ReportType /\ Event.type = "took"
    BY <1>1, Handled
  <2> QED  BY <2>1 DEF ReportType
<1>5. /\ live' \in LiveType /\ live'.turn = live.turn /\ live'.ended = live.ended
      /\ live'.owed = live.owed
  BY <1>1, <1>2, <1>3, <1>4 DEF LiveType
<1> QED  BY <1>1, <1>2, <1>3, <1>5, QuietReportKeeps

\* What is reported of a reply.
LEMMA ReplyReportKeeps ==
    ASSUME IInv, NEW type \in {"replying", "replied"}, Handles(type),
           UNCHANGED <<taskVars, bot, run, counted, status, router, codex, turns, history, faults>>,
           live' \in LiveType, reply' \in [Turns -> ReplyStates],
           live'.ended = live.ended, live'.owed = live.owed,
           live'.turn = live.turn \/ (live.turn = 0 /\ live'.turn = Event.turn),
           \A t \in Turns : t # Event.turn => reply'[t] = reply[t],
           reply'[Event.turn] = "streaming" <=> type = "replying"
    PROVE  IInv'
<1>1. /\ UNCHANGED <<lock, work, stage, bot, run, turns, codex, router>>
      /\ router \in RouterType
  BY Types DEF IInv, taskVars
<1>2. /\ TypeOK' /\ WorkFits' /\ CountedExactly' /\ ThreadsFit' /\ CarriesOver' /\ RunsFit'
      /\ CodexFits' /\ ReportsFit' /\ OwedFits'
  BY <1>1, HandledKeeps
<1>3. /\ Event.type = type /\ Event.turn \in Turns
      /\ \A t : ~EndIsAnnounced(t)
      /\ \A t, other : Comes(stream, other, t)
             <=> Comes(stream', other, t) \/ (type = other /\ Event.turn = t)
      /\ \A t : EndComes(stream, t) <=> EndComes(stream', t) \/ EndsIn(Event, t)
      /\ \A t : Silent(stream, t) <=> Silent(stream', t) /\ ~TellsOf(Event, t)
      /\ \A t \in Turns : Foretells(stream', t, Speaks(t))
      /\ \A t \in Turns : Silent(stream', t) /\ TellsOf(Event, t) =>
             (type = "replying" <=> Speaks(t))
  BY Handled
<1>4. \A t : ~EndsIn(Event, t) /\ (TellsOf(Event, t) <=> t = Event.turn)
  BY <1>3 DEF TellsOf, EndsIn
<1>5. /\ \A t : Comes(stream, "ended", t) <=> Comes(stream', "ended", t)
      /\ \A t : Comes(stream, "started", t) <=> Comes(stream', "started", t)
  BY <1>3
<1>6. \A t : EndComes(stream, t) <=> EndComes(stream', t)
  BY <1>3, <1>4
<1>7. EndsFit'
  BY <1>1, <1>5 DEF IInv, EndsFit, EndIsOpen
<1>8. RecordFits' /\ RunningFits'
  BY <1>1, <1>3, <1>5, <1>6 DEF IInv, RecordFits, Unrecorded, RunningFits
<1>9. TurnFits'
  <2>1. Event.turn \in codex.running \/ EndComes(stream', Event.turn)
    BY HandledFirst
  <2>2. \A u \in codex.running : u # 0
    BY NamesDiffer, Types DEF IInv, CodexType
  <2> QED  BY <1>1, <1>5, <1>6, <2>1, <2>2 DEF IInv, TurnFits
<1>10. ReplyFits'
  <2> SUFFICES ASSUME NEW u \in Turns
               PROVE  /\ Foretells(stream', u, Speaks(u)')
                      /\ Silent(stream', u) =>
                             IF EndIsAnnounced(u)' THEN ~Speaks(u)' ELSE reply'[u] = "streaming" <=> Speaks(u)'
    BY DEF ReplyFits
  <2>1. ~EndIsAnnounced(u)' /\ (Speaks(u)' <=> Speaks(u))
    BY <1>1, <1>3 DEF EndIsAnnounced, Speaks
  <2>2. Silent(stream', u) => (reply'[u] = "streaming" <=> Speaks(u))
    <3>1. CASE u = Event.turn
      BY <1>3, <1>4, <3>1
    <3>2. CASE u # Event.turn
      BY <1>3, <1>4, <3>2 DEF IInv, ReplyFits
    <3> QED  BY <3>1, <3>2
  <2> QED  BY <1>3, <2>1, <2>2 DEF Foretells
<1> QED  BY <1>2, <1>7, <1>8, <1>9, <1>10 DEF IInv

\* A reply began.
LEMMA ReplyStartedKeeps ==
    ASSUME IInv, ReplyStarted
    PROVE  IInv'
<1>1. /\ Handles("replying") /\ "replying" \in {"replying", "replied"}
      /\ UNCHANGED <<taskVars, bot, run, counted, status, router, codex, turns, history, faults>>
      /\ reply' = [reply EXCEPT ![Event.turn] = "streaming"]
  BY DEF ReplyStarted
<1>2. live \in LiveType /\ reply \in [Turns -> ReplyStates]
  BY Types DEF IInv
<1>3. Event.turn \in Turns
  BY <1>1, Handled
<1>4. PICK turn \in {live.turn, Event.turn} :
          /\ turn = live.turn \/ live.turn = 0
          /\ live' = [live EXCEPT !.steered[Event.turn] = {}, !.turn = turn]
  BY DEF ReplyStarted
<1>5. /\ live' \in LiveType /\ live'.turn = turn /\ live'.ended = live.ended
      /\ live'.owed = live.owed
  BY <1>2, <1>3, <1>4 DEF LiveType
<1>6. /\ reply' \in [Turns -> ReplyStates] /\ reply'[Event.turn] = "streaming"
      /\ \A t \in Turns : t # Event.turn => reply'[t] = reply[t]
  BY <1>1, <1>2, <1>3 DEF ReplyStates
<1> QED  BY <1>1, <1>4, <1>5, <1>6, ReplyReportKeeps

\* A reply is complete.
LEMMA ReplyCompletedKeeps ==
    ASSUME IInv, ReplyCompleted
    PROVE  IInv'
<1>1. /\ Handles("replied") /\ "replied" \in {"replying", "replied"} /\ live' = live
      /\ UNCHANGED <<taskVars, bot, run, counted, status, router, codex, turns, history, faults>>
      /\ reply' = [reply EXCEPT ![Event.turn] = IF @ = "streaming" THEN "complete" ELSE @]
  BY DEF ReplyCompleted
<1>2. live \in LiveType /\ reply \in [Turns -> ReplyStates]
  BY Types DEF IInv
<1>3. Event.turn \in Turns
  BY <1>1, Handled
<1>4. /\ reply' \in [Turns -> ReplyStates] /\ reply'[Event.turn] # "streaming"
      /\ \A t \in Turns : t # Event.turn => reply'[t] = reply[t]
  BY <1>1, <1>2, <1>3 DEF ReplyStates
<1> QED  BY <1>1, <1>2, <1>4, ReplyReportKeeps

\* A turn ended, which is still to be announced.
LEMMA TurnCompletedKeeps ==
    ASSUME IInv, TurnCompleted
    PROVE  IInv'
<1> DEFINE t == Event.turn
           owing == Event.ending = "completed" /\ live.steered[t] # {}
<1>1. /\ Handles("ended")
      /\ UNCHANGED <<taskVars, rowVars, status, codex, turns, history, faults>>
      /\ live' = [live EXCEPT !.ended[t] = Event.ending, !.steered[t] = {},
                !.owed = IF owing THEN @ \cup live.steered[t] ELSE @,
                !.turn = IF @ = t THEN 0 ELSE @]
      /\ router' = [announces |-> "ended", turn |-> t, ending |-> Event.ending,
                    idle |-> live.turn = t, owing |-> owing]
  BY DEF TurnCompleted
<1>2. /\ Event \in ReportType /\ Event.type = "ended" /\ t \in Turns /\ t \in 1..Len(turns)
      /\ \A u : ~EndIsAnnounced(u)
      /\ \A u, other : Comes(stream, other, u)
             <=> Comes(stream', other, u) \/ ("ended" = other /\ t = u)
      /\ \A u : EndComes(stream, u) <=> EndComes(stream', u) \/ EndsIn(Event, u)
      /\ \A u : Silent(stream, u) <=> Silent(stream', u) /\ ~TellsOf(Event, u)
      /\ \A u \in Turns : Foretells(stream', u, Speaks(u))
  BY <1>1, Handled
<1>3. t \notin codex.running /\ ~Comes(stream', "ended", t)
  BY <1>1, HandledFirst
<1>4. /\ UNCHANGED <<lock, work, stage, bot, run, turns, codex, reply>>
      /\ UNCHANGED <<taskVars, bot, run, counted, status, codex, turns, history, faults>>
      /\ reply' \in [Turns -> ReplyStates] /\ live \in LiveType
  BY <1>1, Types DEF IInv, taskVars, rowVars
<1>5. Event.ending \in Endings /\ Event.ending # "none"
  BY <1>2 DEF ReportType, Endings
<1> DEFINE owed == IF owing THEN live.owed \cup live.steered[t] ELSE live.owed
           turn == IF live.turn = t THEN 0 ELSE live.turn
<1>6. /\ owed \in SUBSET Messages /\ turn \in Turns \cup {0} /\ owing \in BOOLEAN
      /\ owed = live.owed \/ owing
  BY <1>2, <1>4 DEF LiveType
<1>7. live' = [live EXCEPT !.ended[t] = Event.ending, !.steered[t] = {}, !.owed = owed,
                           !.turn = turn]
  BY <1>1
<1>8. turn # t /\ (turn # 0 => turn = live.turn) /\ (live.turn # t => turn = live.turn)
  BY <1>2, NamesDiffer
<1>9. router' \in RouterType /\ router'.announces = "ended" /\ router'.turn = t
      /\ (router'.owing <=> owing)
  <2>1. (live.turn = t) \in BOOLEAN
    OBVIOUS
  <2> HIDE DEF t, owing
  <2> QED  BY <1>1, <1>2, <1>5, <1>6, <2>1 DEF RouterType
<1> HIDE DEF t, owing, owed, turn
<1>10. /\ live' \in LiveType /\ live'.turn = turn /\ live'.owed = owed
       /\ live'.ended[t] = Event.ending
       /\ \A u \in Turns : u # t => live'.ended[u] = live.ended[u]
  <2> DEFINE ended == [live.ended EXCEPT ![t] = Event.ending]
             steered == [live.steered EXCEPT ![t] = {}]
  <2>1. ended \in [Turns -> Endings \cup {"none"}] /\ steered \in [Turns -> SUBSET Messages]
    BY <1>2, <1>4, <1>5 DEF LiveType
  <2>2. ended[t] = Event.ending /\ \A u \in Turns : u # t => ended[u] = live.ended[u]
    BY <1>2, <1>4 DEF LiveType
  <2>3. live' = [turn |-> turn, ended |-> ended, steered |-> steered, owed |-> owed]
    BY <1>4, <1>7 DEF LiveType
  <2> HIDE DEF ended, steered
  <2>4. live'.turn = turn /\ live'.ended = ended /\ live'.owed = owed
    BY <2>3
  <2>5. live' \in LiveType
    BY <1>6, <2>1, <2>3 DEF LiveType
  <2> QED  BY <2>2, <2>4, <2>5
<1>11. /\ TypeOK' /\ WorkFits' /\ CountedExactly' /\ ThreadsFit' /\ CarriesOver' /\ RunsFit'
       /\ CodexFits' /\ ReportsFit'
       /\ live'.owed \in {live.owed, {}} => OwedFits'
  BY <1>1, <1>4, <1>9, <1>10, HandledKeeps
<1>12. OwedFits'
  BY <1>6, <1>9, <1>10, <1>11 DEF OwedFits
<1>13. EndsFit'
  <2>1. EndIsOpen(t)
    BY <1>2 DEF EndIsOpen
  <2>2. stage[t] = "unborn"
    BY <1>2, <2>1 DEF IInv, EndsFit
  <2>3. \A u \in Turns : EndIsOpen(u)' => EndIsOpen(u) /\ u # t
    <3>1. ~(t > Len(turns))
      BY <1>2, Numbers
    <3> QED  BY <1>2, <1>3, <1>4, <3>1 DEF EndIsOpen
  <2> QED  BY <1>2, <1>4, <1>9, <1>10, <2>2, <2>3 DEF IInv, EndsFit
<1>14. RecordFits'
  <2>1. Unrecorded' => Unrecorded /\ work' = work
    BY <1>4 DEF Unrecorded
  <2>2. work.turn \in Turns => (work.turn # t => live'.ended[work.turn] = live.ended[work.turn])
    BY <1>10
  <2>3. Unrecorded => work.turn \in Turns
    BY DEF IInv, WorkFits, Unrecorded
  <2> QED  BY <1>2, <1>4, <1>5, <1>10, <2>1, <2>2, <2>3 DEF IInv, RecordFits
<1>15. \A u : u # t => (EndComes(stream, u) <=> EndComes(stream', u))
  BY <1>2 DEF EndsIn, t
<1>16. TurnFits'
  BY <1>2, <1>3, <1>4, <1>8, <1>10, <1>15 DEF IInv, TurnFits
<1>17. RunningFits'
  BY <1>2, <1>4, <1>9, <1>15 DEF IInv, RunningFits, EndIsAnnounced
<1>18. ReplyFits'
  <2> SUFFICES ASSUME NEW u \in Turns
               PROVE  /\ Foretells(stream', u, Speaks(u)')
                      /\ Silent(stream', u) =>
                             IF EndIsAnnounced(u)' THEN ~Speaks(u)' ELSE reply'[u] = "streaming" <=> Speaks(u)'
    BY DEF ReplyFits
  <2>1. (EndIsAnnounced(u)' <=> u = t) /\ (Speaks(u)' <=> Speaks(u))
    BY <1>4, <1>9 DEF EndIsAnnounced, Speaks
  <2>2. CASE u = t
    BY <1>2, <1>3, <2>1, <2>2 DEF Speaks, Foretells
  <2>3. CASE u # t
    <3>1. ~TellsOf(Event, u)
      BY <1>2, <2>3 DEF TellsOf, EndsIn, t
    <3> QED  BY <1>2, <1>4, <2>1, <2>3, <3>1 DEF IInv, ReplyFits, Foretells
  <2> QED  BY <2>2, <2>3
<1> QED  BY <1>11, <1>12, <1>13, <1>14, <1>16, <1>17, <1>18 DEF IInv

\* A report that ends whatever ran, which is still to be announced.
LEMMA LastReportKeeps ==
    ASSUME IInv, NEW type \in {"refused", "exited"}, Handles(type),
           UNCHANGED <<taskVars, rowVars, status, codex, turns, history, faults>>,
           live' \in LiveType, router' \in RouterType, router'.announces = type,
           live'.ended = live.ended, live'.turn = 0, live'.owed \in {live.owed, {}}
    PROVE  IInv'
<1>1. /\ UNCHANGED <<lock, work, stage, bot, run, turns, codex, reply>>
      /\ UNCHANGED <<taskVars, bot, run, counted, status, codex, turns, history, faults>>
      /\ reply' \in [Turns -> ReplyStates]
  BY Types DEF IInv, taskVars, rowVars
<1>2. /\ TypeOK' /\ WorkFits' /\ CountedExactly' /\ ThreadsFit' /\ CarriesOver' /\ RunsFit'
      /\ CodexFits' /\ ReportsFit' /\ OwedFits'
  BY <1>1, HandledKeeps
<1>3. /\ Event.type = type
      /\ \A t, other : Comes(stream, other, t)
             <=> Comes(stream', other, t) \/ (type = other /\ Event.turn = t)
      /\ \A t \in Turns : Foretells(stream', t, Speaks(t))
      /\ \A t \in Turns : Silent(stream', t) /\ TellsOf(Event, t) =>
             (type = "replying" <=> Speaks(t))
  BY Handled
<1>4. \A t : TellsOf(Event, t)
  BY <1>3 DEF TellsOf, EndsIn
<1>5. \A t : Comes(stream, "ended", t) <=> Comes(stream', "ended", t)
  BY <1>3
<1>6. EndsFit'
  BY <1>1, <1>5 DEF IInv, EndsFit, EndIsOpen
<1>7. RecordFits'
  BY <1>1, <1>5 DEF IInv, RecordFits, Unrecorded
<1>8. TurnFits'
  <2>1. \A t \in codex.running : Comes(stream', "started", t)
    BY HandledFirst
  <2> QED  BY <1>1, <2>1 DEF TurnFits
<1>9. \A t : EndIsAnnounced(t)'
  BY DEF EndIsAnnounced
<1>10. RunningFits'
  BY <1>9 DEF RunningFits
<1>11. ReplyFits'
  BY <1>1, <1>3, <1>4, <1>9 DEF ReplyFits, Speaks, Foretells
<1> QED  BY <1>2, <1>6, <1>7, <1>8, <1>10, <1>11 DEF IInv

\* The thread broke a safety rule.
LEMMA RefusedKeeps ==
    ASSUME IInv, Refused
    PROVE  IInv'
<1> DEFINE steered == [t \in Turns |-> IF t = live.turn THEN {} ELSE live.steered[t]]
<1>1. /\ Handles("refused") /\ "refused" \in {"refused", "exited"}
      /\ UNCHANGED <<taskVars, rowVars, status, codex, turns, history, faults>>
      /\ live' = [live EXCEPT !.owed = {}, !.turn = 0, !.steered = steered]
      /\ router' = [AtRest EXCEPT !.announces = "refused"]
  BY DEF Refused
<1>2. live \in LiveType
  BY Types DEF IInv
<1>3. steered \in [Turns -> SUBSET Messages]
  BY <1>2 DEF LiveType
<1> HIDE DEF steered
<1>4. live' \in LiveType /\ live'.ended = live.ended /\ live'.turn = 0 /\ live'.owed = {}
  BY <1>1, <1>2, <1>3 DEF LiveType
<1>5. router' \in RouterType /\ router'.announces = "refused"
  BY <1>1 DEF RouterType, AtRest, Endings
<1> QED  BY <1>1, <1>4, <1>5, LastReportKeeps

\* The app server stopped.
LEMMA ExitedKeeps ==
    ASSUME IInv, Exited
    PROVE  IInv'
<1>1. /\ Handles("exited") /\ "exited" \in {"refused", "exited"}
      /\ UNCHANGED <<taskVars, rowVars, status, codex, turns, history, faults>>
      /\ live' = [live EXCEPT !.turn = 0, !.steered = [t \in Turns |-> {}]]
      /\ router' = [AtRest EXCEPT !.announces = "exited", !.idle = live.turn # 0]
  BY DEF Exited
<1>2. live \in LiveType
  BY Types DEF IInv
<1>3. /\ live' \in LiveType /\ live'.ended = live.ended /\ live'.turn = 0
      /\ live'.owed = live.owed
  BY <1>1, <1>2 DEF LiveType
<1>4. router' \in RouterType /\ router'.announces = "exited"
  <2>1. (live.turn # 0) \in BOOLEAN
    OBVIOUS
  <2> QED  BY <1>1, <2>1 DEF RouterType, AtRest, Endings
<1> QED  BY <1>1, <1>3, <1>4, LastReportKeeps

-----------------------------------------------------------------------------
(* The router announces what it changed.                                    *)

\* What was announced is done, and the rows fit what Codex does.
LEMMA AnnouncedKeeps ==
    ASSUME IInv, UNCHANGED <<lock, work, counted, live, codexVars, history, faults>>,
           router' = AtRest,
           bot' \in BotType, bot'.thread = bot.thread, bot'.carryover = bot.carryover,
           bot'.made = bot.made, bot'.grants = bot.grants,
           status' \in {"idle", "working", "refused"},
           stage' \in [Tasks -> Stages],
           \A t \in Tasks : stage'[t] # stage[t] =>
               router.announces = "ended" /\ t = router.turn /\ stage'[t] = "new",
           reply' \in [Turns -> ReplyStates],
           \A t \in Turns : IF EndIsAnnounced(t) THEN reply'[t] # "streaming" ELSE reply'[t] = reply[t],
           run' \in [Runs -> RunType],
           \A r \in Runs : run'[r].state = "running" =>
               run[r].state = "running" /\ run'[r] = run[r] /\ ~EndIsAnnounced(run[r].turn),
           \A r \in Runs : stage[r] = "new" => run'[r] = run[r] /\ run'[r].state = "waiting",
           router.announces = "ended" /\ router.owing => stage'[router.turn] = "new"
    PROVE  IInv'
<1>1. /\ UNCHANGED <<lock, work, counted, live, codex, stream, turns, history, faults>>
      /\ AtRest \in RouterType /\ router' = AtRest
  BY DEF codexVars, RouterType, AtRest, Endings
<1>2. TypeOK'
  BY <1>1, Types, TypesNext DEF IInv
<1>3. router.announces = "ended" => router.turn \in Turns /\ stage[router.turn] = "unborn"
  BY DEF IInv, EndsFit
<1>4. \A t \in Tasks : t \notin Turns \/ stage[t] # "unborn" => stage'[t] = stage[t]
  BY <1>3
<1>5. lock # NoOne => stage[lock] = "new" /\ lock \in Tasks
  BY DEF IInv, WorkFits, TypeOK
<1>6. WorkFits'
  BY <1>1, <1>4, <1>5 DEF IInv, WorkFits
<1>7. CountedExactly' /\ ThreadsFit' /\ CarriesOver' /\ CodexFits' /\ ReportsFit' /\ RecordFits'
  BY <1>1 DEF IInv, CountedExactly, ThreadsFit, Unused, CarriesOver, CodexFits, ReportsFit,
              RecordFits, Unrecorded
<1>8. RunsFit'
  BY <1>4, NamesDiffer DEF IInv, RunsFit
<1>9. EndsFit'
  <2>1. \A t \in Turns : EndIsOpen(t)' <=> EndIsOpen(t)
    BY <1>1 DEF EndIsOpen
  <2>2. \A t \in Turns : EndIsOpen(t) => stage'[t] = stage[t]
    BY NamesDiffer DEF IInv, EndsFit
  <2> QED  BY <1>1, <2>1, <2>2 DEF IInv, EndsFit, AtRest
<1>10. TurnFits'
  BY <1>1 DEF IInv, TurnFits
<1>11. OwedFits'
  <2> SUFFICES ASSUME live.owed # {}
               PROVE  \E f \in Turns : f # lock /\ stage'[f] = "new"
    BY <1>1 DEF OwedFits
  <2>1. CASE router.announces = "ended" /\ router.owing
    <3>1. router.turn \in Turns /\ router.turn # lock /\ stage'[router.turn] = "new"
      BY <1>3, <1>5, <2>1, NamesDiffer
    <3> QED  BY <3>1
  <2>2. CASE ~(router.announces = "ended" /\ router.owing)
    <3>1. PICK f \in Turns : f # lock /\ stage[f] = "new"
      BY <2>2 DEF IInv, OwedFits
    <3>2. stage'[f] = "new"
      BY <1>4, <3>1, NamesDiffer
    <3> QED  BY <3>1, <3>2
  <2> QED  BY <2>1, <2>2
<1>12. RunningFits'
  BY <1>1 DEF IInv, RunningFits
<1>13. ReplyFits'
  <2> SUFFICES ASSUME NEW u \in Turns
               PROVE  /\ Foretells(stream', u, Speaks(u)')
                      /\ Silent(stream', u) =>
                             IF EndIsAnnounced(u)' THEN ~Speaks(u)' ELSE reply'[u] = "streaming" <=> Speaks(u)'
    BY DEF ReplyFits
  <2>1. ~EndIsAnnounced(u)' /\ (Speaks(u)' <=> Speaks(u)) /\ stream' = stream
    BY <1>1 DEF EndIsAnnounced, Speaks, AtRest
  <2>2. CASE EndIsAnnounced(u)
    BY <2>1, <2>2 DEF IInv, ReplyFits, Foretells
  <2>3. CASE ~EndIsAnnounced(u)
    BY <2>1, <2>3 DEF IInv, ReplyFits, Foretells
  <2> QED  BY <2>2, <2>3
<1> QED  BY <1>2, <1>6, <1>7, <1>8, <1>9, <1>10, <1>11, <1>12, <1>13 DEF IInv

\* What an announcement leaves to say of the rows that do not change.
LEMMA SameRows ==
    ASSUME IInv
    PROVE  /\ bot \in BotType /\ status \in {"idle", "working", "refused"}
           /\ Current \in {"idle", "working", "refused"}
           /\ stage \in [Tasks -> Stages] /\ reply \in [Turns -> ReplyStates]
           /\ run \in [Runs -> RunType] /\ router \in RouterType
           /\ \A r \in Runs : stage[r] = "new" => run[r].state = "waiting"
           /\ \A r \in Runs : run[r].state = "running" => run[r].turn \in Turns
  BY Types DEF IInv, RunsFit, Current

\* The Bot works again, or no turn of it runs.
LEMMA AnnounceStartedKeeps ==
    ASSUME IInv, AnnounceStarted
    PROVE  IInv'
<1>1. /\ UNCHANGED <<lock, work, counted, live, codexVars, history, faults, bot, stage, reply, run>>
      /\ router.announces = "status" /\ router' = AtRest /\ status' = Current
  BY DEF AnnounceStarted, Announces, taskVars, rowVars
<1>2. \A t : ~EndIsAnnounced(t)
  BY <1>1 DEF EndIsAnnounced
<1> QED  BY <1>1, <1>2, SameRows, AnnouncedKeeps

\* A turn ended.
LEMMA AnnounceEndedKeeps ==
    ASSUME IInv, AnnounceEnded
    PROVE  IInv'
<1> DEFINE t == router.turn
<1>1. /\ UNCHANGED <<lock, work, counted, live, codexVars, history, faults, bot>>
      /\ router.announces = "ended" /\ router' = AtRest
      /\ Finished({t}, MessageState(router.ending))
      /\ status' = IF router.idle THEN Current ELSE status
      /\ EndsRuns({t}, RunEnding(router.ending))
      /\ stage' = [stage EXCEPT ![t] = IF router.owing THEN "new" ELSE @]
  BY DEF AnnounceEnded, Announces
<1>2. /\ t \in Turns /\ t \in Tasks /\ {t} \in SUBSET Turns /\ router.ending \in Endings
      /\ router.owing \in BOOLEAN
  BY <1>1, SameRows, NamesDiffer DEF IInv, EndsFit, RouterType
<1> HIDE DEF t
<1>3. /\ MessageState(router.ending) \in {"complete", "interrupted", "failed"}
      /\ RunEnding(router.ending) \in RunEndings
  BY <1>2 DEF MessageState, RunEnding, RunEndings, Endings
<1>4. \A u : EndIsAnnounced(u) <=> u \in {t}
  BY <1>1 DEF EndIsAnnounced, t
<1>5. /\ stage' \in [Tasks -> Stages]
      /\ \A u \in Tasks : stage'[u] # stage[u] => u = t /\ stage'[u] = "new"
      /\ router.owing => stage'[t] = "new"
  BY <1>1, <1>2, SameRows DEF Stages
<1>6. status' \in {"idle", "working", "refused"}
  BY <1>1, SameRows
<1>7. /\ reply' \in [Turns -> ReplyStates]
      /\ \A u \in Turns : u \in {t} => reply'[u] # "streaming"
      /\ \A u \in Turns : u \notin {t} => reply'[u] = reply[u]
  BY <1>1, <1>2, <1>3, FinishedReplies
<1>8. /\ run' \in [Runs -> RunType]
      /\ \A r \in Runs : run'[r].state = "running" =>
             run[r].state = "running" /\ run'[r] = run[r] /\ run[r].turn \notin {t}
      /\ \A r \in Runs : stage[r] = "new" => run'[r] = run[r] /\ run'[r].state = "waiting"
  BY <1>1, <1>2, <1>3, EndedRuns
<1>9. UNCHANGED bot /\ bot \in BotType
  BY <1>1, SameRows
<1>10. /\ \A u \in Tasks : stage'[u] # stage[u] => u = router.turn
       /\ router.owing => stage'[router.turn] = "new"
  BY <1>5 DEF t
<1> QED  BY <1>1, <1>4, <1>5, <1>6, <1>7, <1>8, <1>9, <1>10, AnnouncedKeeps

\* Everything ended.
LEMMA AnnounceAllKeeps ==
    ASSUME IInv, AnnounceRefused \/ AnnounceExited
    PROVE  IInv'
<1>1. /\ UNCHANGED <<lock, work, counted, live, codexVars, history, faults, stage>>
      /\ router.announces \in {"refused", "exited"} /\ router' = AtRest
      /\ Finished(Turns, "failed")
      /\ bot' \in {bot, [bot EXCEPT !.refused = TRUE]}
      /\ status' \in {"refused", Current, status}
      /\ EndsRuns(Turns, "failed")
  BY DEF AnnounceRefused, AnnounceExited, Announces, taskVars
<1>2. Turns \in SUBSET Turns /\ "failed" \in RunEndings
  BY DEF RunEndings
<1>3. \A t : EndIsAnnounced(t)
  BY <1>1 DEF EndIsAnnounced
<1>4. /\ bot' \in BotType /\ bot'.thread = bot.thread /\ bot'.carryover = bot.carryover
      /\ bot'.made = bot.made /\ bot'.grants = bot.grants
      /\ status' \in {"idle", "working", "refused"}
  <2>1. bot \in BotType
    BY SameRows
  <2> QED  BY <1>1, <2>1, SameRows DEF BotType
<1>5. /\ reply' \in [Turns -> ReplyStates]
      /\ \A t \in Turns : reply'[t] # "streaming"
  BY <1>1, <1>2, FinishedReplies
<1>6. /\ run' \in [Runs -> RunType]
      /\ \A r \in Runs : run'[r].state # "running"
      /\ \A r \in Runs : stage[r] = "new" => run'[r] = run[r] /\ run'[r].state = "waiting"
  BY <1>1, <1>2, EndedRuns, SameRows
<1>7. UNCHANGED stage /\ stage \in [Tasks -> Stages] /\ router.announces # "ended"
  BY <1>1, SameRows
<1> QED  BY <1>1, <1>3, <1>4, <1>5, <1>6, <1>7, AnnouncedKeeps

\* Whatever the router does.
LEMMA RouteKeeps ==
    ASSUME IInv, Route
    PROVE  IInv'
  BY TurnStartedKeeps, ItemTakenKeeps, ReplyStartedKeeps, ReplyCompletedKeeps, TurnCompletedKeeps,
     RefusedKeeps, ExitedKeeps, AnnounceStartedKeeps, AnnounceEndedKeeps, AnnounceAllKeeps DEF Route

-----------------------------------------------------------------------------
(* The invariant, and what it says of the conversation.                     *)

\* Nothing was sent yet.
LEMMA InitHolds == Init => IInv
<1> SUFFICES ASSUME Init
             PROVE  IInv
  OBVIOUS
<1>1. PICK g \in GrantSets :
          bot = [grants |-> g, thread |-> 0, made |-> g, carryover |-> FALSE, refused |-> FALSE]
  BY DEF Init
<1>2. /\ lock = NoOne /\ work = NoWork /\ live = NoLive /\ counted = 0 /\ status = "idle"
      /\ router = AtRest /\ stream = <<>> /\ codex = NoServer /\ turns = <<>> /\ faults = 0
      /\ history = [changes |-> 0, others |-> 0, lost |-> 0, waiting |-> {}]
      /\ stage = [t \in Tasks |-> IF t \in Turns THEN "unborn" ELSE "new"]
      /\ run = [r \in Runs |-> [state |-> "waiting", turn |-> 0]]
      /\ reply = [t \in Turns |-> "none"]
  BY DEF Init
<1>3. /\ Len(turns) = 0 /\ 1..Len(turns) = {} /\ DOMAIN turns = {}
      /\ Len(stream) = 0 /\ 1..Len(stream) = {}
  BY <1>2
<1>4. TypeOK
  <2>1. work \in WorkType /\ bot \in BotType
    BY <1>1, <1>2 DEF WorkType, NoWork, Steps, BotType
  <2>2. live \in LiveType /\ router \in RouterType /\ codex \in CodexType
    BY <1>2 DEF LiveType, NoLive, RouterType, AtRest, Endings, CodexType, NoServer
  <2>3. stage \in [Tasks -> Stages] /\ run \in [Runs -> RunType]
        /\ reply \in [Turns -> ReplyStates]
    BY <1>2 DEF Stages, RunType, ReplyStates
  <2>4. /\ stream \in Seq(ReportType) /\ turns \in Seq(TurnType) /\ history \in HistoryType
        /\ counted \in 0..TurnLimit
    BY <1>2, ConversationAssumption DEF HistoryType
  <2> QED  BY <1>2, <2>1, <2>2, <2>3, <2>4, Types
<1>5. WorkFits
  BY <1>2 DEF WorkFits, NoWork
<1>6. CountedExactly
  BY <1>2, <1>3 DEF CountedExactly, NoWork
<1>7. ThreadsFit /\ CarriesOver
  BY <1>1, <1>3 DEF ThreadsFit, CarriesOver
<1>8. RunsFit /\ RunningFits
  BY <1>2 DEF RunsFit, RunningFits
<1>9. CodexFits
  BY <1>2, <1>3, ConversationAssumption DEF CodexFits, NoServer
<1>10. ReportsFit
  BY <1>2, <1>3 DEF ReportsFit, Orderly, NoServer
<1>11. EndsFit
  BY <1>2, NamesDiffer DEF EndsFit, NoLive, AtRest
<1>12. RecordFits /\ TurnFits /\ OwedFits
  BY <1>2 DEF RecordFits, Unrecorded, NoWork, TurnFits, NoLive, NoServer, OwedFits
<1>13. ReplyFits
  BY <1>2, <1>3 DEF ReplyFits, Foretells, Silent, Speaks, NoServer, EndIsAnnounced, AtRest
<1> QED  BY <1>4, <1>5, <1>6, <1>7, <1>8, <1>9, <1>10, <1>11, <1>12, <1>13 DEF IInv

\* A step of a task that holds the lock or takes it.
LEMMA TaskStepKeeps ==
    ASSUME IInv, \/ \E m \in Messages : Message(m)
                 \/ \E r \in Runs : Routine(r)
                 \/ \E f \in Turns : FollowUp(f)
    PROVE  IInv'
<1>1. ASSUME NEW t \in Tasks, Finish(t)
      PROVE  IInv'
  BY <1>1, ReserveKeeps, ReserveAgainKeeps, NoTurnKeeps, PrepareThreadKeeps, PrepareFailsKeeps,
     BeginTurnKeeps, BeginRejectedKeeps, BeginLostKeeps, RecordKeeps, RecordFailsKeeps,
     AnnounceWorkingKeeps DEF Finish
<1>2. ASSUME NEW m \in Messages, Message(m)
      PROVE  IInv'
  BY <1>1, <1>2, NamesDiffer, SendKeeps, SendRefusedKeeps, SteerKeeps, SteerMissesKeeps,
     SteerFailsKeeps DEF Message
<1>3. ASSUME NEW r \in Runs, Routine(r)
      PROVE  IInv'
  BY <1>1, <1>3, NamesDiffer, StartRoutineKeeps, RunRefusedKeeps, RunWaitsKeeps, MarkKeeps,
     RecordFailsKeeps DEF Routine
<1>4. ASSUME NEW f \in Turns, FollowUp(f)
      PROVE  IInv'
  BY <1>1, <1>4, NamesDiffer, StartOwedKeeps, AnnounceIdleKeeps DEF FollowUp
<1> QED  BY <1>2, <1>3, <1>4

\* Every step keeps the invariant.
LEMMA StepKeeps == IInv /\ [RestartNext]_vars => IInv'
<1> SUFFICES ASSUME IInv, [RestartNext]_vars
             PROVE  IInv'
  OBVIOUS
<1>1. CASE Gateway
  BY <1>1, TaskStepKeeps, RouteKeeps DEF Gateway
<1>2. CASE Codex
  BY <1>2, SpeakKeeps, EndTurnKeeps DEF Codex
<1>3. CASE StopRecorded
  BY <1>3, StopKeeps
<1>4. CASE Violation
  BY <1>4, ViolateKeeps DEF Violation
<1>5. CASE ChangeGrants
  BY <1>5, ChangeGrantsKeeps
<1>6. CASE OtherTurn
  BY <1>6, OtherTurnKeeps
<1>7. CASE Restart
  BY <1>7, RestartKeeps
<1>8. CASE UNCHANGED vars
  <2>1. /\ UNCHANGED <<lock, work, stage, bot, run, reply, counted, live, status, router>>
        /\ UNCHANGED <<codex, stream, turns, history, faults>>
    BY <1>8 DEF vars, taskVars, rowVars, codexVars
  <2>2. TypeOK' /\ WorkFits' /\ CountedExactly' /\ ThreadsFit' /\ CarriesOver' /\ RunsFit'
    BY <2>1, Types, TypesNext DEF IInv, WorkFits, CountedExactly, ThreadsFit, Unused, CarriesOver, RunsFit
  <2>3. CodexFits' /\ ReportsFit' /\ EndsFit' /\ RecordFits' /\ TurnFits'
    BY <2>1 DEF IInv, CodexFits, ReportsFit, EndsFit, EndIsOpen, RecordFits, Unrecorded, TurnFits
  <2>4. OwedFits' /\ RunningFits' /\ ReplyFits'
    BY <2>1 DEF IInv, OwedFits, RunningFits, EndIsAnnounced, ReplyFits, Speaks
  <2> QED  BY <2>2, <2>3, <2>4 DEF IInv
<1> QED  BY <1>1, <1>2, <1>3, <1>4, <1>5, <1>6, <1>7, <1>8 DEF RestartNext, Next

\* The invariant holds, whatever fails and however often the gateway restarts.
THEOREM InvariantHolds == RestartSpec => []IInv
<1>1. Init => IInv
  BY InitHolds
<1>2. IInv /\ [RestartNext]_vars => IInv'
  BY StepKeeps
<1> QED  BY <1>1, <1>2, PTL DEF RestartSpec

\* All state keeps to its type.
THEOREM TypesHold == RestartSpec => []TypeOK
<1>1. IInv => TypeOK
  BY DEF IInv
<1> QED  BY <1>1, InvariantHolds, PTL

\* Every turn that runs is counted, and nothing stays counted but requests whose
\* answer was lost (`reserve_turn`, `release_turn`).
THEOREM CountsAreExact == RestartSpec => []CountedExactly
<1>1. IInv => CountedExactly
  BY DEF IInv
<1> QED  BY <1>1, InvariantHolds, PTL

\* A fresh thread carries the conversation into its first turn, whatever became
\* of the turns that were to do so before (`prepare_thread`, `begin_turn`).
THEOREM ThreadsCarryOver == RestartSpec => []CarriesOver
<1>1. IInv => CarriesOver
  BY DEF IInv
<1> QED  BY <1>1, InvariantHolds, PTL

\* Once everything is handled, what is shown and recorded of a Bot is what Codex
\* does (`begin_turn`, `handle`, `recover`).
LEMMA ShownFollows == IInv => ShownIsReal
<1> SUFFICES ASSUME IInv, Settled
             PROVE  ShownIsReal
  BY DEF ShownIsReal, WorkingIsReal, RunningIsReal, StreamingIsReal
<1>1. /\ stream = <<>> /\ router = AtRest /\ \A f \in Turns : stage[f] # "new"
      /\ 1..Len(stream) = {}
  BY DEF Settled
<1>2. /\ \A t : ~EndIsAnnounced(t) /\ ~EndComes(stream, t) /\ Silent(stream, t)
      /\ \A t, type : ~Comes(stream, type, t)
  BY <1>1 DEF EndIsAnnounced, AtRest, EndComes, Silent, Comes
<1>3. live.owed = {}
  BY <1>1 DEF IInv, OwedFits, AtRest
<1>4. WorkingIsReal
  BY <1>2, <1>3 DEF IInv, TurnFits, WorkingIsReal
<1>5. RunningIsReal
  BY <1>2 DEF IInv, RunningFits, RunningIsReal
<1>6. StreamingIsReal
  BY <1>2 DEF IInv, ReplyFits, Speaks, StreamingIsReal
<1> QED  BY <1>4, <1>5, <1>6 DEF ShownIsReal

\* The same, always.
THEOREM ShowsWhatIs == RestartSpec => []ShownIsReal
  BY ShownFollows, InvariantHolds, PTL

-----------------------------------------------------------------------------
(* What no step does.                                                       *)

\* Only `turn/start` starts a turn, and all runs that end do so in one way.
StartsOne == \E t \in Tasks : Holds(t, "start") /\ StartsTurn
EndsSome == \E of \in SUBSET Turns, state \in RunEndings : EndsRuns(of, state)

\* What a step of a task that holds the lock changes.
LEMMA FinishChanges ==
    ASSUME TypeOK, NEW t \in Tasks, Finish(t)
    PROVE  /\ UNCHANGED turns \/ StartsOne
           /\ lock = t /\ \A q \in Runs : q # t => run'[q] = run[q]
<1>1. CASE \/ Reserve(t) \/ ReserveAgain(t) \/ PrepareThread(t) \/ BeginTurn(t)
           \/ Record(t) \/ AnnounceWorking(t)
  BY <1>1 DEF Reserve, ReserveAgain, PrepareThread, BeginTurn, Record, AnnounceWorking, Holds,
              codexVars, rowVars, StartsOne
<1>2. CASE \/ NoTurn(t) \/ PrepareFails(t) \/ ThreadRefused(t) \/ BeginRejected(t)
           \/ BeginLost(t) \/ RecordFails(t)
  BY <1>2 DEF NoTurn, PrepareFails, ThreadRefused, BeginRejected, BeginLost, RecordFails, Holds,
              codexVars, GivesUp, StartsOne
<1> QED  BY <1>1, <1>2 DEF Finish

\* What the router changes.
LEMMA RouteChanges ==
    ASSUME IInv, Route
    PROVE  UNCHANGED turns /\ (UNCHANGED run \/ EndsSome)
<1>1. CASE \/ TurnStarted \/ ItemTaken \/ ReplyStarted \/ ReplyCompleted \/ TurnCompleted
           \/ Refused \/ Exited \/ AnnounceStarted
  BY <1>1 DEF TurnStarted, ItemTaken, ReplyStarted, ReplyCompleted, TurnCompleted, Refused, Exited,
              AnnounceStarted, rowVars, codexVars
<1>2. CASE AnnounceEnded
  <2>1. /\ {router.turn} \in SUBSET Turns /\ RunEnding(router.ending) \in RunEndings
        /\ EndsRuns({router.turn}, RunEnding(router.ending)) /\ UNCHANGED turns
    BY <1>2, SameRows DEF AnnounceEnded, Announces, IInv, EndsFit, RouterType, RunEnding,
                          RunEndings, Endings, codexVars
  <2> QED  BY <2>1 DEF EndsSome
<1>3. CASE AnnounceRefused \/ AnnounceExited
  <2>1. Turns \in SUBSET Turns /\ "failed" \in RunEndings /\ EndsRuns(Turns, "failed")
        /\ UNCHANGED turns
    BY <1>3 DEF AnnounceRefused, AnnounceExited, RunEndings, codexVars
  <2> QED  BY <2>1 DEF EndsSome
<1> QED  BY <1>1, <1>2, <1>3 DEF Route

\* What any step changes: a run's row only while the run waits, or as runs end.
LEMMA Changes ==
    ASSUME IInv, [RestartNext]_vars
    PROVE  /\ UNCHANGED turns \/ StartsOne
           /\ \/ EndsSome
              \/ \A r \in Runs : run'[r] = run[r] \/ stage[r] = "new"
<1>1. ASSUME NEW t \in Tasks, Finish(t)
      PROVE  /\ UNCHANGED turns \/ StartsOne
             /\ \A r \in Runs : run'[r] = run[r] \/ stage[r] = "new"
  BY <1>1, FinishChanges, NamesDiffer DEF IInv, WorkFits
<1>2. CASE \E m \in Messages : Message(m)
  <2>1. PICK m \in Messages : Message(m)
    BY <1>2
  <2>2. CASE Finish(m)
    BY <1>1, <2>2, NamesDiffer
  <2>3. CASE \/ Send(m) \/ SendRefused(m) \/ Steer(m) \/ SteerMisses(m) \/ SteerFails(m)
             \/ SteerLost(m)
    BY <2>3, NamesDiffer DEF Send, SendRefused, Steer, SteerMisses, SteerFails, SteerLost, TakesIn,
                             GivesUp, rowVars, codexVars
  <2> QED  BY <2>1, <2>2, <2>3 DEF Message
<1>3. CASE \E r \in Runs : Routine(r)
  <2>1. PICK r \in Runs : Routine(r)
    BY <1>3
  <2>2. CASE Finish(r)
    BY <1>1, <2>2, NamesDiffer
  <2>3. CASE StartRoutine(r) \/ RunRefused(r) \/ RunWaits(r) \/ Mark(r) \/ MarkFails(r)
    <3>1. UNCHANGED turns
      BY <2>3 DEF StartRoutine, RunRefused, RunWaits, Mark, MarkFails, rowVars, codexVars
    <3>2. stage[r] = "new" \/ UNCHANGED run
      BY <2>3, NamesDiffer DEF StartRoutine, RunRefused, RunWaits, Mark, MarkFails, rowVars, Holds,
                               IInv, WorkFits
    <3>3. \A q \in Runs : q # r => run'[q] = run[q]
      BY <2>3 DEF StartRoutine, RunRefused, RunWaits, Mark, MarkFails, rowVars, GivesUp, IInv, TypeOK
    <3> QED  BY <3>1, <3>2, <3>3
  <2> QED  BY <2>1, <2>2, <2>3 DEF Routine
<1>4. CASE \E f \in Turns : FollowUp(f)
  <2>1. PICK f \in Turns : FollowUp(f)
    BY <1>4
  <2>2. CASE Finish(f)
    BY <1>1, <2>2, NamesDiffer
  <2>3. CASE StartOwed(f) \/ AnnounceIdle(f) \/ LeaveToTurn(f)
    BY <2>3 DEF StartOwed, AnnounceIdle, LeaveToTurn, rowVars, codexVars
  <2> QED  BY <2>1, <2>2, <2>3 DEF FollowUp
<1>5. CASE Route
  BY <1>5, RouteChanges
<1>6. CASE Codex \/ Violation \/ StopRecorded
  <2>1. UNCHANGED codexOnly
    <3>1. CASE Codex
      BY <3>1 DEF Codex, Speak, StopSpeaking, EndTurn
    <3>2. CASE Violation \/ StopRecorded
      BY <3>2 DEF Violation, Violate, StopRecorded, Stop
    <3> QED  BY <1>6, <3>1, <3>2
  <2> QED  BY <2>1 DEF codexOnly, rowVars
<1>7. CASE ChangeGrants \/ OtherTurn
  BY <1>7 DEF ChangeGrants, OtherTurn, codexVars
<1>8. CASE Restart
  <2>1. Turns \in SUBSET Turns /\ "failed" \in RunEndings /\ EndsRuns(Turns, "failed")
        /\ UNCHANGED turns
    BY <1>8 DEF Restart, RunEndings
  <2> QED  BY <2>1 DEF EndsSome
<1>9. CASE UNCHANGED vars
  BY <1>9 DEF vars, rowVars, codexVars
<1> QED  BY <1>2, <1>3, <1>4, <1>5, <1>6, <1>7, <1>8, <1>9 DEF RestartNext, Next, Gateway

\* A new turn runs only on a thread with the Bot's grants, whatever they were
\* when its message was sent (`prepare_thread`).
THEOREM TurnsRunWithGrants == RestartSpec => TurnsHaveGrants
<1>1. ASSUME IInv, [RestartNext]_vars
      PROVE  [Len(turns') > Len(turns) => turns'[Len(turns')].made = bot.grants]_vars
  <2> SUFFICES ASSUME Len(turns') > Len(turns)
               PROVE  turns'[Len(turns')].made = bot.grants
    OBVIOUS
  <2>1. turns' # turns
    BY Numbers
  <2>2. PICK t \in Tasks : Holds(t, "start") /\ StartsTurn
    BY <1>1, <2>1, Changes DEF StartsOne
  <2>3. bot.made = bot.grants
    BY <1>1, <2>2 DEF IInv, WorkFits, Holds
  <2>4. turns' = Append(turns, [thread |-> bot.thread, made |-> bot.made, carries |-> bot.carryover])
    BY <2>2 DEF StartsTurn
  <2>5. turns'[Len(turns')].made = bot.made
    BY <1>1, <2>4, TurnsAre DEF IInv
  <2> QED  BY <2>3, <2>5
<1> QED  BY <1>1, InvariantHolds, PTL DEF RestartSpec, TurnsHaveGrants

\* A run that ended stays as it ended, whoever ends it (`end_running`,
\* `set_running`).
THEOREM RunsStayEnded == RestartSpec => RunsEndOnce
<1>1. ASSUME IInv, [RestartNext]_vars
      PROVE  [\A r \in Runs : run[r].state \in RunEndings => run'[r] = run[r]]_vars
  <2> SUFFICES ASSUME NEW r \in Runs, run[r].state \in RunEndings
               PROVE  run'[r] = run[r]
    OBVIOUS
  <2>1. run[r].state # "running" /\ run[r].state # "waiting"
    BY DEF RunEndings
  <2>2. CASE EndsSome
    BY <1>1, <2>1, <2>2, EndedRuns DEF EndsSome
  <2>3. CASE run'[r] = run[r] \/ stage[r] = "new"
    BY <1>1, <2>1, <2>3, SameRows
  <2> QED  BY <1>1, <2>2, <2>3, Changes
<1> QED  BY <1>1, InvariantHolds, PTL DEF RestartSpec, RunsEndOnce

-----------------------------------------------------------------------------
(* Whether the Bot's status is announced.                                   *)

\* The router is about to announce the Bot's status.
Announced ==
    \/ router.announces \in {"status", "refused"}
    \/ router.announces \in {"ended", "exited"} /\ router.idle

\* A follow-up that starts no turn says that the Bot is idle.
TellsIdle(f) ==
    \/ stage[f] \in {"quiet", "failed"}
    \/ /\ stage[f] = "new"
       /\ f = lock => \/ work.step \notin {"record", "announce", "mark"}
                      \/ work.step = "record" /\ live.ended[work.turn] = "none"

\* The status is that of the Bot, or somebody is about to announce it.
StatusFits ==
    /\ status = "refused" <=> bot.refused
    /\ live.turn # 0 /\ status = "idle" => Announced \/ work.step = "announce"
    /\ ~IsWorking /\ status = "working" =>
           \/ Announced
           \/ router.announces = "ended" /\ router.owing
           \/ \E f \in Turns : TellsIdle(f)

\* Reports after which the Bot's turn may be another.
Breaks(e) == e.type \in {"started", "exited", "refused"}
Unbroken(s) == \A j \in 1..Len(s) : ~Breaks(s[j])

\* The last of them starts turn `t`, whose end is not told before.
LastStarts(s, t) ==
    \E i \in 1..Len(s) :
        /\ s[i].type = "started" /\ s[i].turn = t
        /\ \A j \in 1..Len(s) : j > i => ~Breaks(s[j])
        /\ \A j \in 1..Len(s) : j < i => ~(s[j].type = "ended" /\ s[j].turn = t)

\* When report `i` is taken the Bot, now on `turn`, is on that of the report or
\* on a later one.
OnTurn(s, i, turn) ==
    /\ \A j \in 1..(i - 1) : s[j].type = "ended" => s[j].turn < s[i].turn
    /\ \/ \E k \in 1..(i - 1) :
              /\ s[k].type = "started" /\ s[k].turn = s[i].turn
              /\ \A j \in 1..(i - 1) : j > k => ~Breaks(s[j])
       \/ turn >= s[i].turn /\ \A j \in 1..(i - 1) : ~Breaks(s[j])

StartsOnce(s) ==
    \A i, j \in 1..Len(s) :
        s[i].type = "started" /\ s[j].type = "started" /\ s[i].turn = s[j].turn => i = j

\* A turn that a task has still to record is reported as started last, or the
\* Bot is on it, or it has ended.
StartIsSeen ==
    work.step = "record" =>
        \/ LastStarts(stream, work.turn) /\ live.ended[work.turn] = "none"
        \/ Unbroken(stream) /\ (live.turn = work.turn \/ live.ended[work.turn] # "none")

\* A reply on the Bot's thread begins when the Bot is on its turn.
RepliesOnTurn ==
    \A i \in 1..Len(stream) :
        stream[i].type = "replying" /\ turns[stream[i].turn].thread = bot.thread
            => OnTurn(stream, i, live.turn)

ThreadsInOrder ==
    \A t, u \in 1..Len(turns) : t < u => turns[t].thread =< turns[u].thread

SeenFits == StartsOnce(stream) /\ ThreadsInOrder /\ StartIsSeen /\ RepliesOnTurn

\* What is added last breaks nothing.
LEMMA AddedUnbroken ==
    ASSUME NEW s \in Seq(ReportType), NEW e \in ReportType, ~Breaks(e), NEW t
    PROVE  /\ Unbroken(s) => Unbroken(Append(s, e))
           /\ LastStarts(s, t) => LastStarts(Append(s, e), t)
           /\ StartsOnce(s) => StartsOnce(Append(s, e))
<1> DEFINE p == Append(s, e)
<1>1. /\ Len(p) = Len(s) + 1 /\ Len(s) \in Nat
      /\ \A i \in 1..Len(s) : p[i] = s[i] /\ i \in 1..Len(p)
      /\ p[Len(s) + 1] = e
      /\ \A i \in 1..Len(p) : i \in 1..Len(s) \/ i = Len(s) + 1
  BY Added
<1> HIDE DEF p
<1>2. Unbroken(s) => Unbroken(p)
  BY <1>1 DEF Unbroken
<1>3. ASSUME LastStarts(s, t)
      PROVE  LastStarts(p, t)
  <2>1. PICK i \in 1..Len(s) :
            /\ s[i].type = "started" /\ s[i].turn = t
            /\ \A j \in 1..Len(s) : j > i => ~Breaks(s[j])
            /\ \A j \in 1..Len(s) : j < i => ~(s[j].type = "ended" /\ s[j].turn = t)
    BY <1>3 DEF LastStarts
  <2>2. i \in 1..Len(p) /\ p[i].type = "started" /\ p[i].turn = t
    BY <1>1, <2>1
  <2>3. \A j \in 1..Len(p) : j > i => ~Breaks(p[j])
    BY <1>1, <2>1
  <2>4. \A j \in 1..Len(p) : j < i => ~(p[j].type = "ended" /\ p[j].turn = t)
    BY <1>1, <2>1
  <2> QED  BY <2>2, <2>3, <2>4 DEF LastStarts
<1>4. StartsOnce(s) => StartsOnce(p)
  <2>1. e.type # "started"
    BY DEF Breaks
  <2> QED  BY <1>1, <2>1 DEF StartsOnce
<1> QED  BY <1>2, <1>3, <1>4 DEF p

\* What is added last changes nothing of what came before.
LEMMA AddedOnTurn ==
    ASSUME NEW s \in Seq(ReportType), NEW e \in ReportType, NEW i \in 1..Len(s), NEW turn \in Nat
    PROVE  /\ Append(s, e)[i] = s[i]
           /\ OnTurn(s, i, turn) => OnTurn(Append(s, e), i, turn)
<1> DEFINE p == Append(s, e)
<1>1. Len(s) \in Nat /\ \A j \in 1..Len(s) : p[j] = s[j]
  BY Added
<1>2. \A j \in 1..(i - 1) : p[j] = s[j] /\ p[i] = s[i]
  BY <1>1
<1> HIDE DEF p
<1> QED  BY <1>2 DEF OnTurn, p

\* The Bot may be on a later turn.
LEMMA LaterOnTurn ==
    ASSUME NEW s \in Seq(ReportType), NEW i \in 1..Len(s), NEW turn \in Nat, NEW later \in Nat,
           OnTurn(s, i, turn), s[i].turn \in Nat, turn >= s[i].turn => later >= s[i].turn
    PROVE  OnTurn(s, i, later)
  BY DEF OnTurn

\* One report is taken.
LEMMA TookUnbroken ==
    ASSUME NEW s \in Seq(ReportType), s # <<>>, NEW t
    PROVE  /\ Unbroken(s) => Unbroken(Tail(s)) /\ ~Breaks(Head(s))
           /\ StartsOnce(s) => StartsOnce(Tail(s))
           /\ LastStarts(s, t) =>
                  \/ Head(s).type = "started" /\ Head(s).turn = t /\ Unbroken(Tail(s))
                  \/ LastStarts(Tail(s), t) /\ ~(Head(s).type = "ended" /\ Head(s).turn = t)
<1> DEFINE p == Tail(s)
<1>1. /\ Len(s) \in Nat \ {0} /\ Len(p) = Len(s) - 1 /\ Head(s) = s[1] /\ 1 \in 1..Len(s)
      /\ \A i \in 1..Len(p) : p[i] = s[i + 1] /\ i + 1 \in 1..Len(s)
  BY Took
<1>2. \A j \in 1..Len(s) : j > 1 => j - 1 \in 1..Len(p) /\ s[j] = p[j - 1]
  BY <1>1
<1> HIDE DEF p
<1>3. Unbroken(s) => Unbroken(p) /\ ~Breaks(Head(s))
  BY <1>1 DEF Unbroken
<1>4. ASSUME StartsOnce(s)
      PROVE  StartsOnce(p)
  <2>1. ASSUME NEW i \in 1..Len(p), NEW j \in 1..Len(p),
               p[i].type = "started", p[j].type = "started", p[i].turn = p[j].turn
        PROVE  i = j
    <3>1. i + 1 = j + 1
      BY <1>1, <1>4, <2>1 DEF StartsOnce
    <3> QED  BY <3>1
  <2> QED  BY <2>1 DEF StartsOnce
<1>5. ASSUME LastStarts(s, t)
      PROVE  \/ Head(s).type = "started" /\ Head(s).turn = t /\ Unbroken(p)
             \/ LastStarts(p, t) /\ ~(Head(s).type = "ended" /\ Head(s).turn = t)
  <2>1. PICK i \in 1..Len(s) :
            /\ s[i].type = "started" /\ s[i].turn = t
            /\ \A j \in 1..Len(s) : j > i => ~Breaks(s[j])
            /\ \A j \in 1..Len(s) : j < i => ~(s[j].type = "ended" /\ s[j].turn = t)
    BY <1>5 DEF LastStarts
  <2>2. CASE i = 1
    <3>1. \A j \in 1..Len(p) : ~Breaks(p[j])
      BY <1>1, <2>1, <2>2
    <3> QED  BY <1>1, <2>1, <2>2, <3>1 DEF Unbroken
  <2>3. CASE i > 1
    <3>1. i - 1 \in 1..Len(p) /\ p[i - 1] = s[i]
      BY <1>2, <2>3
    <3>2. \A j \in 1..Len(p) : j > i - 1 => ~Breaks(p[j])
      BY <1>1, <2>1
    <3>3. \A j \in 1..Len(p) : j < i - 1 => ~(p[j].type = "ended" /\ p[j].turn = t)
      BY <1>1, <2>1
    <3>4. LastStarts(p, t)
      BY <2>1, <3>1, <3>2, <3>3 DEF LastStarts
    <3> QED  BY <1>1, <2>1, <2>3, <3>4
  <2> QED  BY <1>1, <2>2, <2>3
<1> QED  BY <1>3, <1>4, <1>5 DEF p

\* The Bot, once it took a report, is on a turn that fits those left.
LEMMA TookOnTurn ==
    ASSUME NEW s \in Seq(ReportType), s # <<>>, NEW i \in 1..Len(Tail(s)),
           NEW turn \in Nat, NEW later \in Nat, OnTurn(s, i + 1, turn), s[i + 1].turn \in Nat,
           Head(s).type = "started" /\ Head(s).turn = s[i + 1].turn => later = s[i + 1].turn,
           ~Breaks(Head(s)) /\ turn >= s[i + 1].turn
               /\ (Head(s).type = "ended" => Head(s).turn < s[i + 1].turn)
               => later >= s[i + 1].turn
    PROVE  Tail(s)[i] = s[i + 1] /\ OnTurn(Tail(s), i, later)
<1> DEFINE p == Tail(s)
<1>1. /\ Len(s) \in Nat \ {0} /\ Len(p) = Len(s) - 1 /\ Head(s) = s[1]
      /\ \A j \in 1..Len(p) : p[j] = s[j + 1]
  BY Took
<1>2. /\ p[i] = s[i + 1] /\ i \in Nat /\ (i + 1) - 1 = i /\ 1 \in 1..i
      /\ \A j \in 1..(i - 1) : p[j] = s[j + 1] /\ j + 1 \in 1..i
  BY <1>1
<1>3. i \in 1..Len(p)
  OBVIOUS
<1> HIDE DEF p
<1> DEFINE t == s[i + 1].turn
<1>4. /\ \A j \in 1..i : s[j].type = "ended" => s[j].turn < t
      /\ \/ \E k \in 1..i :
                /\ s[k].type = "started" /\ s[k].turn = t
                /\ \A j \in 1..i : j > k => ~Breaks(s[j])
         \/ turn >= t /\ \A j \in 1..i : ~Breaks(s[j])
  BY <1>2 DEF OnTurn
<1> HIDE DEF t
<1>5. \A j \in 1..(i - 1) : p[j].type = "ended" => p[j].turn < p[i].turn
  BY <1>2, <1>4 DEF t
<1>6. ASSUME NEW k \in 1..i, s[k].type = "started", s[k].turn = t,
             \A j \in 1..i : j > k => ~Breaks(s[j])
      PROVE  OnTurn(p, i, later)
  <2>1. CASE k = 1
    <3>1. later = t
      BY <1>1, <1>6, <2>1 DEF t
    <3>2. \A j \in 1..(i - 1) : ~Breaks(p[j])
      BY <1>2, <1>6, <2>1
    <3>3. p[i].turn = t /\ t \in Nat
      BY <1>2 DEF t
    <3> QED  BY <1>5, <3>1, <3>2, <3>3 DEF OnTurn
  <2>2. CASE k > 1
    <3>1. k - 1 \in 1..(i - 1) /\ p[k - 1] = s[k] /\ p[i].turn = t
      BY <1>2, <2>2 DEF t
    <3>2. \A j \in 1..(i - 1) : j > k - 1 => ~Breaks(p[j])
      BY <1>2, <1>6
    <3> QED  BY <1>5, <1>6, <3>1, <3>2 DEF OnTurn
  <2> QED  BY <1>2, <2>1, <2>2
<1>7. ASSUME turn >= t, \A j \in 1..i : ~Breaks(s[j])
      PROVE  OnTurn(p, i, later)
  <2>1. ~Breaks(Head(s)) /\ (Head(s).type = "ended" => Head(s).turn < t)
    BY <1>1, <1>2, <1>4, <1>7
  <2>2. later >= p[i].turn
    BY <1>2, <1>7, <2>1 DEF t
  <2>3. \A j \in 1..(i - 1) : ~Breaks(p[j])
    BY <1>2, <1>7
  <2> QED  BY <1>5, <2>2, <2>3 DEF OnTurn
<1> QED  BY <1>2, <1>4, <1>6, <1>7 DEF p
-----------------------------------------------------------------------------
(* What a step leaves of it.                                                *)

\* Turns that are reported or the Bot's are numbers.
LEMMA TurnNumbers ==
    ASSUME IInv
    PROVE  /\ live.turn \in Nat /\ stream \in Seq(ReportType)
           /\ Len(turns) \in Nat /\ Len(turns) =< MaxTurns /\ MaxTurns \in Nat
           /\ Orderly(stream, codex.running, Len(turns))
           /\ \A i \in 1..Len(stream) : stream[i].type # "exited" =>
                  stream[i].turn \in 1..Len(turns) /\ stream[i].turn \in Nat
           /\ bot.thread \in Nat
           /\ \A t \in 1..Len(turns) : turns[t].thread \in Nat /\ turns[t].thread =< bot.thread
<1>1. stream \in Seq(ReportType) /\ live \in LiveType /\ bot \in BotType
  BY Types DEF IInv
<1>2. live.turn \in Nat
  BY <1>1, ConversationAssumption DEF LiveType, Turns
<1>3. Len(turns) \in Nat /\ Len(turns) =< MaxTurns /\ MaxTurns \in Nat
      /\ Orderly(stream, codex.running, Len(turns))
  BY TurnsAre, ConversationAssumption DEF IInv, CodexFits, ReportsFit
<1>4. \A i \in 1..Len(stream) : stream[i].type # "exited" => stream[i].turn \in 1..Len(turns)
  BY <1>3 DEF Orderly
<1>5. \A t \in 1..Len(turns) : t \in Nat
  BY <1>3
<1>6. bot.thread \in Nat
  BY <1>1 DEF BotType
<1>7. \A t \in 1..Len(turns) : turns[t].thread \in Nat /\ turns[t].thread =< bot.thread
  BY TurnsAre DEF IInv, ThreadsFit
<1> QED  BY <1>1, <1>2, <1>3, <1>4, <1>5, <1>6, <1>7

\* A step that leaves the reports, and the turn the Bot is on or raises it.
LEMMA SeenStays ==
    ASSUME IInv, SeenFits, UNCHANGED <<stream, turns>>,
           bot'.thread = bot.thread \/ (bot'.thread > bot.thread /\ bot'.thread \in Nat),
           live'.turn = live.turn \/ (live'.turn \in Nat /\ live'.turn >= Len(turns)),
           \/ work'.step # "record"
           \/ UNCHANGED work /\ live'.turn = live.turn /\ live'.ended = live.ended
    PROVE  SeenFits'
<1>1. StartsOnce(stream)' /\ ThreadsInOrder'
  BY DEF SeenFits, StartsOnce, ThreadsInOrder
<1>2. StartIsSeen'
  BY DEF SeenFits, StartIsSeen
<1>3. ASSUME NEW i \in 1..Len(stream), stream[i].type = "replying",
             turns[stream[i].turn].thread = bot'.thread
      PROVE  OnTurn(stream, i, live'.turn)
  <2>1. stream[i].turn \in 1..Len(turns) /\ stream[i].turn \in Nat
    BY <1>3, TurnNumbers
  <2>2. turns[stream[i].turn].thread = bot.thread
    <3>1. turns[stream[i].turn].thread \in Nat /\ turns[stream[i].turn].thread =< bot.thread
          /\ bot.thread \in Nat
      BY <2>1, TurnNumbers
    <3> QED  BY <1>3, <3>1
  <2>3. OnTurn(stream, i, live.turn)
    BY <1>3, <2>2 DEF SeenFits, RepliesOnTurn
  <2>4. CASE live'.turn = live.turn
    BY <2>3, <2>4
  <2>5. CASE live'.turn \in Nat /\ live'.turn >= Len(turns)
    <3>1. live'.turn >= stream[i].turn
      BY <2>1, <2>5, TurnNumbers
    <3> QED  BY <2>1, <2>3, <2>5, <3>1, TurnNumbers, LaterOnTurn
  <2> QED  BY <2>4, <2>5
<1>4. RepliesOnTurn'
  BY <1>3 DEF RepliesOnTurn
<1> QED  BY <1>1, <1>2, <1>4 DEF SeenFits

\* A report of what a turn does is added.
LEMMA SeenAdds ==
    ASSUME IInv, SeenFits, NEW e \in ReportType, stream' = Append(stream, e), ~Breaks(e),
           UNCHANGED <<turns, live, bot>>,
           UNCHANGED work \/ work'.step # "record",
           e.type = "replying" /\ turns[e.turn].thread = bot.thread =>
               OnTurn(Append(stream, e), Len(stream) + 1, live.turn)
    PROVE  SeenFits'
<1>1. stream \in Seq(ReportType) /\ live.turn \in Nat
  BY TurnNumbers
<1>2. StartsOnce(stream)' /\ ThreadsInOrder'
  BY <1>1, AddedUnbroken DEF SeenFits, ThreadsInOrder
<1>3. StartIsSeen'
  BY <1>1, AddedUnbroken DEF SeenFits, StartIsSeen
<1>4. ASSUME NEW i \in 1..Len(stream'), stream'[i].type = "replying",
             turns[stream'[i].turn].thread = bot.thread
      PROVE  OnTurn(stream', i, live.turn)
  <2>1. CASE i \in 1..Len(stream)
    <3>1. stream'[i] = stream[i] /\ (OnTurn(stream, i, live.turn) => OnTurn(stream', i, live.turn))
      BY <1>1, <2>1, AddedOnTurn
    <3> QED  BY <1>4, <2>1, <3>1 DEF SeenFits, RepliesOnTurn
  <2>2. CASE i = Len(stream) + 1
    <3>1. stream'[i] = e
      BY <1>1, <2>2, Added
    <3> QED  BY <1>4, <2>2, <3>1
  <2> QED  BY <1>1, <2>1, <2>2, Added
<1>5. RepliesOnTurn'
  BY <1>4 DEF RepliesOnTurn
<1> QED  BY <1>2, <1>3, <1>5 DEF SeenFits

\* A turn that runs on the Bot's thread is not followed there by another.
LEMMA RunsLast ==
    ASSUME IInv, ThreadsInOrder, NEW t \in codex.running, turns[t].thread = bot.thread,
           NEW u \in 1..Len(turns)
    PROVE  t \in Nat /\ u \in Nat /\ u =< t
<1>1. t \in 1..Len(turns) /\ t \in Nat /\ u \in Nat /\ Len(turns) \in Nat
  BY TurnNumbers DEF IInv, CodexFits
<1>2. ASSUME u > t
      PROVE  FALSE
  <2>1. turns[u].thread # turns[t].thread
    BY <1>2 DEF IInv, CodexFits
  <2>2. turns[t].thread =< turns[u].thread
    BY <1>1, <1>2 DEF ThreadsInOrder
  <2>3. turns[u].thread =< bot.thread /\ turns[u].thread \in Nat /\ bot.thread \in Nat
    BY TurnNumbers
  <2> QED  BY <2>1, <2>2, <2>3
<1> QED  BY <1>1, <1>2

\* A reply that begins is one of the turn the Bot is on once all is taken.
LEMMA SpeaksOnTurn ==
    ASSUME IInv, SeenFits, NEW t \in codex.running, turns[t].thread = bot.thread,
           NEW e \in ReportType, e.type = "replying", e.turn = t
    PROVE  OnTurn(Append(stream, e), Len(stream) + 1, live.turn)
<1> DEFINE p == Append(stream, e)
<1>1. /\ Len(stream) \in Nat /\ p[Len(stream) + 1] = e /\ (Len(stream) + 1) - 1 = Len(stream)
      /\ \A i \in 1..Len(stream) : p[i] = stream[i]
  BY TurnNumbers, Added
<1> HIDE DEF p
<1>2. t \in Nat /\ \A u \in 1..Len(turns) : u \in Nat /\ u =< t
  <2>1. t \in 1..Len(turns) /\ Len(turns) \in Nat
    BY TurnNumbers DEF IInv, CodexFits
  <2>2. ASSUME NEW u \in 1..Len(turns)
        PROVE  u \in Nat /\ u =< t
    BY RunsLast DEF SeenFits
  <2> QED  BY <2>1, <2>2
<1>3. ASSUME NEW j \in 1..Len(stream), stream[j].type = "ended"
      PROVE  stream[j].turn < t
  <2>1. stream[j].turn \in 1..Len(turns) /\ stream[j].turn \notin codex.running
    BY <1>3, TurnNumbers DEF Orderly
  <2> QED  BY <1>2, <2>1
<1>4. ASSUME NEW j \in 1..Len(stream), Breaks(stream[j])
      PROVE  \E k \in 1..Len(stream) : k >= j /\ stream[k].type = "started" /\ stream[k].turn = t
  <2>1. CASE stream[j].type = "started" /\ stream[j].turn = t
    BY <2>1
  <2>2. CASE ~(stream[j].type = "started" /\ stream[j].turn = t)
    <3>1. stream[j].type \in {"exited", "refused"} \/ (stream[j].type = "started" /\ stream[j].turn < t)
      <4>1. stream[j].type = "started" => stream[j].turn \in 1..Len(turns)
        BY TurnNumbers
      <4> QED  BY <1>2, <1>4, <2>2, <4>1 DEF Breaks
    <3>2. \E k \in 1..Len(stream) : k > j /\ stream[k].type = "started" /\ stream[k].turn = t
      BY <3>1, TurnNumbers DEF Orderly
    <3> QED  BY <3>2
  <2> QED  BY <2>1, <2>2
<1>5. CASE Comes(stream, "started", t)
  <2>1. PICK k \in 1..Len(stream) : stream[k].type = "started" /\ stream[k].turn = t
    BY <1>5 DEF Comes
  <2>2. \A j \in 1..Len(stream) : j > k => ~Breaks(stream[j])
    BY <1>4, <2>1 DEF SeenFits, StartsOnce
  <2> QED  BY <1>1, <1>3, <2>1, <2>2 DEF OnTurn, p
<1>6. CASE ~Comes(stream, "started", t)
  <2>1. live.turn = t
    BY <1>6 DEF IInv, TurnFits
  <2>2. \A j \in 1..Len(stream) : ~Breaks(stream[j])
    BY <1>4, <1>6 DEF Comes
  <2> QED  BY <1>1, <1>2, <1>3, <2>1, <2>2 DEF OnTurn, p
<1> QED  BY <1>5, <1>6

\* A turn starts: its task records it next, or never learns of it.
LEMMA SeenStarts ==
    ASSUME IInv, SeenFits, StartsTurn, UNCHANGED <<live, bot>>,
           work'.step = "record" => work'.turn = Len(turns')
    PROVE  SeenFits'
<1> DEFINE n == Len(turns) + 1
           e == Report("started", n)
           row == [thread |-> bot.thread, made |-> bot.made, carries |-> bot.carryover]
<1>1. /\ turns' = Append(turns, row) /\ Len(turns') = n /\ n \in Turns
      /\ \A t \in 1..Len(turns) : turns'[t] = turns[t]
      /\ turns'[n] = row /\ \A t \in 1..n : t \in 1..Len(turns) \/ t = n
      /\ Len(turns) \in Nat /\ n > Len(turns)
  <2>1. turns' = Append(turns, row) /\ Len(turns) < MaxTurns
    BY DEF StartsTurn
  <2>2. Len(turns) \in Nat /\ MaxTurns \in Nat /\ turns \in Seq(TurnType)
    BY TurnNumbers, TurnsAre DEF IInv
  <2>3. /\ Len(turns') = n /\ turns'[n] = row
        /\ \A t \in 1..Len(turns) : turns'[t] = turns[t]
    BY <2>1, <2>2
  <2> QED  BY <2>1, <2>2, <2>3 DEF Turns
<1>2. stream' = Append(stream, e) /\ e \in ReportType /\ e.type = "started" /\ e.turn = n
  BY <1>1 DEF StartsTurn, Report, ReportType, Reports, Endings
<1> HIDE DEF e
<1>3. /\ stream \in Seq(ReportType) /\ Len(stream) \in Nat
      /\ Len(stream') = Len(stream) + 1 /\ stream'[Len(stream) + 1] = e
      /\ \A i \in 1..Len(stream) : stream'[i] = stream[i]
      /\ \A i \in 1..Len(stream') : i \in 1..Len(stream) \/ i = Len(stream) + 1
  BY <1>2, TurnNumbers, Added
<1>4. \A i \in 1..Len(stream) : stream[i].type # "exited" => stream[i].turn \in 1..Len(turns)
  BY TurnNumbers
<1>5. StartsOnce(stream)'
  <2>1. \A i \in 1..Len(stream) : stream[i].type = "started" => stream[i].turn # n
    BY <1>1, <1>4
  <2> QED  BY <1>2, <1>3, <2>1 DEF SeenFits, StartsOnce
<1>6. ThreadsInOrder'
  <2>1. \A t \in 1..Len(turns) : turns'[t].thread =< turns'[n].thread
    BY <1>1, TurnNumbers
  <2> HIDE DEF row
  <2> QED  BY <1>1, <2>1 DEF SeenFits, ThreadsInOrder
<1>7. ASSUME work'.step = "record"
      PROVE  LastStarts(stream', work'.turn) /\ live'.ended[work'.turn] = "none"
  <2>1. work'.turn = n
    BY <1>1, <1>7
  <2>2. live.ended[n] = "none"
    BY <1>1 DEF IInv, EndsFit, EndIsOpen
  <2>3. \A i \in 1..Len(stream) : ~(stream'[i].type = "ended" /\ stream'[i].turn = n)
    BY <1>1, <1>3, <1>4
  <2>4. /\ Len(stream) + 1 \in 1..Len(stream')
        /\ \A j \in 1..Len(stream') : ~(j > Len(stream) + 1)
        /\ \A j \in 1..Len(stream') : j < Len(stream) + 1 => j \in 1..Len(stream)
    BY <1>3
  <2>5. LastStarts(stream', n)
    BY <1>2, <1>3, <2>3, <2>4 DEF LastStarts
  <2> QED  BY <2>1, <2>2, <2>5
<1>8. StartIsSeen'
  BY <1>7 DEF StartIsSeen
<1>9. ASSUME NEW i \in 1..Len(stream'), stream'[i].type = "replying",
             turns'[stream'[i].turn].thread = bot.thread
      PROVE  OnTurn(stream', i, live.turn)
  <2>1. i \in 1..Len(stream)
    BY <1>2, <1>3, <1>9
  <2>2. stream'[i] = stream[i] /\ (OnTurn(stream, i, live.turn) => OnTurn(stream', i, live.turn))
    BY <1>2, <2>1, TurnNumbers, AddedOnTurn
  <2>3. turns'[stream[i].turn] = turns[stream[i].turn]
    BY <1>1, <1>4, <1>9, <2>1, <2>2
  <2> QED  BY <1>9, <2>1, <2>2, <2>3 DEF SeenFits, RepliesOnTurn
<1>10. RepliesOnTurn'
  BY <1>9 DEF RepliesOnTurn
<1> QED  BY <1>5, <1>6, <1>8, <1>10 DEF SeenFits

\* Codex stops, and what is forwarded of its reports is followed by the news.
LEMMA SeenStops ==
    ASSUME IInv, SeenFits, work.step # "record", UNCHANGED <<work, turns, live, bot>>,
           NEW n \in 0..Len(stream), NEW tail \in Seq(ReportType),
           \A i \in 1..Len(tail) : tail[i].type \in {"refused", "exited"},
           stream' = SubSeq(stream, 1, n) \o tail
    PROVE  SeenFits'
<1>1. /\ stream \in Seq(ReportType) /\ Len(stream) \in Nat /\ Len(tail) \in Nat /\ live.turn \in Nat
      /\ n \in Nat /\ n =< Len(stream)
  BY TurnNumbers
<1>2. /\ Len(SubSeq(stream, 1, n)) = n
      /\ \A i \in 1..n : SubSeq(stream, 1, n)[i] = stream[i]
      /\ SubSeq(stream, 1, n) \in Seq(ReportType)
  BY <1>1
<1>3. /\ Len(stream') = n + Len(tail)
      /\ \A i \in 1..n : stream'[i] = stream[i]
      /\ \A i \in 1..Len(stream') : i > n => i - n \in 1..Len(tail) /\ stream'[i] = tail[i - n]
  BY <1>1, <1>2
<1>4. \A i \in 1..Len(stream') :
          stream'[i].type \in {"refused", "exited"} \/ (i \in 1..n /\ i \in 1..Len(stream))
  BY <1>1, <1>3
<1>5. StartsOnce(stream)'
  <2>1. ASSUME NEW i \in 1..Len(stream'), stream'[i].type = "started"
        PROVE  i \in 1..Len(stream) /\ stream'[i] = stream[i]
    BY <1>3, <1>4, <2>1
  <2>2. ASSUME NEW i \in 1..Len(stream'), NEW j \in 1..Len(stream'),
               stream'[i].type = "started", stream'[j].type = "started",
               stream'[i].turn = stream'[j].turn
        PROVE  i = j
    BY <2>1, <2>2 DEF SeenFits, StartsOnce
  <2> QED  BY <2>2 DEF StartsOnce
<1>6. ThreadsInOrder' /\ StartIsSeen'
  BY DEF SeenFits, ThreadsInOrder, StartIsSeen
<1>7. ASSUME NEW i \in 1..Len(stream'), stream'[i].type = "replying",
             turns[stream'[i].turn].thread = bot.thread
      PROVE  OnTurn(stream', i, live.turn)
  <2>1. i \in 1..n /\ i \in 1..Len(stream) /\ stream'[i] = stream[i]
    BY <1>3, <1>4, <1>7
  <2>2. OnTurn(stream, i, live.turn)
    BY <1>7, <2>1 DEF SeenFits, RepliesOnTurn
  <2>3. \A j \in 1..(i - 1) : stream'[j] = stream[j]
    BY <1>1, <1>3, <2>1
  <2> QED  BY <2>1, <2>2, <2>3 DEF OnTurn
<1>8. RepliesOnTurn'
  BY <1>7 DEF RepliesOnTurn
<1> QED  BY <1>5, <1>6, <1>8 DEF SeenFits

\* The router takes a report.
LEMMA SeenTakes ==
    ASSUME IInv, SeenFits, NEW type, Handles(type), UNCHANGED <<work, turns, bot>>,
           live' \in LiveType,
           work.step = "record" =>
               /\ live.turn = work.turn /\ type \notin {"started", "refused", "exited"} =>
                      live'.turn = work.turn \/ live'.ended[work.turn] # "none"
               /\ live.ended[work.turn] # "none" => live'.ended[work.turn] # "none"
               /\ ~(type = "ended" /\ Event.turn = work.turn) =>
                      live'.ended[work.turn] = live.ended[work.turn],
           type = "started" /\ turns[Event.turn].thread = bot.thread => live'.turn = Event.turn,
           \A t \in 1..Len(turns) :
               /\ type \notin {"started", "refused", "exited"}
               /\ live.turn >= t
               /\ type = "ended" => Event.turn < t
               => live'.turn >= t
    PROVE  SeenFits'
<1>1. /\ stream \in Seq(ReportType) /\ stream # <<>> /\ stream' = Tail(stream)
      /\ Event = Head(stream) /\ Event.type = type /\ live.turn \in Nat /\ live'.turn \in Nat
  BY TurnNumbers, ConversationAssumption DEF Handles, Event, LiveType, Turns
<1>2. ThreadsInOrder'
  BY DEF SeenFits, ThreadsInOrder
<1>3. StartsOnce(stream)'
  BY <1>1, TookUnbroken DEF SeenFits
<1>4. ASSUME work.step = "record"
      PROVE  \/ LastStarts(stream', work.turn) /\ live'.ended[work.turn] = "none"
             \/ Unbroken(stream') /\ (live'.turn = work.turn \/ live'.ended[work.turn] # "none")
  <2>1. CASE LastStarts(stream, work.turn) /\ live.ended[work.turn] = "none"
    <3>1. \/ type = "started" /\ Event.turn = work.turn /\ Unbroken(stream')
          \/ LastStarts(stream', work.turn) /\ ~(type = "ended" /\ Event.turn = work.turn)
      BY <1>1, <2>1, TookUnbroken
    <3>2. turns[work.turn].thread = bot.thread
      BY <1>4 DEF IInv, WorkFits
    <3> QED  BY <1>4, <2>1, <3>1, <3>2
  <2>2. CASE Unbroken(stream) /\ (live.turn = work.turn \/ live.ended[work.turn] # "none")
    <3>1. Unbroken(stream') /\ ~Breaks(Event)
      BY <1>1, <2>2, TookUnbroken
    <3>2. type \notin {"started", "refused", "exited"}
      BY <1>1, <3>1 DEF Breaks
    <3> QED  BY <1>4, <2>2, <3>1, <3>2
  <2> QED  BY <1>4, <2>1, <2>2 DEF SeenFits, StartIsSeen
<1>5. StartIsSeen'
  BY <1>4 DEF StartIsSeen
<1>6. ASSUME NEW i \in 1..Len(stream'), stream'[i].type = "replying",
             turns[stream'[i].turn].thread = bot.thread
      PROVE  OnTurn(stream', i, live'.turn)
  <2>1. i + 1 \in 1..Len(stream) /\ stream'[i] = stream[i + 1] /\ (i + 1) - 1 = i /\ 1 \in 1..i
        /\ i \in 1..Len(Tail(stream))
    BY <1>1, Took
  <2>2. stream[i + 1].turn \in 1..Len(turns) /\ stream[i + 1].turn \in Nat
    BY <1>6, <2>1, TurnNumbers
  <2>3. OnTurn(stream, i + 1, live.turn)
    BY <1>6, <2>1 DEF SeenFits, RepliesOnTurn
  <2>4. type = "started" /\ Event.turn = stream[i + 1].turn => live'.turn = stream[i + 1].turn
    BY <1>6, <2>1
  <2>5. ~Breaks(Event) /\ live.turn >= stream[i + 1].turn
            /\ (type = "ended" => Event.turn < stream[i + 1].turn)
            => live'.turn >= stream[i + 1].turn
    BY <1>1, <2>2 DEF Breaks
  <2> QED  BY <1>1, <2>1, <2>2, <2>3, <2>4, <2>5, TookOnTurn
<1>7. RepliesOnTurn'
  BY <1>6 DEF RepliesOnTurn
<1> QED  BY <1>2, <1>3, <1>5, <1>7 DEF SeenFits

-----------------------------------------------------------------------------
(* The steps of the tasks.                                                  *)

\* Who announces the status, and whether it is right once all is announced.
StatusInv == StatusFits /\ SeenFits

Busy == {"record", "announce", "mark"}

\* A follow-up still says that the Bot is idle.
LEMMA TellsStill ==
    ASSUME NEW f \in Turns, TellsIdle(f),
           stage'[f] = stage[f] \/ stage'[f] \in {"quiet", "failed"},
           f # lock' \/ work'.step \notin Busy
    PROVE  TellsIdle(f)'
  BY DEF TellsIdle, Busy

\* Neither the router nor what the Bot is on changes.
LEMMA StatusStays ==
    ASSUME StatusFits, UNCHANGED router, live'.turn = live.turn, live'.owed = live.owed,
           \/ status' = status /\ bot'.refused = bot.refused
           \/ status' = "refused" /\ bot'.refused = TRUE,
           work.step = "announce" => work'.step = "announce",
           \A f \in Turns : TellsIdle(f) => TellsIdle(f)'
    PROVE  StatusFits'
<1>1. IsWorking' <=> IsWorking
  BY DEF IsWorking
<1>2. Announced' <=> Announced
  BY DEF Announced
<1>3. CASE status' = "refused" /\ bot'.refused = TRUE
  BY <1>3 DEF StatusFits
<1>4. CASE status' = status /\ bot'.refused = bot.refused
  <2>1. status' = "refused" <=> bot'.refused
    BY <1>4 DEF StatusFits
  <2>2. live'.turn # 0 /\ status' = "idle" => Announced' \/ work'.step = "announce"
    BY <1>2, <1>4 DEF StatusFits
  <2>3. ~IsWorking' /\ status' = "working" =>
            \/ Announced'
            \/ router'.announces = "ended" /\ router'.owing
            \/ \E f \in Turns : TellsIdle(f)'
    BY <1>1, <1>2, <1>4 DEF StatusFits
  <2> QED  BY <2>1, <2>2, <2>3 DEF StatusFits
<1> QED  BY <1>3, <1>4

\* A task that goes on, or lets the lock go having recorded no turn.
LEMMA MovesFits ==
    ASSUME IInv, StatusInv, UNCHANGED <<router, live, stream, turns>>,
           work.step # "announce", work'.step # "record" \/ UNCHANGED work,
           \/ status' = status /\ bot'.refused = bot.refused
           \/ status' = "refused" /\ bot'.refused = TRUE,
           bot'.thread = bot.thread \/ (bot'.thread > bot.thread /\ bot'.thread \in Nat),
           \A f \in Turns : stage'[f] = stage[f] \/ stage'[f] \in {"quiet", "failed"},
           \A f \in Turns : f # lock' \/ work'.step \notin Busy
    PROVE  StatusInv'
<1>1. \A f \in Turns : TellsIdle(f) => TellsIdle(f)'
  BY TellsStill
<1>2. StatusFits'
  BY <1>1, StatusStays DEF StatusInv
<1>3. SeenFits'
  BY SeenStays DEF StatusInv
<1> QED  BY <1>2, <1>3 DEF StatusInv

\* Takes the lock, or finds that it need not.
LEMMA TakesFits ==
    ASSUME IInv, StatusInv, NEW t \in Messages \cup Runs,
           Send(t) \/ SendRefused(t) \/ StartRoutine(t) \/ RunRefused(t)
    PROVE  StatusInv'
<1>1. /\ UNCHANGED <<router, live, stream, turns, status, bot>> /\ lock = NoOne
      /\ \/ UNCHANGED <<lock, work>> /\ stage' = [stage EXCEPT ![t] = "done"]
         \/ UNCHANGED stage /\ work'.step = "runtime"
  BY DEF Send, SendRefused, StartRoutine, RunRefused, Takes, rowVars, codexVars, NoWork
<1>2. t \in Tasks /\ t \notin Turns /\ stage \in [Tasks -> Stages] /\ Turns \subseteq Tasks
      /\ NoOne \notin Turns
  BY NamesDiffer, Types DEF IInv
<1>3. \A f \in Turns : stage'[f] = stage[f]
  BY <1>1, <1>2
<1>4. work.step # "announce"
  BY <1>1 DEF IInv, WorkFits
<1>5. \A f \in Turns : f # lock' \/ work'.step \notin Busy
  BY <1>1, <1>2 DEF Busy
<1>6. work'.step # "record" \/ UNCHANGED work
  BY <1>1
<1> QED  BY <1>1, <1>3, <1>4, <1>5, <1>6, MovesFits

\* A task gives up before its turn was recorded, or its run marked.
LEMMA GivesUpFits ==
    ASSUME IInv, StatusInv, NEW t \in Tasks, lock = t, work.step # "announce",
           GivesUp(t) \/ (t \in Runs /\ Leaves(t, "new")),
           \/ UNCHANGED <<status, bot>>
           \/ status' = "refused" /\ bot' = [bot EXCEPT !.refused = TRUE],
           UNCHANGED <<router, live, stream, turns>>
    PROVE  StatusInv'
<1>1. stage \in [Tasks -> Stages] /\ Turns \subseteq Tasks /\ NoOne \notin Turns /\ bot \in BotType
  BY NamesDiffer, Types DEF IInv
<1>2. lock' = NoOne /\ work'.step = "none"
  BY DEF GivesUp, Leaves, NoWork
<1>3. \A f \in Turns : stage'[f] = stage[f] \/ stage'[f] \in {"quiet", "failed"}
  <2>1. CASE GivesUp(t)
    BY <1>1, <2>1 DEF GivesUp, Leaves
  <2>2. CASE t \in Runs /\ Leaves(t, "new")
    BY <1>1, <2>2, NamesDiffer DEF Leaves
  <2> QED  BY <2>1, <2>2
<1>4. bot'.thread = bot.thread
  BY <1>1 DEF BotType
<1>5. \/ status' = status /\ bot'.refused = bot.refused
      \/ status' = "refused" /\ bot'.refused = TRUE
  BY <1>1 DEF BotType
<1> QED  BY <1>1, <1>2, <1>3, <1>4, <1>5, MovesFits

\* A task goes on to another step.
LEMMA GoesOnFits ==
    ASSUME IInv, StatusInv, NEW t \in Tasks,
           \/ Reserve(t) \/ ReserveAgain(t) \/ PrepareThread(t)
           \/ SteerMisses(t) \/ (SteerFails(t) /\ Goes("again") /\ UNCHANGED <<lock, stage, run>>)
    PROVE  StatusInv'
<1>1. bot \in BotType /\ work \in WorkType
  BY Types DEF IInv
<1>2. UNCHANGED <<router, live, stream, turns, status, lock, stage>> /\ work.step # "announce"
  BY DEF Reserve, ReserveAgain, PrepareThread, SteerMisses, SteerFails, Holds, rowVars, codexVars
<1>3. work'.step \in {"thread", "steer", "start", "again"}
  BY <1>1 DEF Reserve, ReserveAgain, PrepareThread, SteerMisses, SteerFails, Goes, WorkType
<1>4. /\ bot'.refused = bot.refused
      /\ bot'.thread = bot.thread \/ (bot'.thread > bot.thread /\ bot'.thread \in Nat)
  <2>1. UNCHANGED bot \/ bot' = [bot EXCEPT !.thread = @ + 1, !.made = bot.grants, !.carryover = bot.thread # 0]
    BY DEF Reserve, ReserveAgain, PrepareThread, SteerMisses, SteerFails, rowVars
  <2>2. CASE bot' = [bot EXCEPT !.thread = @ + 1, !.made = bot.grants, !.carryover = bot.thread # 0]
    <3>1. bot'.thread = bot.thread + 1 /\ bot'.refused = bot.refused /\ bot.thread \in Nat
      BY <1>1, <2>2 DEF BotType
    <3> QED  BY <3>1
  <2> QED  BY <2>1, <2>2
<1>5. work'.step \notin Busy /\ work'.step # "record"
  BY <1>3 DEF Busy
<1> QED  BY <1>2, <1>4, <1>5, MovesFits

\* A task that gives up, in any of its steps.
LEMMA FailsFits ==
    ASSUME IInv, StatusInv, NEW t \in Tasks,
           \/ NoTurn(t) \/ PrepareFails(t) \/ ThreadRefused(t) \/ BeginRejected(t)
           \/ RecordFails(t) \/ MarkFails(t) \/ (SteerFails(t) /\ GivesUp(t))
           \/ (t \in Runs /\ RunWaits(t))
    PROVE  StatusInv'
<1>1. lock = t /\ work.step # "announce"
  BY DEF NoTurn, PrepareFails, ThreadRefused, BeginRejected, RecordFails, MarkFails, SteerFails,
         RunWaits, Holds
<1>2. /\ GivesUp(t) \/ (t \in Runs /\ Leaves(t, "new"))
      /\ UNCHANGED <<router, live, stream, turns>>
      /\ \/ UNCHANGED <<status, bot>>
         \/ status' = "refused" /\ bot' = [bot EXCEPT !.refused = TRUE]
  BY DEF NoTurn, PrepareFails, ThreadRefused, BeginRejected, RecordFails, MarkFails, SteerFails,
         RunWaits, rowVars, codexVars
<1> QED  BY <1>1, <1>2, GivesUpFits

\* A message is steered into the turn that runs.
LEMMA SteerFits ==
    ASSUME IInv, StatusInv, NEW m \in Messages, Steer(m) \/ SteerLost(m)
    PROVE  StatusInv'
<1>1. /\ lock = m /\ work.step = "steer" /\ work'.step \in {"none", "again"}
      /\ UNCHANGED stage \/ stage' = [stage EXCEPT ![m] = "done"]
      /\ work.active \in codex.running
      /\ stream' = Append(stream, [Report("took", work.active) EXCEPT !.message = m])
      /\ UNCHANGED <<bot, live, status, router, turns>>
  <2>1. work \in WorkType
    BY Types DEF IInv
  <2> QED  BY <2>1 DEF Steer, SteerLost, TakesIn, Holds, Leaves, Goes, NoWork, rowVars, WorkType
<1>2. m \in Tasks /\ m \notin Turns /\ stage \in [Tasks -> Stages] /\ Turns \subseteq Tasks
      /\ NoOne \notin Turns /\ codex.running \subseteq Turns
  BY NamesDiffer, Types DEF IInv, CodexType
<1> DEFINE e == [Report("took", work.active) EXCEPT !.message = m]
<1>3. e \in ReportType /\ e.type = "took"
  BY <1>1, <1>2 DEF Report, ReportType, Endings
<1>4. stream' = Append(stream, e)
  BY <1>1
<1> HIDE DEF e
<1>5. ~Breaks(e) /\ e.type # "replying" /\ work'.step # "record"
  BY <1>1, <1>3 DEF Breaks
<1>6. SeenFits'
  BY <1>1, <1>3, <1>4, <1>5, SeenAdds DEF StatusInv
<1>7. \A f \in Turns : TellsIdle(f) => TellsIdle(f)'
  <2>1. \A f \in Turns : stage'[f] = stage[f]
    BY <1>1, <1>2
  <2> QED  BY <1>1, <2>1, TellsStill DEF Busy
<1>8. StatusFits'
  BY <1>1, <1>7, StatusStays DEF StatusInv
<1> QED  BY <1>6, <1>8 DEF StatusInv

\* A turn starts, whether or not its task learns of it.
LEMMA BeginsFits ==
    ASSUME IInv, StatusInv, NEW t \in Tasks, BeginTurn(t) \/ BeginLost(t)
    PROVE  StatusInv'
<1>1. lock = t /\ work.step = "start" /\ UNCHANGED <<bot, live, status, router>>
  BY DEF BeginTurn, BeginLost, Holds, rowVars
<1>2. Turns \subseteq Tasks /\ NoOne \notin Turns /\ stage \in [Tasks -> Stages] /\ work \in WorkType
  BY NamesDiffer, Types DEF IInv
<1>3. CASE BeginTurn(t)
  <2>1. /\ work'.step = "record" /\ work'.turn = Len(turns') /\ StartsTurn /\ UNCHANGED <<lock, stage>>
    BY <1>2, <1>3 DEF BeginTurn, WorkType
  <2>2. SeenFits'
    BY <1>1, <2>1, SeenStarts DEF StatusInv
  <2>3. live'.ended[work'.turn] = "none"
    <3>1. Len(turns') = Len(turns) + 1 /\ Len(turns) \in Nat /\ Len(turns) < MaxTurns /\ MaxTurns \in Nat
      BY <2>1, TurnNumbers, TurnsAre DEF StartsTurn, IInv
    <3>2. work'.turn \in Turns /\ work'.turn > Len(turns)
      BY <2>1, <3>1 DEF Turns
    <3> QED  BY <1>1, <3>2 DEF IInv, EndsFit, EndIsOpen
  <2>4. \A f \in Turns : TellsIdle(f) => TellsIdle(f)'
    BY <1>1, <2>1, <2>3 DEF TellsIdle
  <2>5. StatusFits'
    BY <1>1, <2>4, StatusStays DEF StatusInv
  <2> QED  BY <2>2, <2>5 DEF StatusInv
<1>4. CASE BeginLost(t)
  <2>1. GivesUp(t) /\ (UNCHANGED <<stream, turns>> \/ StartsTurn)
    BY <1>4 DEF BeginLost, codexVars
  <2>2. CASE UNCHANGED <<stream, turns>>
    BY <1>1, <2>1, <2>2, GivesUpFits
  <2>3. CASE StartsTurn
    <3>1. lock' = NoOne /\ work'.step = "none" /\ \A f \in Turns : stage'[f] = stage[f] \/ stage'[f] = "failed"
      BY <1>2, <2>1 DEF GivesUp, Leaves, NoWork
    <3>2. SeenFits'
      BY <1>1, <2>3, <3>1, SeenStarts DEF StatusInv
    <3>3. \A f \in Turns : TellsIdle(f) => TellsIdle(f)'
      BY <1>2, <3>1, TellsStill
    <3>4. StatusFits'
      BY <1>1, <3>3, StatusStays DEF StatusInv
    <3> QED  BY <3>2, <3>4 DEF StatusInv
  <2> QED  BY <2>1, <2>2, <2>3
<1> QED  BY <1>3, <1>4

\* A follow-up other than the task that holds the lock says that the Bot is idle.
TellsBeside == \E f \in Turns : f # lock /\ (stage[f] = "new" \/ stage[f] \in {"quiet", "failed"})

\* A turn is recorded.
LEMMA TurnRecordedFits ==
    ASSUME IInv, StatusInv, NEW t \in Tasks, Record(t)
    PROVE  StatusInv'
<1> DEFINE runs == live.ended[work.turn] = "none"
<1>1. /\ lock = t /\ work.step = "record" /\ UNCHANGED <<status, router, stream, turns>>
      /\ bot' = [bot EXCEPT !.carryover = @ /\ ~work.carries]
      /\ live' = [live EXCEPT !.owed = {}, !.turn = IF runs THEN work.turn ELSE @]
      /\ IF runs /\ live.turn = 0 THEN Goes("announce") /\ UNCHANGED <<lock, stage>> ELSE Recorded(t)
  BY DEF Record, Holds, codexVars
<1>2. /\ Turns \subseteq Tasks /\ NoOne \notin Turns /\ stage \in [Tasks -> Stages]
      /\ work \in WorkType /\ live \in LiveType /\ bot \in BotType
      /\ work.turn = Len(turns) /\ work.turn \in Turns /\ work.turn # 0 /\ Len(turns) \in Nat
      /\ stage[t] = "new"
  BY <1>1, NamesDiffer, Types, TurnNumbers DEF IInv, WorkFits
<1>3. /\ live'.owed = {} /\ live'.ended = live.ended
      /\ live'.turn = IF runs THEN work.turn ELSE live.turn
      /\ bot'.refused = bot.refused /\ bot'.thread = bot.thread
  BY <1>1, <1>2 DEF LiveType, BotType
<1>4. /\ \A f \in Turns : f # t => stage'[f] = stage[f]
      /\ lock' \in {lock, NoOne} /\ work'.step \in {"announce", "mark", "none"}
      /\ runs /\ live.turn = 0 => work'.step = "announce"
  BY <1>1, <1>2 DEF Recorded, Leaves, Goes, NoWork, WorkType
<1> HIDE DEF runs
<1>5. SeenFits'
  <2>1. live'.turn = live.turn \/ (live'.turn \in Nat /\ live'.turn >= Len(turns))
    BY <1>2, <1>3
  <2> QED  BY <1>1, <1>3, <1>4, <2>1, SeenStays DEF StatusInv
<1>6. status' = "refused" <=> bot'.refused
  BY <1>1, <1>3 DEF StatusInv, StatusFits
<1>7. live'.turn # 0 /\ status' = "idle" => Announced' \/ work'.step = "announce"
  <2>1. Announced' <=> Announced
    BY <1>1 DEF Announced
  <2>2. CASE live.turn = 0
    BY <1>3, <1>4, <2>2
  <2>3. CASE live.turn # 0
    BY <1>1, <2>1, <2>3 DEF StatusInv, StatusFits
  <2> QED  BY <2>2, <2>3
<1>8. ASSUME ~IsWorking', status' = "working"
      PROVE  \/ Announced'
             \/ router'.announces = "ended" /\ router'.owing
             \/ \E f \in Turns : TellsIdle(f)'
  <2>1. ~runs /\ live.turn = 0
    BY <1>2, <1>3, <1>8 DEF IsWorking
  <2>2. Announced \/ (router.announces = "ended" /\ router.owing) \/ TellsBeside
    <3>1. CASE live.owed # {}
      BY <3>1 DEF IInv, OwedFits, TellsBeside
    <3>2. CASE live.owed = {}
      <4>1. \/ Announced \/ (router.announces = "ended" /\ router.owing) \/ \E f \in Turns : TellsIdle(f)
        BY <1>1, <1>8, <2>1, <3>2 DEF StatusInv, StatusFits, IsWorking
      <4>2. ASSUME NEW f \in Turns, TellsIdle(f)
            PROVE  f # lock /\ (stage[f] = "new" \/ stage[f] \in {"quiet", "failed"})
        <5>1. ~TellsIdle(t)
          BY <1>1, <1>2, <2>1 DEF TellsIdle, runs
        <5>2. f # t /\ (stage[f] = "new" \/ stage[f] \in {"quiet", "failed"})
          BY <4>2, <5>1 DEF TellsIdle
        <5> QED  BY <1>1, <5>2
      <4>3. (\E f \in Turns : TellsIdle(f)) => TellsBeside
        BY <4>2 DEF TellsBeside
      <4> QED  BY <4>1, <4>3
    <3> QED  BY <3>1, <3>2
  <2>3. Announced' <=> Announced
    BY <1>1 DEF Announced
  <2>4. TellsBeside => \E f \in Turns : TellsIdle(f)'
    BY <1>1, <1>2, <1>4 DEF TellsBeside, TellsIdle
  <2> QED  BY <1>1, <2>2, <2>3, <2>4
<1>9. StatusFits'
  BY <1>6, <1>7, <1>8 DEF StatusFits
<1> QED  BY <1>5, <1>9 DEF StatusInv

\* The status is set to what it is now, and who is to announce it otherwise
\* changes as it may.
LEMMA SetsCurrent ==
    ASSUME IInv, status' = Current, UNCHANGED live, bot'.refused = bot.refused
    PROVE  StatusFits'
<1>1. bot \in BotType
  BY Types DEF IInv
<1> QED  BY <1>1 DEF BotType, StatusFits, Current, IsWorking

\* The Bot is announced working.
LEMMA AnnounceWorkingFits ==
    ASSUME IInv, StatusInv, NEW t \in Tasks, AnnounceWorking(t)
    PROVE  StatusInv'
<1>1. /\ lock = t /\ work.step = "announce" /\ UNCHANGED <<bot, live, router, stream, turns>>
      /\ status' = (IF IsWorking THEN Current ELSE status) /\ Recorded(t)
  BY DEF AnnounceWorking, Holds, rowVars, codexVars
<1>2. /\ Turns \subseteq Tasks /\ NoOne \notin Turns /\ stage \in [Tasks -> Stages] /\ work \in WorkType
      /\ stage[t] = "new"
  BY <1>1, NamesDiffer, Types DEF IInv, WorkFits
<1>3. /\ \A f \in Turns : f # t => stage'[f] = stage[f]
      /\ lock' \in {lock, NoOne} /\ work'.step \in {"mark", "none"}
  BY <1>1, <1>2 DEF Recorded, Leaves, Goes, NoWork, WorkType
<1>4. SeenFits'
  BY <1>1, <1>3, SeenStays DEF StatusInv
<1>5. StatusFits'
  <2>1. CASE IsWorking
    BY <1>1, <2>1, SetsCurrent
  <2>2. CASE ~IsWorking
    <3>1. \A f \in Turns : TellsIdle(f) => TellsIdle(f)'
      BY <1>1, <1>2, <1>3 DEF TellsIdle
    <3>2. UNCHANGED status /\ live.turn = 0
      BY <1>1, <2>2 DEF IsWorking
    <3>3. (Announced' <=> Announced) /\ (IsWorking' <=> IsWorking)
      BY <1>1 DEF Announced, IsWorking
    <3> QED  BY <1>1, <2>2, <3>1, <3>2, <3>3 DEF StatusInv, StatusFits
  <2> QED  BY <2>1, <2>2
<1> QED  BY <1>4, <1>5 DEF StatusInv

\* A run is marked.
LEMMA MarkFits ==
    ASSUME IInv, StatusInv, NEW r \in Runs, Mark(r)
    PROVE  StatusInv'
<1>1. /\ work.step = "mark" /\ lock' = NoOne /\ work' = NoWork /\ stage' = [stage EXCEPT ![r] = "done"]
      /\ UNCHANGED <<bot, live, status, router, stream, turns>>
  BY DEF Mark, Holds, Leaves, codexVars
<1>2. r \in Tasks /\ r \notin Turns /\ stage \in [Tasks -> Stages] /\ Turns \subseteq Tasks
      /\ NoOne \notin Turns
  BY NamesDiffer, Types DEF IInv
<1>3. work'.step = "none" /\ \A f \in Turns : stage'[f] = stage[f] /\ f # lock'
  BY <1>1, <1>2 DEF NoWork
<1> QED  BY <1>1, <1>3, MovesFits

\* A follow-up takes what is owed, or says what became of it.
LEMMA FollowUpFits ==
    ASSUME IInv, StatusInv, NEW f \in Turns, StartOwed(f) \/ AnnounceIdle(f) \/ LeaveToTurn(f)
    PROVE  StatusInv'
<1>1. /\ Turns \subseteq Tasks /\ NoOne \notin Turns /\ stage \in [Tasks -> Stages]
      /\ live \in LiveType
  BY NamesDiffer, Types DEF IInv
<1>2. UNCHANGED <<bot, router, stream, turns>>
  BY DEF StartOwed, AnnounceIdle, LeaveToTurn, rowVars, codexVars
<1>3. CASE StartOwed(f)
  <2>1. /\ live'.turn = live.turn /\ live'.ended = live.ended /\ live'.owed = {} /\ lock = NoOne
        /\ UNCHANGED status
        /\ \/ UNCHANGED <<lock, work>> /\ live.turn # 0
           \/ UNCHANGED <<lock, work>> /\ stage' = [stage EXCEPT ![f] = "quiet"]
           \/ UNCHANGED <<lock, work>> /\ stage' = [stage EXCEPT ![f] = "failed"]
           \/ work'.step = "runtime" /\ UNCHANGED stage /\ stage[f] = "new"
    BY <1>1, <1>3 DEF StartOwed, LiveType, Takes, NoWork
  <2>2. work.step = "none"
    BY <2>1 DEF IInv, WorkFits
  <2>3. SeenFits'
    BY <1>2, <2>1, <2>2, SeenStays DEF StatusInv
  <2>4. (Announced' <=> Announced) /\ (status' = "refused" <=> bot'.refused)
    BY <1>2, <2>1 DEF Announced, StatusInv, StatusFits
  <2>5. live'.turn # 0 /\ status' = "idle" => Announced' \/ work'.step = "announce"
    BY <2>1, <2>2, <2>4 DEF StatusInv, StatusFits
  <2>6. live.turn = 0 => TellsIdle(f)'
    BY <1>1, <2>1 DEF TellsIdle
  <2>7. ~IsWorking' => live.turn = 0
    BY <2>1 DEF IsWorking
  <2>8. StatusFits'
    BY <2>4, <2>5, <2>6, <2>7 DEF StatusFits
  <2> QED  BY <2>3, <2>8 DEF StatusInv
<1>4. CASE AnnounceIdle(f)
  <2>1. status' = Current /\ UNCHANGED <<live, work>>
    BY <1>4 DEF AnnounceIdle
  <2> QED  BY <1>2, <2>1, SetsCurrent, SeenStays DEF StatusInv
<1>5. CASE LeaveToTurn(f)
  <2>1. IsWorking /\ UNCHANGED <<live, work, status>>
    BY <1>5 DEF LeaveToTurn
  <2>2. SeenFits'
    BY <1>2, <2>1, SeenStays DEF StatusInv
  <2>3. (Announced' <=> Announced) /\ IsWorking'
    BY <1>2, <2>1 DEF Announced, IsWorking
  <2>4. StatusFits'
    BY <1>2, <2>1, <2>3 DEF StatusInv, StatusFits
  <2> QED  BY <2>2, <2>4 DEF StatusInv
<1> QED  BY <1>3, <1>4, <1>5

-----------------------------------------------------------------------------
(* The steps of Codex, of the router and of everyone else.                  *)

\* Codex reports what a turn does.
LEMMA CodexReportsFits ==
    ASSUME IInv, StatusInv, NEW t \in codex.running, Speak(t) \/ StopSpeaking(t) \/ EndTurn(t)
    PROVE  StatusInv'
<1>1. UNCHANGED <<lock, work, stage, bot, live, status, router, turns>>
  BY DEF Speak, StopSpeaking, EndTurn, codexOnly, taskVars, rowVars
<1>2. t \in Turns
  BY Types DEF IInv, CodexType
<1>3. \A f \in Turns : TellsIdle(f) => TellsIdle(f)'
  BY <1>1 DEF TellsIdle
<1>4. StatusFits'
  BY <1>1, <1>3, StatusStays DEF StatusInv
<1>5. PICK e \in ReportType : /\ stream' = Append(stream, e) /\ e.type \in {"replying", "replied", "ended"}
                              /\ e.turn = t
  <2>1. CASE Speak(t)
    <3>1. Report("replying", t) \in ReportType
      BY <1>2 DEF Report, ReportType, Reports, Endings
    <3> QED  BY <2>1, <3>1 DEF Speak, Tells, Report
  <2>2. CASE StopSpeaking(t)
    <3>1. Report("replied", t) \in ReportType
      BY <1>2 DEF Report, ReportType, Reports, Endings
    <3> QED  BY <2>2, <3>1 DEF StopSpeaking, Tells, Report
  <2>3. CASE EndTurn(t)
    <3>1. PICK ending \in Endings : Tells([Report("ended", t) EXCEPT !.ending = ending])
      BY <2>3 DEF EndTurn
    <3>2. /\ [Report("ended", t) EXCEPT !.ending = ending] \in ReportType
          /\ [Report("ended", t) EXCEPT !.ending = ending].type = "ended"
          /\ [Report("ended", t) EXCEPT !.ending = ending].turn = t
      BY <1>2, <3>1 DEF Report, ReportType, Reports
    <3> QED  BY <3>1, <3>2 DEF Tells
  <2> QED  BY <2>1, <2>2, <2>3
<1>6. ~Breaks(e)
  BY <1>5 DEF Breaks
<1>7. e.type = "replying" /\ turns[e.turn].thread = bot.thread =>
          OnTurn(Append(stream, e), Len(stream) + 1, live.turn)
  BY <1>5, SpeaksOnTurn DEF StatusInv
<1>8. SeenFits'
  BY <1>1, <1>5, <1>6, <1>7, SeenAdds DEF StatusInv
<1> QED  BY <1>4, <1>8 DEF StatusInv

\* The app server stops, or is stopped.
LEMMA StopsFit ==
    ASSUME IInv, StatusInv, StopRecorded \/ \E t \in codex.running : Violate(t)
    PROVE  StatusInv'
<1>1. UNCHANGED <<lock, work, stage, bot, live, status, router, turns>> /\ work.step # "record"
  BY DEF StopRecorded, Stop, Violate, codexOnly, taskVars, rowVars, Unrecorded
<1>2. \A f \in Turns : TellsIdle(f) => TellsIdle(f)'
  BY <1>1 DEF TellsIdle
<1>3. StatusFits'
  BY <1>1, <1>2, StatusStays DEF StatusInv
<1>4. stream \in Seq(ReportType) /\ Len(stream) \in Nat
  BY TurnNumbers
<1> DEFINE end == Report("exited", 0)
<1>5. end \in ReportType /\ end.type = "exited"
  BY DEF Report, ReportType, Reports, Endings
<1> HIDE DEF end
<1>6. CASE StopRecorded
  <2>1. PICK n \in Kept : stream' = Append(SubSeq(stream, 1, n), end)
    BY <1>6 DEF StopRecorded, Stop, end
  <2>2. n \in 0..Len(stream) /\ n \in Nat
    BY <1>4 DEF Kept
  <2>3. SubSeq(stream, 1, n) \in Seq(ReportType)
    BY <1>4, <2>2
  <2>4. stream' = SubSeq(stream, 1, n) \o <<end>>
    BY <1>5, <2>1, <2>3, AppendIsConcat
  <2>5. <<end>> \in Seq(ReportType) /\ \A i \in 1..Len(<<end>>) : <<end>>[i].type \in {"refused", "exited"}
    BY <1>5
  <2> QED  BY <1>1, <1>3, <2>2, <2>4, <2>5, SeenStops DEF StatusInv
<1>7. CASE \E t \in codex.running : Violate(t)
  <2>1. PICK t \in codex.running : stream' = stream \o <<Report("refused", t), end>>
    BY <1>7 DEF Violate, end
  <2> DEFINE word == Report("refused", t)
             tail == <<word, end>>
  <2>2. word \in ReportType /\ word.type = "refused"
    <3>1. t \in Turns
      BY Types DEF IInv, CodexType
    <3> QED  BY <3>1 DEF Report, ReportType, Reports, Endings
  <2> HIDE DEF word
  <2>3. tail \in Seq(ReportType) /\ \A i \in 1..Len(tail) : tail[i].type \in {"refused", "exited"}
    BY <1>5, <2>2
  <2>4. SubSeq(stream, 1, Len(stream)) = stream /\ Len(stream) \in 0..Len(stream)
    BY <1>4
  <2>5. stream' = SubSeq(stream, 1, Len(stream)) \o tail
    BY <2>1, <2>4 DEF word
  <2> HIDE DEF tail
  <2> QED  BY <1>1, <1>3, <2>3, <2>4, <2>5, SeenStops DEF StatusInv
<1> QED  BY <1>6, <1>7

\* A turn is said to have started.
LEMMA TurnStartedFits ==
    ASSUME IInv, StatusInv, TurnStarted
    PROVE  StatusInv'
<1>1. /\ Handles("started") /\ router = AtRest
      /\ UNCHANGED <<lock, work, stage, bot, status, turns>>
      /\ IF turns[Event.turn].thread = bot.thread
         THEN /\ live' = [live EXCEPT !.turn = Event.turn]
              /\ router' = IF live.turn = 0 THEN [AtRest EXCEPT !.announces = "status"] ELSE router
         ELSE UNCHANGED <<live, router>>
  BY DEF TurnStarted, Handles, taskVars, rowVars
<1>2. /\ live \in LiveType /\ Event.turn \in Turns /\ Event.turn # 0
  BY <1>1, Types, Handled, NamesDiffer DEF IInv
<1>3. /\ live' \in LiveType /\ live'.ended = live.ended
      /\ turns[Event.turn].thread = bot.thread => live'.turn = Event.turn
  BY <1>1, <1>2 DEF LiveType
<1>4. SeenFits'
  BY <1>1, <1>3, SeenTakes DEF StatusInv
<1>5. CASE turns[Event.turn].thread = bot.thread
  <2>1. live'.turn # 0 /\ IsWorking'
    BY <1>2, <1>3, <1>5 DEF IsWorking
  <2>2. live.turn = 0 => Announced'
    BY <1>1, <1>5 DEF Announced, AtRest
  <2>3. live.turn # 0 /\ status = "idle" => work.step = "announce"
    BY <1>1 DEF StatusInv, StatusFits, Announced, AtRest
  <2>4. StatusFits'
    BY <1>1, <2>1, <2>2, <2>3 DEF StatusInv, StatusFits
  <2> QED  BY <1>4, <2>4 DEF StatusInv
<1>6. CASE turns[Event.turn].thread # bot.thread
  <2>1. UNCHANGED <<live, router>>
    BY <1>1, <1>6
  <2>2. \A f \in Turns : TellsIdle(f) => TellsIdle(f)'
    BY <1>1, <2>1 DEF TellsIdle
  <2>3. StatusFits'
    BY <1>1, <2>1, <2>2, StatusStays DEF StatusInv
  <2> QED  BY <1>4, <2>3 DEF StatusInv
<1> QED  BY <1>5, <1>6

\* A message is taken, or a reply begins or ends, on the turn the Bot is on.
LEMMA WordFits ==
    ASSUME IInv, StatusInv, ItemTaken \/ ReplyStarted \/ ReplyCompleted
    PROVE  StatusInv'
<1>1. PICK type \in {"took", "replying", "replied"} :
          /\ Handles(type) /\ UNCHANGED <<lock, work, stage, bot, status, turns, router>>
          /\ type = "took" <=> ItemTaken
          /\ type = "replying" <=> ReplyStarted
  BY DEF ItemTaken, ReplyStarted, ReplyCompleted, Handles, taskVars, rowVars
<1>2. /\ Event \in ReportType /\ Event.type = type /\ Event.turn \in Turns
      /\ Event.turn \in 1..Len(turns) /\ Event.turn \in Nat /\ live \in LiveType
  BY <1>1, Types, Handled, TurnNumbers DEF IInv
<1>3. ASSUME ReplyStarted, live.turn = 0, turns[Event.turn].thread = bot.thread
      PROVE  FALSE
  <2>1. stream[1] = Event /\ 1 \in 1..Len(stream)
    BY <1>1, Took, TurnNumbers DEF Handles, Event
  <2>2. OnTurn(stream, 1, live.turn)
    BY <1>1, <1>2, <1>3, <2>1 DEF StatusInv, SeenFits, RepliesOnTurn
  <2>3. 1..(1 - 1) = {}
    OBVIOUS
  <2>4. live.turn >= Event.turn
    BY <2>1, <2>2, <2>3 DEF OnTurn
  <2> QED  BY <1>2, <1>3, <2>4
<1>4. live' \in LiveType /\ live'.turn = live.turn /\ live'.ended = live.ended /\ live'.owed = live.owed
  <2>1. CASE ItemTaken
    <3>1. Event.message \in Messages
      BY <1>1, <1>2, <2>1 DEF ReportType, Reports
    <3> QED  BY <1>2, <2>1, <3>1 DEF ItemTaken, LiveType
  <2>2. CASE ReplyStarted
    <3>1. live' = [live EXCEPT !.steered[Event.turn] = {}, !.turn = live.turn]
      BY <1>3, <2>2 DEF ReplyStarted
    <3> QED  BY <1>2, <3>1 DEF LiveType
  <2>3. CASE ReplyCompleted
    BY <1>2, <2>3 DEF ReplyCompleted
  <2> QED  BY <2>1, <2>2, <2>3
<1>5. SeenFits'
  BY <1>1, <1>4, SeenTakes DEF StatusInv
<1>6. \A f \in Turns : TellsIdle(f) => TellsIdle(f)'
  BY <1>1, <1>4 DEF TellsIdle
<1>7. StatusFits'
  BY <1>1, <1>4, <1>6, StatusStays DEF StatusInv
<1> QED  BY <1>5, <1>7 DEF StatusInv

\* A turn ends: the Bot was on it, or is not said to be idle for it.
LEMMA TurnCompletedFits ==
    ASSUME IInv, StatusInv, TurnCompleted
    PROVE  StatusInv'
<1> DEFINE u == Event.turn
           owing == Event.ending = "completed" /\ live.steered[u] # {}
<1>1. /\ Handles("ended") /\ router = AtRest
      /\ UNCHANGED <<lock, work, stage, bot, status, turns>>
      /\ live' = [live EXCEPT !.ended[u] = Event.ending, !.steered[u] = {},
                     !.owed = IF owing THEN @ \cup live.steered[u] ELSE @,
                     !.turn = IF @ = u THEN 0 ELSE @]
      /\ router' = [announces |-> "ended", turn |-> u, ending |-> Event.ending,
                    idle |-> live.turn = u, owing |-> owing]
  BY DEF TurnCompleted, Handles, taskVars, rowVars
<1>2. /\ live \in LiveType /\ u \in Turns /\ u # 0 /\ Event \in ReportType /\ Event.type = "ended"
      /\ u \in Nat /\ live.turn \in Nat
  BY <1>1, Types, Handled, NamesDiffer, TurnNumbers DEF IInv
<1>3. Event.ending \in Endings /\ Event.ending # "none"
  BY <1>2 DEF ReportType, Endings
<1> HIDE DEF u, owing
<1>4. /\ live' \in LiveType
      /\ live'.ended[u] # "none" /\ \A t \in Turns : t # u => live'.ended[t] = live.ended[t]
      /\ live'.turn = IF live.turn = u THEN 0 ELSE live.turn
      /\ live.owed # {} => live'.owed # {}
  BY <1>1, <1>2, <1>3 DEF LiveType
<1>5. SeenFits'
  <2>1. work.step = "record" => work.turn \in Turns
    BY DEF IInv, WorkFits
  <2>2. /\ live.turn = work.turn => live'.turn = work.turn \/ work.turn = u
        /\ \A t \in 1..Len(turns) : live.turn >= t /\ u < t => live'.turn >= t
    BY <1>2, <1>4, TurnNumbers
  <2> QED  BY <1>1, <1>4, <2>1, <2>2, SeenTakes DEF StatusInv, u
<1>6. status' = "refused" <=> bot'.refused
  BY <1>1 DEF StatusInv, StatusFits
<1>7. live'.turn # 0 /\ status' = "idle" => Announced' \/ work'.step = "announce"
  BY <1>1, <1>4 DEF StatusInv, StatusFits, Announced, AtRest
<1>8. ASSUME ~IsWorking', status' = "working"
      PROVE  Announced' \/ \E f \in Turns : TellsIdle(f)'
  <2>1. CASE live.turn = u
    BY <1>1, <2>1 DEF Announced
  <2>2. CASE live.turn # u
    <3>1. live.turn = 0 /\ live.owed = {}
      BY <1>4, <1>8, <2>2 DEF IsWorking
    <3>2. PICK f \in Turns : TellsIdle(f)
      BY <1>1, <1>8, <3>1 DEF StatusInv, StatusFits, IsWorking, Announced, AtRest
    <3>3. ASSUME work.step = "record", live.ended[work.turn] = "none"
          PROVE  work.turn # u
      <4>1. LastStarts(stream, work.turn)
        <5>1. work.turn \in Turns /\ work.turn # 0
          BY <3>3, NamesDiffer DEF IInv, WorkFits
        <5> QED  BY <3>1, <3>3, <5>1 DEF StatusInv, SeenFits, StartIsSeen
      <4>2. stream \in Seq(ReportType) /\ stream # <<>> /\ Event = Head(stream)
        BY <1>1, TurnNumbers DEF Handles, Event
      <4> QED  BY <1>2, <4>1, <4>2, TookUnbroken DEF u
    <3>4. work.step = "record" => work.turn \in Turns
      BY DEF IInv, WorkFits
    <3>5. TellsIdle(f)'
      BY <1>1, <1>4, <3>2, <3>3, <3>4 DEF TellsIdle
    <3> QED  BY <3>5
  <2> QED  BY <2>1, <2>2
<1>9. StatusFits'
  BY <1>6, <1>7, <1>8 DEF StatusFits
<1> QED  BY <1>5, <1>9 DEF StatusInv

\* A thread broke a safety rule, or the app server stopped.
LEMMA LastReportFits ==
    ASSUME IInv, StatusInv, Refused \/ Exited
    PROVE  StatusInv'
<1>1. live \in LiveType /\ UNCHANGED <<lock, work, stage, bot, status, turns>> /\ router = AtRest
  BY Types DEF Refused, Exited, Handles, taskVars, rowVars, IInv
<1>2. live' \in LiveType /\ live'.ended = live.ended /\ live'.turn = 0
  <2>1. CASE Refused
    <3> DEFINE steered == [t \in Turns |-> IF t = live.turn THEN {} ELSE live.steered[t]]
    <3>1. live' = [live EXCEPT !.owed = {}, !.turn = 0, !.steered = steered]
      BY <2>1 DEF Refused
    <3>2. steered \in [Turns -> SUBSET Messages]
      BY <1>1 DEF LiveType
    <3> HIDE DEF steered
    <3> QED  BY <1>1, <3>1, <3>2 DEF LiveType
  <2>2. CASE Exited
    BY <1>1, <2>2 DEF Exited, LiveType
  <2> QED  BY <2>1, <2>2
<1>3. SeenFits'
  <2>1. \E type \in {"refused", "exited"} : Handles(type)
    BY DEF Refused, Exited
  <2> QED  BY <1>1, <1>2, <2>1, SeenTakes DEF StatusInv
<1>4. status' = "refused" <=> bot'.refused
  BY <1>1 DEF StatusInv, StatusFits
<1>5. CASE Refused
  <2>1. Announced'
    BY <1>5 DEF Refused, Announced, AtRest
  <2> QED  BY <1>2, <1>3, <1>4, <2>1 DEF StatusInv, StatusFits
<1>6. CASE Exited
  <2>1. /\ router' = [AtRest EXCEPT !.announces = "exited", !.idle = live.turn # 0]
        /\ live'.owed = live.owed
    BY <1>1, <1>6 DEF Exited, LiveType
  <2>2. live.turn # 0 => Announced'
    BY <2>1 DEF Announced, AtRest
  <2>3. ASSUME live.turn = 0, ~IsWorking', status' = "working"
        PROVE  \E f \in Turns : TellsIdle(f)'
    <3>1. PICK f \in Turns : TellsIdle(f)
      BY <1>1, <2>1, <2>3 DEF StatusInv, StatusFits, IsWorking, Announced, AtRest
    <3>2. TellsIdle(f)'
      BY <1>1, <1>2, <3>1 DEF TellsIdle
    <3> QED  BY <3>2
  <2>4. StatusFits'
    BY <1>2, <1>4, <2>2, <2>3 DEF StatusFits
  <2> QED  BY <1>3, <2>4 DEF StatusInv
<1> QED  BY <1>5, <1>6

\* The router announces what it changed.
LEMMA AnnouncesFits ==
    ASSUME IInv, StatusInv, AnnounceStarted \/ AnnounceEnded \/ AnnounceRefused \/ AnnounceExited
    PROVE  StatusInv'
<1>1. /\ bot \in BotType /\ stage \in [Tasks -> Stages] /\ Turns \subseteq Tasks
      /\ router.announces = "ended" => router.turn \in Turns /\ stage[router.turn] = "unborn"
      /\ lock # NoOne => stage[lock] = "new"
  BY Types, NamesDiffer DEF IInv, EndsFit, WorkFits
<1>2. UNCHANGED <<lock, work, live, stream, turns>> /\ router' = AtRest /\ bot'.thread = bot.thread
  BY <1>1 DEF AnnounceStarted, AnnounceEnded, AnnounceRefused, AnnounceExited, Announces, taskVars,
              rowVars, codexVars, BotType
<1>3. SeenFits'
  BY <1>2, SeenStays DEF StatusInv
<1>4. CASE status' = Current /\ UNCHANGED bot
  BY <1>2, <1>3, <1>4, SetsCurrent DEF StatusInv
<1>5. CASE AnnounceRefused
  <2>1. status' = "refused" /\ bot'.refused = TRUE
    BY <1>1, <1>5 DEF AnnounceRefused, BotType
  <2> QED  BY <1>3, <2>1 DEF StatusInv, StatusFits
<1>6. ASSUME AnnounceEnded \/ AnnounceExited, ~router.idle
      PROVE  StatusInv'
  <2>1. /\ UNCHANGED <<status, bot>> /\ router.announces \in {"ended", "exited"}
        /\ router.announces = "exited" => UNCHANGED stage
        /\ router.announces = "ended" =>
               stage' = [stage EXCEPT ![router.turn] = IF router.owing THEN "new" ELSE @]
    BY <1>6 DEF AnnounceEnded, AnnounceExited, Announces, taskVars
  <2>2. ~Announced
    BY <1>6, <2>1 DEF Announced
  <2>3. status' = "refused" <=> bot'.refused
    BY <2>1 DEF StatusInv, StatusFits
  <2>4. live'.turn # 0 /\ status' = "idle" => work'.step = "announce"
    BY <1>2, <2>1, <2>2 DEF StatusInv, StatusFits
  <2>5. ASSUME ~IsWorking', status' = "working"
        PROVE  \E f \in Turns : TellsIdle(f)'
    <3>1. (router.announces = "ended" /\ router.owing) \/ \E f \in Turns : TellsIdle(f)
      BY <1>2, <2>1, <2>2, <2>5 DEF StatusInv, StatusFits, IsWorking
    <3>2. CASE router.announces = "ended" /\ router.owing
      <4>1. PICK u \in Turns : u # lock /\ stage'[u] = "new"
        BY <1>1, <2>1, <3>2, NamesDiffer
      <4>2. TellsIdle(u)'
        BY <1>2, <4>1 DEF TellsIdle
      <4> QED  BY <4>1, <4>2
    <3>3. ASSUME ~(router.announces = "ended" /\ router.owing), NEW f \in Turns, TellsIdle(f)
          PROVE  TellsIdle(f)'
      <4>1. stage'[f] = stage[f]
        BY <1>1, <2>1, <3>3
      <4> QED  BY <1>2, <3>3, <4>1 DEF TellsIdle
    <3> QED  BY <3>1, <3>2, <3>3
  <2>6. StatusFits'
    BY <2>3, <2>4, <2>5 DEF StatusFits
  <2> QED  BY <1>3, <2>6 DEF StatusInv
<1>7. AnnounceStarted \/ ((AnnounceEnded \/ AnnounceExited) /\ router.idle)
          => status' = Current /\ UNCHANGED bot
  BY DEF AnnounceStarted, AnnounceEnded, AnnounceExited, rowVars
<1> QED  BY <1>4, <1>5, <1>6, <1>7

\* The grants change, another Bot's turn is counted, or nothing happens.
LEMMA OthersFit ==
    ASSUME IInv, StatusInv, ChangeGrants \/ OtherTurn \/ UNCHANGED vars
    PROVE  StatusInv'
<1>1. bot \in BotType
  BY Types DEF IInv
<1>2. /\ UNCHANGED <<lock, work, stage, live, router, status, stream, turns>>
      /\ bot'.thread = bot.thread /\ bot'.refused = bot.refused
  BY <1>1 DEF ChangeGrants, OtherTurn, vars, taskVars, rowVars, codexVars, BotType
<1>3. \A f \in Turns : TellsIdle(f) => TellsIdle(f)'
  BY <1>2 DEF TellsIdle
<1> QED  BY <1>2, <1>3, StatusStays, SeenStays DEF StatusInv

-----------------------------------------------------------------------------
\* Every step keeps it, unless the app server stops just as a turn is recorded
\* or the gateway restarts.
LEMMA StatusStepKeeps == IInv /\ StatusInv /\ [Next]_vars => StatusInv'
<1> SUFFICES ASSUME IInv, StatusInv, [Next]_vars
             PROVE  StatusInv'
  OBVIOUS
<1>1. ASSUME NEW t \in Tasks, Finish(t)
      PROVE  StatusInv'
  BY <1>1, GoesOnFits, FailsFits, BeginsFits, TurnRecordedFits, AnnounceWorkingFits DEF Finish
<1>2. ASSUME NEW m \in Messages, Message(m)
      PROVE  StatusInv'
  <2>1. m \in Tasks
    BY NamesDiffer
  <2>2. CASE Finish(m)
    BY <1>1, <2>1, <2>2
  <2>3. CASE Send(m) \/ SendRefused(m)
    BY <2>3, TakesFits
  <2>4. CASE Steer(m) \/ SteerLost(m)
    BY <2>4, SteerFits
  <2>5. CASE SteerMisses(m) \/ SteerFails(m)
    BY <2>1, <2>5, GoesOnFits, FailsFits DEF SteerFails
  <2> QED  BY <1>2, <2>2, <2>3, <2>4, <2>5 DEF Message
<1>3. ASSUME NEW r \in Runs, Routine(r)
      PROVE  StatusInv'
  <2>1. r \in Tasks
    BY NamesDiffer
  <2>2. CASE Finish(r)
    BY <1>1, <2>1, <2>2
  <2>3. CASE StartRoutine(r) \/ RunRefused(r)
    BY <2>3, TakesFits
  <2>4. CASE RunWaits(r) \/ MarkFails(r)
    BY <2>1, <2>4, FailsFits
  <2>5. CASE Mark(r)
    BY <2>5, MarkFits
  <2> QED  BY <1>3, <2>2, <2>3, <2>4, <2>5 DEF Routine
<1>4. ASSUME NEW f \in Turns, FollowUp(f)
      PROVE  StatusInv'
  BY <1>1, <1>4, NamesDiffer, FollowUpFits DEF FollowUp
<1>5. CASE Route
  BY <1>5, TurnStartedFits, WordFits, TurnCompletedFits, LastReportFits, AnnouncesFits DEF Route
<1>6. CASE Codex
  BY <1>6, CodexReportsFits DEF Codex
<1>7. CASE StopRecorded \/ Violation
  BY <1>7, StopsFit DEF Violation
<1>8. CASE ChangeGrants \/ OtherTurn \/ UNCHANGED vars
  BY <1>8, OthersFit
<1> QED  BY <1>2, <1>3, <1>4, <1>5, <1>6, <1>7, <1>8 DEF Next, Gateway

\* The Bot is idle and says so.
LEMMA StatusInit == Init => StatusInv
<1> SUFFICES ASSUME Init
             PROVE  StatusInv
  OBVIOUS
<1>1. /\ work = NoWork /\ live = NoLive /\ status = "idle" /\ router = AtRest /\ stream = <<>>
      /\ turns = <<>> /\ bot.refused = FALSE
  BY DEF Init
<1>2. 1..Len(turns) = {} /\ 1..Len(stream) = {}
  BY <1>1
<1>3. StatusFits
  BY <1>1 DEF StatusFits, NoLive
<1>4. SeenFits
  BY <1>1, <1>2 DEF SeenFits, StartsOnce, ThreadsInOrder, StartIsSeen, RepliesOnTurn, NoWork
<1> QED  BY <1>3, <1>4 DEF StatusInv

\* Once everything is handled, the status announced last is that of the Bot.
LEMMA StatusFollows == IInv /\ StatusInv => StatusCurrent
<1> SUFFICES ASSUME IInv, StatusInv, Settled
             PROVE  status = Current
  BY DEF StatusCurrent
<1>1. /\ router = AtRest /\ lock = NoOne /\ \A f \in Turns : stage[f] \in {"unborn", "done"}
  BY DEF Settled
<1>2. /\ work.step = "none" /\ live.owed = {} /\ ~Announced
      /\ ~(router.announces = "ended") /\ \A f \in Turns : ~TellsIdle(f)
  BY <1>1 DEF IInv, WorkFits, OwedFits, AtRest, Announced, TellsIdle
<1>3. status \in {"idle", "working", "refused"}
  BY Types DEF IInv
<1>4. /\ status = "refused" <=> bot.refused
      /\ IsWorking => status # "idle"
      /\ ~IsWorking => status # "working"
  BY <1>2 DEF StatusInv, StatusFits, IsWorking
<1> QED  BY <1>3, <1>4 DEF Current

\* "The latest status event of a Bot is always its current status", once those
\* who changed it have announced it, unless the app server stops just as a turn
\* is being recorded (`announce_working`, `handle`, `answer_owed`).
THEOREM StatusIsCurrent == Spec => []StatusCurrent
<1>1. Init => IInv /\ StatusInv
  BY InitHolds, StatusInit
<1>2. (IInv /\ StatusInv) /\ [Next]_vars => (IInv /\ StatusInv)'
  <2>1. [Next]_vars => [RestartNext]_vars
    BY DEF RestartNext
  <2> QED  BY <2>1, StepKeeps, StatusStepKeeps
<1>3. IInv /\ StatusInv => StatusCurrent
  BY StatusFollows
<1> QED  BY <1>1, <1>2, <1>3, PTL DEF Spec

=============================================================================
