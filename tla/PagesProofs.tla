---------------------------- MODULE PagesProofs -----------------------------
(*****************************************************************************)
(* What a page guarantees besides its connection, one part after the other,  *)
(* for any values of their constants: the commands it sends, the screen for  *)
(* the household's sign-in to Codex, and the switch for notifications.  Each *)
(* part has an inductive invariant of its own; the last section says what    *)
(* follows of MCPages.                                                       *)
(*****************************************************************************)
EXTENDS MCPages, SequencesExt, FiniteSetTheorems, TLAPS

-----------------------------------------------------------------------------
(* The commands a member sends *)

\* The variables of Commands, by their names.
open == x1
drafts == x2
newBot == x3
cmdInFlight == x4
cmdTaken == x5
cmdUsed == x6
cmdHistory == x7
USE DEF open, drafts, newBot, cmdInFlight, cmdTaken, cmdUsed, cmdHistory

\* The operators of the library are the same in the instance.
LEMMA CmdLibrary ==
    /\ \A S : Cmd!Cardinality(S) = Cardinality(S)
BY DEF Cmd!Cardinality, Cardinality

\* The value for "no Bot" is no Bot's.
CmdConstants == Cmd!NoBot \notin Bots

\* The profile's editor.
CmdEditors == [shown : BOOLEAN, text : Nat, busy : BOOLEAN]
\* The conversation that is open, with what was typed in it.
CmdConversations == [bot : Bots \cup {Cmd!NoBot}, draft : Nat, sending : BOOLEAN, stopping : BOOLEAN,
                     updating : BOOLEAN, editor : CmdEditors, failed : BOOLEAN]
\* The requests and their answers.
CmdRequests == [id : Nat, kind : {"send", "stop", "pin", "save", "create"}, bot : Bots \cup {Cmd!NoBot},
                text : Nat, answer : {"none", "ok", "error"}]

\* What is remembered of the texts.
CmdHistories == [dropped : SUBSET Nat, given : SUBSET Nat, left : SUBSET Nat, mistaken : SUBSET Nat,
                 unsure : SUBSET Nat, refused : SUBSET Nat]

\* The page, the requests and what the gateway took.
CmdTypes ==
    /\ open \in CmdConversations
    /\ drafts \in [Bots -> Nat]
    /\ newBot \in [name : Nat, busy : BOOLEAN]
    /\ cmdInFlight \subseteq CmdRequests
    /\ cmdTaken \subseteq Nat \X Nat /\ IsFiniteSet(cmdTaken)
    /\ cmdUsed \in [texts : Nat, requests : Nat, pins : Nat, opens : Nat, faults : Nat]
    /\ cmdHistory \in CmdHistories

\* The texts that need not be kept: those the user replaced, an agent's, those left as they
\* were sent or saved, and those that the answer to another request settled.
CmdOut == cmdHistory.dropped \cup cmdHistory.given \cup cmdHistory.left \cup cmdHistory.mistaken

\* A text that the user has before them is in one place, and a conversation
\* that is open has its draft.
CmdPlaces ==
    /\ open.bot = Cmd!NoBot => open = Cmd!Closed
    /\ \A b \in Bots : b = open.bot => drafts[b] = Cmd!NoText
    /\ Cmd!NoText \in cmdHistory.mistaken
    /\ open.draft =< cmdUsed.texts /\ open.editor.text =< cmdUsed.texts /\ newBot.name =< cmdUsed.texts
    /\ \A b \in Bots : drafts[b] =< cmdUsed.texts
    /\ open.draft # Cmd!NoText => /\ open.draft # open.editor.text /\ open.draft # newBot.name
                                  /\ \A b \in Bots : drafts[b] # open.draft
    /\ open.editor.text # Cmd!NoText => /\ open.editor.text # newBot.name
                                        /\ \A b \in Bots : drafts[b] # open.editor.text
    /\ newBot.name # Cmd!NoText => \A b \in Bots : drafts[b] # newBot.name
    /\ \A b, c \in Bots : drafts[b] # Cmd!NoText /\ drafts[b] = drafts[c] => b = c

\* What is on its way is still where it was sent from, or is one of those that need not be
\* kept, and nowhere.
CmdFits(r) ==
    /\ r.id =< cmdUsed.requests /\ r.text =< cmdUsed.texts
    /\ r.kind \in {"stop", "pin"} => r.text = Cmd!NoText
    /\ r.kind = "create" => newBot.busy /\ newBot.name = r.text
    /\ r.kind = "send" /\ r.text \notin cmdHistory.mistaken
           => \/ r.bot = open.bot /\ open.sending /\ open.draft = r.text
              \/ r.text \in CmdOut /\ ~Cmd!Shown(r.text)
    /\ r.kind = "save" /\ r.text \notin cmdHistory.mistaken
           => \/ r.bot = open.bot /\ open.editor.busy /\ open.editor.text = r.text
              \/ r.text \in CmdOut /\ ~Cmd!Shown(r.text)
    /\ r.answer = "ok" => <<r.id, r.text>> \in cmdTaken

CmdSent == \A r \in cmdInFlight : CmdFits(r)

\* A request is told from the others by its number, and a text is on its way once at most.
CmdApart ==
    \A r, q \in cmdInFlight :
        /\ r.id = q.id => r = q
        /\ r.kind = "create" /\ q.kind = "create" => r = q
        /\ r.text = q.text /\ r.text \notin cmdHistory.mistaken => r = q

\* What was taken is no longer before the user once that is answered.
CmdTaken ==
    \A p \in cmdTaken :
        /\ p[2] =< cmdUsed.texts
        /\ p[2] \notin cmdHistory.mistaken \cup cmdHistory.unsure
               => \/ \E r \in cmdInFlight : r.text = p[2] /\ r.answer = "ok"
                  \/ ~Cmd!Shown(p[2]) /\ \A r \in cmdInFlight : r.text # p[2]
        /\ \A s \in cmdTaken : s[2] = p[2] /\ p[2] \notin cmdHistory.mistaken \cup cmdHistory.unsure => s = p

\* Every text typed that must be kept is shown, on its way or taken.
CmdKept ==
    \A t \in 1..cmdUsed.texts :
        t \notin CmdOut => Cmd!Shown(t) \/ (\E r \in cmdInFlight : r.text = t) \/ (\E p \in cmdTaken : p[2] = t)

\* All that the page awaits is on its way.
CmdAwaited ==
    /\ open.sending => \E r \in cmdInFlight : r.kind = "send" /\ r.bot = open.bot
    /\ open.stopping => \E r \in cmdInFlight : r.kind = "stop" /\ r.bot = open.bot
    /\ open.updating \/ open.editor.busy
           => \E r \in cmdInFlight : r.kind \in {"pin", "save"} /\ r.bot = open.bot
    /\ open.updating /\ open.editor.busy
           => \E r, q \in cmdInFlight : /\ r # q /\ r.kind \in {"pin", "save"} /\ q.kind \in {"pin", "save"}
                                        /\ r.bot = open.bot /\ q.bot = open.bot
    /\ newBot.busy => \E r \in cmdInFlight : r.kind = "create"

\* The inductive invariant: that a text is kept needs that a request's outcome finds the
\* text it was sent with where it was sent from, or that it need not be kept.
CmdInv == CmdTypes /\ CmdPlaces /\ CmdSent /\ CmdApart /\ CmdTaken /\ CmdKept /\ CmdAwaited

\* A page that was just launched.
LEMMA CmdInit ==
    ASSUME CmdConstants, Cmd!Init
    PROVE  CmdInv
<1>1. /\ open = Cmd!Closed /\ Cmd!Closed \in CmdConversations /\ Cmd!Closed.bot = Cmd!NoBot
      /\ Cmd!Closed.draft = Cmd!NoText
      /\ ~Cmd!Closed.sending /\ ~Cmd!Closed.stopping /\ ~Cmd!Closed.updating
      /\ Cmd!Closed.editor.text = Cmd!NoText /\ ~Cmd!Closed.editor.busy
    BY DEF Cmd!Init, Cmd!Closed, CmdConversations, CmdEditors, Cmd!NoEditor, Cmd!NoText, Cmd!NoBot
<1>2. /\ drafts = [b \in Bots |-> Cmd!NoText] /\ newBot = [name |-> Cmd!NoText, busy |-> FALSE]
      /\ cmdInFlight = {} /\ cmdTaken = {} /\ cmdUsed.texts = 0
    BY DEF Cmd!Init
<1>3. /\ cmdUsed \in [texts : Nat, requests : Nat, pins : Nat, opens : Nat, faults : Nat]
      /\ cmdHistory \in CmdHistories
      /\ Cmd!NoText \in cmdHistory.mistaken
    BY DEF Cmd!Init, Cmd!NoText, CmdHistories
<1>4. Cmd!NoText \in Nat /\ Cmd!NoText = 0 /\ Cmd!NoBot \notin Bots
    BY DEF Cmd!NoText, CmdConstants
<1>5. CmdTypes
    BY <1>1, <1>2, <1>3, <1>4, FS_EmptySet DEF CmdTypes
<1>6. CmdPlaces
    BY <1>1, <1>2, <1>3, <1>4 DEF CmdPlaces
<1>7. CmdSent /\ CmdApart /\ CmdTaken /\ CmdKept
    BY <1>2 DEF CmdSent, CmdApart, CmdTaken, CmdKept
<1>8. CmdAwaited
    BY <1>1, <1>2 DEF CmdAwaited
<1> QED BY <1>5, <1>6, <1>7, <1>8 DEF CmdInv

\* The invariant says that the commands are kept.
LEMMA CmdSays ==
    ASSUME CmdInv
    PROVE  Cmd!CommandsKept
<1>1. ASSUME NEW t \in Nat
      PROVE  /\ {p \in cmdTaken : p[2] = t} \subseteq cmdTaken
             /\ IsFiniteSet({p \in cmdTaken : p[2] = t})
    <2>1. IsFiniteSet(cmdTaken)
        BY DEF CmdInv, CmdTypes
    <2> QED BY <2>1, FS_Subset
<1>2. ASSUME NEW t \in Nat, NEW p \in cmdTaken, p[2] = t
      PROVE  Cmd!Takes(t) > 0
    <2> DEFINE S == {s \in cmdTaken : s[2] = t}
    <2>1. IsFiniteSet(S) /\ S # {}
        BY <1>1, <1>2
    <2> HIDE DEF S
    <2>2. Cardinality(S) \in Nat /\ Cardinality(S) # 0
        BY <2>1, FS_EmptySet, FS_CardinalityType
    <2>3. Cardinality(S) > 0
        BY <2>2
    <2> QED BY <2>3, CmdLibrary DEF Cmd!Takes, S
<1>3. Cmd!NothingLost
    <2> SUFFICES ASSUME NEW t \in Cmd!Texts \ CmdOut
                 PROVE  Cmd!Shown(t) \/ Cmd!OnItsWay(t) \/ Cmd!Takes(t) > 0
        BY DEF Cmd!NothingLost, CmdOut
    <2>1. t \in 1..cmdUsed.texts /\ t \in Nat /\ t \notin CmdOut
        BY DEF Cmd!Texts, CmdInv, CmdTypes
    <2>2. Cmd!Shown(t) \/ (\E r \in cmdInFlight : r.text = t) \/ (\E p \in cmdTaken : p[2] = t)
        BY <2>1 DEF CmdInv, CmdKept
    <2> QED BY <1>2, <2>1, <2>2 DEF Cmd!OnItsWay
<1>4. Cmd!NothingTwice
    <2> SUFFICES ASSUME NEW t \in Cmd!Texts \ (cmdHistory.unsure \cup cmdHistory.mistaken)
                 PROVE  Cmd!Takes(t) =< 1
        BY DEF Cmd!NothingTwice
    <2> DEFINE S == {s \in cmdTaken : s[2] = t}
    <2>1. \A p, s \in S : p = s
        BY DEF CmdInv, CmdTaken
    <2> HIDE DEF S
    <2>2. CASE S = {}
        BY <2>2, FS_EmptySet, CmdLibrary DEF Cmd!Takes, S
    <2>3. CASE S # {}
        <3>1. PICK p \in S : TRUE
            BY <2>3
        <3>2. S = {p}
            BY <2>1, <3>1
        <3>3. Cardinality(S) = 1
            BY <3>2, FS_Singleton
        <3> QED BY <3>3, CmdLibrary DEF Cmd!Takes, S
    <2> QED BY <2>2, <2>3
<1>5. Cmd!NoneStuck
    BY DEF Cmd!NoneStuck, CmdInv, CmdAwaited, CmdTypes, CmdConversations, CmdEditors
<1> QED BY <1>3, <1>4, <1>5 DEF Cmd!CommandsKept

\* A step that sends and answers nothing, and drops what it no longer shows.
LEMMA CmdStays ==
    ASSUME CmdInv, UNCHANGED <<cmdInFlight, cmdTaken>>, cmdHistory'.unsure = cmdHistory.unsure,
           cmdHistory.mistaken \subseteq cmdHistory'.mistaken, CmdOut \subseteq CmdOut',
           cmdUsed'.texts >= cmdUsed.texts, cmdUsed'.texts \in Nat,
           \A t \in Nat : t =< cmdUsed.texts /\ t \notin cmdHistory'.mistaken /\ Cmd!Shown(t)' => Cmd!Shown(t),
           \A t \in 1..cmdUsed'.texts :
               t \notin CmdOut' /\ (Cmd!Shown(t) \/ t > cmdUsed.texts)
                   => Cmd!Shown(t)'
    PROVE  CmdApart' /\ CmdTaken' /\ CmdKept'
<1>1. CmdApart'
    BY DEF CmdInv, CmdApart
<1>2. cmdUsed.texts \in Nat /\ cmdTaken \subseteq Nat \X Nat /\ cmdInFlight \subseteq CmdRequests
    BY DEF CmdInv, CmdTypes
<1>3. CmdTaken'
    <2> SUFFICES ASSUME NEW p \in cmdTaken
                 PROVE  /\ p[2] =< cmdUsed'.texts
                        /\ p[2] \notin cmdHistory'.mistaken \cup cmdHistory'.unsure
                               => \/ \E r \in cmdInFlight : r.text = p[2] /\ r.answer = "ok"
                                  \/ ~Cmd!Shown(p[2])' /\ \A r \in cmdInFlight : r.text # p[2]
                        /\ \A s \in cmdTaken : s[2] = p[2] /\ p[2] \notin cmdHistory'.mistaken \cup cmdHistory'.unsure
                               => s = p
        BY DEF CmdTaken
    <2>1. PICK t \in Nat : t = p[2]
        BY <1>2
    <2>2. t =< cmdUsed.texts
        BY <2>1 DEF CmdInv, CmdTaken
    <2>3. t \notin cmdHistory'.mistaken /\ Cmd!Shown(t)' => Cmd!Shown(t)
        BY <2>2
    <2>4. t \notin cmdHistory.mistaken \cup cmdHistory.unsure
              => \/ \E r \in cmdInFlight : r.text = t /\ r.answer = "ok"
                 \/ ~Cmd!Shown(t) /\ \A r \in cmdInFlight : r.text # t
        BY <2>1 DEF CmdInv, CmdTaken
    <2>5. \A s \in cmdTaken : s[2] = p[2] /\ p[2] \notin cmdHistory.mistaken \cup cmdHistory.unsure => s = p
        BY DEF CmdInv, CmdTaken
    <2>6. t =< cmdUsed'.texts
        BY <1>2, <2>2
    <2>7. ~Cmd!Shown(t)' => ~Cmd!Shown(p[2])'
        BY <2>1, p' = p DEF Cmd!Shown
    <2> QED BY <2>1, <2>3, <2>4, <2>5, <2>6, <2>7
<1>4. CmdKept'
    <2> SUFFICES ASSUME NEW t \in 1..cmdUsed'.texts, t \notin CmdOut'
                 PROVE  Cmd!Shown(t)' \/ (\E r \in cmdInFlight : r.text = t) \/ (\E p \in cmdTaken : p[2] = t)
        BY DEF CmdKept
    <2>1. CASE t > cmdUsed.texts
        BY <2>1
    <2>2. CASE t =< cmdUsed.texts
        <3>1. t \in 1..cmdUsed.texts /\ t \notin CmdOut
            BY <1>2, <2>2
        <3>2. Cmd!Shown(t) \/ (\E r \in cmdInFlight : r.text = t) \/ (\E p \in cmdTaken : p[2] = t)
            BY <3>1 DEF CmdInv, CmdKept
        <3> QED BY <3>2
    <2> QED BY <1>2, <2>1, <2>2
<1> QED BY <1>1, <1>3, <1>4

\* The drafts once a conversation closes.
LEMMA CmdKeeps ==
    ASSUME CmdConstants, CmdInv
    PROVE  /\ Cmd!Kept \in [Bots -> Nat]
           /\ \A b \in Bots : Cmd!Kept[b] = IF b = open.bot /\ ~open.sending THEN open.draft ELSE drafts[b]
<1>1. open.draft \in Nat /\ drafts \in [Bots -> Nat] /\ open.bot \in Bots \cup {Cmd!NoBot}
    BY DEF CmdInv, CmdTypes, CmdConversations
<1>2. \A b \in Bots : b = open.bot => drafts[b] = Cmd!NoText
    BY DEF CmdInv, CmdPlaces
<1> QED BY <1>1, <1>2 DEF Cmd!Kept, CmdConstants

\* What leaving a conversation does to the texts in it.
LEMMA CmdLeaves ==
    ASSUME CmdConstants, CmdInv, Cmd!LeavesOpen
    PROVE  /\ cmdHistory' \in CmdHistories
           /\ cmdHistory'.unsure = cmdHistory.unsure /\ cmdHistory'.mistaken = cmdHistory.mistaken
           /\ CmdOut \subseteq CmdOut'
           /\ open.sending => open.draft \in CmdOut'
           /\ open.editor.text \in CmdOut'
<1>1. open.draft \in Nat /\ open.editor.text \in Nat /\ cmdHistory \in CmdHistories
    BY DEF CmdInv, CmdTypes, CmdConversations, CmdEditors
<1>2. Cmd!SentWhenClosed \in SUBSET Nat /\ Cmd!Unsaved \in SUBSET Nat
    BY <1>1 DEF Cmd!SentWhenClosed, Cmd!Unsaved
<1>3. /\ open.sending => open.draft \in Cmd!SentWhenClosed
      /\ open.editor.text \in Cmd!SentWhenClosed \cup Cmd!Unsaved
    BY DEF Cmd!SentWhenClosed, Cmd!Unsaved
<1>4. cmdHistory' = [cmdHistory EXCEPT !.left = @ \cup Cmd!SentWhenClosed, !.dropped = @ \cup Cmd!Unsaved]
    BY DEF Cmd!LeavesOpen
<1>5. /\ cmdHistory'.left = cmdHistory.left \cup Cmd!SentWhenClosed
      /\ cmdHistory'.dropped = cmdHistory.dropped \cup Cmd!Unsaved /\ cmdHistory'.unsure = cmdHistory.unsure
      /\ cmdHistory'.mistaken = cmdHistory.mistaken /\ cmdHistory'.given = cmdHistory.given
      /\ cmdHistory' \in CmdHistories
    BY <1>1, <1>2, <1>4 DEF CmdHistories
<1> QED BY <1>3, <1>5 DEF CmdOut

\* A request under way stays with its text, or the text is nowhere and need not be kept.
LEMMA CmdFitsStill ==
    ASSUME CmdInv, NEW q \in cmdInFlight, cmdTaken \subseteq cmdTaken',
           cmdHistory.mistaken \subseteq cmdHistory'.mistaken, CmdOut \subseteq CmdOut',
           cmdUsed'.requests \in Nat, cmdUsed'.requests >= cmdUsed.requests,
           cmdUsed'.texts \in Nat, cmdUsed'.texts >= cmdUsed.texts,
           newBot.busy => newBot'.busy /\ newBot'.name = newBot.name,
           open.sending => \/ open'.bot = open.bot /\ open'.sending /\ open'.draft = open.draft
                           \/ /\ open.draft \in CmdOut'
                              /\ \A t \in Nat : t = open.draft => t \in cmdHistory'.mistaken \/ ~Cmd!Shown(t)',
           open.editor.busy => \/ /\ open'.bot = open.bot /\ open'.editor.busy
                                  /\ open'.editor.text = open.editor.text
                               \/ /\ open.editor.text \in CmdOut'
                                  /\ \A t \in Nat : t = open.editor.text =>
                                         t \in cmdHistory'.mistaken \/ ~Cmd!Shown(t)',
           \A t \in Nat : t =< cmdUsed.texts /\ t \notin cmdHistory'.mistaken /\ Cmd!Shown(t)' => Cmd!Shown(t)
    PROVE  CmdFits(q)'
<1>1. q \in CmdRequests /\ cmdUsed.texts \in Nat /\ cmdUsed.requests \in Nat /\ CmdFits(q)
    BY DEF CmdInv, CmdTypes, CmdSent
<1>2. PICK t \in Nat : t = q.text
    BY <1>1 DEF CmdRequests
<1>3. t =< cmdUsed.texts /\ t =< cmdUsed'.texts /\ q.id =< cmdUsed'.requests
    <2>1. t =< cmdUsed.texts /\ q.id =< cmdUsed.requests /\ q.id \in Nat
        BY <1>1, <1>2 DEF CmdFits, CmdRequests
    <2> QED BY <1>1, <2>1
<1>4. ASSUME q.kind = "save", t \notin cmdHistory'.mistaken
      PROVE  \/ q.bot = open'.bot /\ open'.editor.busy /\ open'.editor.text = t
             \/ t \in CmdOut' /\ ~Cmd!Shown(t)'
    <2>1. CASE q.bot = open.bot /\ open.editor.busy /\ open.editor.text = t
        BY <1>4, <2>1
    <2>2. CASE t \in CmdOut /\ ~Cmd!Shown(t)
        BY <1>3, <1>4, <2>2
    <2>3. ~Cmd!Shown(q.text) => ~Cmd!Shown(t)
        BY <1>2
    <2> QED BY <1>1, <1>2, <1>4, <2>1, <2>2, <2>3 DEF CmdFits
<1>5. ASSUME q.kind = "send", t \notin cmdHistory'.mistaken
      PROVE  \/ q.bot = open'.bot /\ open'.sending /\ open'.draft = t
             \/ t \in CmdOut' /\ ~Cmd!Shown(t)'
    <2>1. CASE q.bot = open.bot /\ open.sending /\ open.draft = t
        BY <1>5, <2>1
    <2>2. CASE t \in CmdOut /\ ~Cmd!Shown(t)
        BY <1>3, <1>5, <2>2
    <2>3. ~Cmd!Shown(q.text) => ~Cmd!Shown(t)
        BY <1>2
    <2> QED BY <1>1, <1>2, <1>5, <2>1, <2>2, <2>3 DEF CmdFits
<1>6. ~Cmd!Shown(t)' => ~Cmd!Shown(q.text)'
    BY <1>2, q' = q DEF Cmd!Shown
<1>7. /\ q.kind = "create" => newBot'.busy /\ newBot'.name = q.text
      /\ q.kind \in {"stop", "pin"} => q.text = Cmd!NoText
      /\ q.answer = "ok" => <<q.id, q.text>> \in cmdTaken'
    BY <1>1 DEF CmdFits
<1> QED BY <1>2, <1>3, <1>4, <1>5, <1>6, <1>7 DEF CmdFits

\* A conversation is opened.
LEMMA CmdOpens ==
    ASSUME CmdConstants, CmdInv, NEW b \in Bots, Cmd!OpenConversation(b)
    PROVE  CmdInv'
<1>1. /\ open.bot # b /\ UNCHANGED <<newBot, cmdInFlight, cmdTaken>> /\ Cmd!LeavesOpen
      /\ open' = [Cmd!Closed EXCEPT !.bot = b, !.draft = Cmd!Kept[b]]
      /\ drafts' = [Cmd!Kept EXCEPT ![b] = Cmd!NoText]
      /\ cmdUsed' = [cmdUsed EXCEPT !.opens = @ + 1]
    BY DEF Cmd!OpenConversation
<1>2. /\ open'.bot = b /\ open'.draft = Cmd!Kept[b] /\ open'.editor = Cmd!NoEditor
      /\ open'.editor.text = Cmd!NoText /\ ~open'.editor.busy
      /\ ~open'.sending /\ ~open'.stopping /\ ~open'.updating
    BY <1>1 DEF Cmd!Closed, Cmd!NoEditor
<1>3. /\ cmdUsed \in [texts : Nat, requests : Nat, pins : Nat, opens : Nat, faults : Nat]
      /\ cmdUsed' \in [texts : Nat, requests : Nat, pins : Nat, opens : Nat, faults : Nat]
      /\ cmdUsed'.texts = cmdUsed.texts /\ cmdUsed'.requests = cmdUsed.requests
    BY <1>1 DEF CmdInv, CmdTypes
<1>4. Cmd!Kept \in [Bots -> Nat] /\ Cmd!NoText \in Nat
    BY CmdKeeps DEF Cmd!NoText
<1>5. open' \in CmdConversations
    BY <1>1, <1>4 DEF Cmd!Closed, CmdConversations, CmdEditors, Cmd!NoEditor
<1>6. drafts' \in [Bots -> Nat]
    BY <1>1, <1>4
<1>7. CmdTypes'
    BY <1>1, <1>3, <1>5, <1>6, CmdLeaves DEF CmdInv, CmdTypes
<1>8. \A c \in Bots : drafts'[c] = IF c = b THEN Cmd!NoText ELSE Cmd!Kept[c]
    BY <1>1, <1>4
<1>9. \A c \in Bots : Cmd!Kept[c] = IF c = open.bot /\ ~open.sending THEN open.draft ELSE drafts[c]
    BY CmdKeeps
<1>10. CmdPlaces'
    <2>1. /\ \A c \in Bots : Cmd!Kept[c] =< cmdUsed.texts
          /\ newBot.name # Cmd!NoText => \A c \in Bots : Cmd!Kept[c] # newBot.name
          /\ \A c, d \in Bots : Cmd!Kept[c] # Cmd!NoText /\ Cmd!Kept[c] = Cmd!Kept[d] => c = d
        BY <1>9 DEF CmdInv, CmdPlaces
    <2>2. Cmd!NoText =< cmdUsed.texts /\ open'.bot # Cmd!NoBot
        BY <1>2, <1>3 DEF Cmd!NoText, CmdConstants
    <2> QED BY <1>1, <1>2, <1>3, <1>8, <2>1, <2>2, CmdLeaves DEF CmdInv, CmdPlaces
<1>11. \A t \in Nat : t \notin cmdHistory'.mistaken /\ Cmd!Shown(t)' => Cmd!Shown(t)
    <2>1. Cmd!NoText \in cmdHistory'.mistaken
        BY <1>10 DEF CmdPlaces
    <2> QED BY <1>1, <1>2, <1>8, <1>9, <2>1 DEF Cmd!Shown
<1>12. CmdSent'
    <2>1. ASSUME open.sending, NEW t \in Nat, t = open.draft, t \notin cmdHistory'.mistaken
          PROVE  ~Cmd!Shown(t)'
        <3>1. t # Cmd!NoText
            BY <1>10, <2>1 DEF CmdPlaces
        <3>2. /\ t # open.editor.text /\ t # newBot.name
              /\ \A c \in Bots : Cmd!Kept[c] # t
            BY <1>9, <2>1, <3>1 DEF CmdInv, CmdPlaces
        <3> QED BY <1>1, <1>2, <1>8, <3>1, <3>2 DEF Cmd!Shown
    <2>2. ASSUME NEW t \in Nat, t = open.editor.text, t \notin cmdHistory'.mistaken
          PROVE  ~Cmd!Shown(t)'
        <3>1. t # Cmd!NoText
            BY <1>10, <2>2 DEF CmdPlaces
        <3>2. /\ t # open.draft /\ t # newBot.name
              /\ \A c \in Bots : Cmd!Kept[c] # t
            BY <1>9, <2>2, <3>1 DEF CmdInv, CmdPlaces
        <3> QED BY <1>1, <1>2, <1>8, <3>1, <3>2 DEF Cmd!Shown
    <2>3. /\ cmdUsed'.requests \in Nat /\ cmdUsed'.requests >= cmdUsed.requests
          /\ cmdUsed'.texts \in Nat /\ cmdUsed'.texts >= cmdUsed.texts
        BY <1>3
    <2>4. \A q \in cmdInFlight : CmdFits(q)'
        BY <1>1, <1>11, <2>1, <2>2, <2>3, CmdLeaves, CmdFitsStill
    <2> QED BY <1>1, <2>4 DEF CmdSent
<1>13. \A t \in 1..cmdUsed'.texts :
           t \notin CmdOut' /\ (Cmd!Shown(t) \/ t > cmdUsed.texts)
               => Cmd!Shown(t)'
    <2> SUFFICES ASSUME NEW t \in 1..cmdUsed'.texts, t \notin CmdOut',
                        Cmd!Shown(t)
                 PROVE  Cmd!Shown(t)'
        BY <1>3
    <2>1. Cmd!NoText \in CmdOut'
        BY <1>10 DEF CmdPlaces, CmdOut
    <2>2. CASE t = open.draft
        <3>1. open.bot \in Bots
            BY <2>1, <2>2 DEF CmdInv, CmdPlaces, CmdTypes, CmdConversations, Cmd!Closed
        <3>2. Cmd!Kept[open.bot] = t
            BY <1>1, <1>9, <2>2, <3>1, CmdLeaves
        <3> QED BY <1>1, <1>2, <1>8, <3>1, <3>2 DEF Cmd!Shown
    <2>3. CASE t = open.editor.text
        BY <1>1, <2>3, CmdLeaves
    <2>4. CASE t = newBot.name
        BY <1>1, <2>4 DEF Cmd!Shown
    <2>5. ASSUME NEW c \in Bots, drafts[c] = t PROVE Cmd!Shown(t)'
        <3>1. Cmd!Kept[c] = t
            BY <1>9, <2>1, <2>5 DEF CmdInv, CmdPlaces
        <3> QED BY <1>2, <1>8, <3>1 DEF Cmd!Shown
    <2> QED BY <2>2, <2>3, <2>4, <2>5 DEF Cmd!Shown
<1>14. CmdApart' /\ CmdTaken' /\ CmdKept'
    BY <1>1, <1>3, <1>11, <1>13, CmdLeaves, CmdStays
<1>15. CmdAwaited'
    BY <1>1, <1>2 DEF CmdInv, CmdAwaited
<1> QED BY <1>7, <1>10, <1>12, <1>14, <1>15 DEF CmdInv

\* Or left.
LEMMA CmdBack ==
    ASSUME CmdConstants, CmdInv, Cmd!Back
    PROVE  CmdInv'
<1>1. /\ UNCHANGED <<newBot, cmdInFlight, cmdTaken, cmdUsed>> /\ Cmd!LeavesOpen
      /\ open' = Cmd!Closed /\ drafts' = Cmd!Kept
    BY DEF Cmd!Back
<1>2. /\ open'.bot = Cmd!NoBot /\ open'.draft = Cmd!NoText
      /\ open'.editor.text = Cmd!NoText /\ ~open'.editor.busy
      /\ ~open'.sending /\ ~open'.stopping /\ ~open'.updating
    BY <1>1 DEF Cmd!Closed, Cmd!NoEditor
<1>3. /\ cmdUsed \in [texts : Nat, requests : Nat, pins : Nat, opens : Nat, faults : Nat]
      /\ cmdUsed'.texts = cmdUsed.texts /\ cmdUsed'.requests = cmdUsed.requests
    BY <1>1 DEF CmdInv, CmdTypes
<1>4. Cmd!Kept \in [Bots -> Nat] /\ Cmd!NoText \in Nat
    BY CmdKeeps DEF Cmd!NoText
<1>5. open' \in CmdConversations
    BY <1>1, <1>4 DEF Cmd!Closed, CmdConversations, CmdEditors, Cmd!NoEditor
<1>7. CmdTypes'
    BY <1>1, <1>4, <1>5, CmdLeaves DEF CmdInv, CmdTypes
<1>9. \A c \in Bots : Cmd!Kept[c] = IF c = open.bot /\ ~open.sending THEN open.draft ELSE drafts[c]
    BY CmdKeeps
<1>10. CmdPlaces'
    <2>1. /\ \A c \in Bots : Cmd!Kept[c] =< cmdUsed.texts
          /\ newBot.name # Cmd!NoText => \A c \in Bots : Cmd!Kept[c] # newBot.name
          /\ \A c, d \in Bots : Cmd!Kept[c] # Cmd!NoText /\ Cmd!Kept[c] = Cmd!Kept[d] => c = d
        BY <1>9 DEF CmdInv, CmdPlaces
    <2>2. Cmd!NoText =< cmdUsed.texts /\ Cmd!NoBot \notin Bots
        BY <1>3 DEF Cmd!NoText, CmdConstants
    <2> QED BY <1>1, <1>2, <1>3, <2>1, <2>2, CmdLeaves DEF CmdInv, CmdPlaces
<1>11. \A t \in Nat : t \notin cmdHistory'.mistaken /\ Cmd!Shown(t)' => Cmd!Shown(t)
    <2>1. Cmd!NoText \in cmdHistory'.mistaken
        BY <1>10 DEF CmdPlaces
    <2> QED BY <1>1, <1>2, <1>9, <2>1 DEF Cmd!Shown
<1>12. CmdSent'
    <2>1. ASSUME open.sending, NEW t \in Nat, t = open.draft, t \notin cmdHistory'.mistaken
          PROVE  ~Cmd!Shown(t)'
        <3>1. t # Cmd!NoText
            BY <1>10, <2>1 DEF CmdPlaces
        <3>2. /\ t # open.editor.text /\ t # newBot.name
              /\ \A c \in Bots : Cmd!Kept[c] # t
            BY <1>9, <2>1, <3>1 DEF CmdInv, CmdPlaces
        <3> QED BY <1>1, <1>2, <3>1, <3>2 DEF Cmd!Shown
    <2>2. ASSUME NEW t \in Nat, t = open.editor.text, t \notin cmdHistory'.mistaken
          PROVE  ~Cmd!Shown(t)'
        <3>1. t # Cmd!NoText
            BY <1>10, <2>2 DEF CmdPlaces
        <3>2. /\ t # open.draft /\ t # newBot.name
              /\ \A c \in Bots : Cmd!Kept[c] # t
            BY <1>9, <2>2, <3>1 DEF CmdInv, CmdPlaces
        <3> QED BY <1>1, <1>2, <3>1, <3>2 DEF Cmd!Shown
    <2>3. /\ cmdUsed'.requests \in Nat /\ cmdUsed'.requests >= cmdUsed.requests
          /\ cmdUsed'.texts \in Nat /\ cmdUsed'.texts >= cmdUsed.texts
        BY <1>3
    <2>4. \A q \in cmdInFlight : CmdFits(q)'
        BY <1>1, <1>11, <2>1, <2>2, <2>3, CmdLeaves, CmdFitsStill
    <2> QED BY <1>1, <2>4 DEF CmdSent
<1>13. \A t \in 1..cmdUsed'.texts :
           t \notin CmdOut' /\ (Cmd!Shown(t) \/ t > cmdUsed.texts)
               => Cmd!Shown(t)'
    <2> SUFFICES ASSUME NEW t \in 1..cmdUsed'.texts, t \notin CmdOut',
                        Cmd!Shown(t)
                 PROVE  Cmd!Shown(t)'
        BY <1>3
    <2>1. Cmd!NoText \in CmdOut'
        BY <1>10 DEF CmdPlaces, CmdOut
    <2>2. CASE t = open.draft
        <3>1. open.bot \in Bots
            BY <2>1, <2>2 DEF CmdInv, CmdPlaces, CmdTypes, CmdConversations, Cmd!Closed
        <3>2. Cmd!Kept[open.bot] = t
            BY <1>1, <1>9, <2>2, <3>1, CmdLeaves
        <3> QED BY <1>1, <3>1, <3>2 DEF Cmd!Shown
    <2>3. CASE t = open.editor.text
        BY <1>1, <2>3, CmdLeaves
    <2>4. CASE t = newBot.name
        BY <1>1, <2>4 DEF Cmd!Shown
    <2>5. ASSUME NEW c \in Bots, drafts[c] = t PROVE Cmd!Shown(t)'
        <3>1. Cmd!Kept[c] = t
            BY <1>9, <2>1, <2>5 DEF CmdInv, CmdPlaces
        <3> QED BY <1>1, <3>1 DEF Cmd!Shown
    <2> QED BY <2>2, <2>3, <2>4, <2>5 DEF Cmd!Shown
<1>14. CmdApart' /\ CmdTaken' /\ CmdKept'
    BY <1>1, <1>3, <1>11, <1>13, CmdLeaves, CmdStays
<1>15. CmdAwaited'
    BY <1>1, <1>2 DEF CmdInv, CmdAwaited
<1> QED BY <1>7, <1>10, <1>12, <1>14, <1>15 DEF CmdInv

\* A step of the page alone leaves what the requests under way rest on.
LEMMA CmdSentStays ==
    ASSUME CmdInv, UNCHANGED <<cmdInFlight, cmdTaken>>, cmdHistory'.mistaken = cmdHistory.mistaken,
           CmdOut \subseteq CmdOut',
           cmdUsed'.requests = cmdUsed.requests, cmdUsed'.texts >= cmdUsed.texts, cmdUsed'.texts \in Nat,
           open'.bot = open.bot, open'.sending = open.sending,
           open.sending => open'.draft = open.draft,
           open.editor.busy =>
               \/ open'.editor.busy /\ open'.editor.text = open.editor.text
               \/ /\ open.editor.text \in CmdOut'
                  /\ \A t \in Nat : t = open.editor.text => t \in cmdHistory'.mistaken \/ ~Cmd!Shown(t)',
           newBot.busy => newBot' = newBot,
           \A t \in Nat : t =< cmdUsed.texts /\ t \notin cmdHistory'.mistaken /\ Cmd!Shown(t)' => Cmd!Shown(t)
    PROVE  CmdSent'
<1> SUFFICES ASSUME NEW r \in cmdInFlight
             PROVE  CmdFits(r)'
    BY DEF CmdSent
<1>1. cmdUsed'.requests \in Nat /\ cmdUsed'.requests >= cmdUsed.requests
    BY DEF CmdInv, CmdTypes
<1> QED BY <1>1, CmdFitsStill

\* What the user types is new, and replaces what was there.
LEMMA CmdTypesText ==
    ASSUME CmdInv, NEW old \in Nat, Cmd!Types(old)
    PROVE  /\ cmdUsed' \in [texts : Nat, requests : Nat, pins : Nat, opens : Nat, faults : Nat]
           /\ cmdUsed'.texts = cmdUsed.texts + 1 /\ cmdUsed.texts \in Nat
           /\ cmdUsed'.requests = cmdUsed.requests
           /\ cmdHistory' \in CmdHistories
           /\ CmdOut' = CmdOut \cup {old}
           /\ cmdHistory'.mistaken = cmdHistory.mistaken /\ cmdHistory'.unsure = cmdHistory.unsure
<1>1. /\ cmdUsed \in [texts : Nat, requests : Nat, pins : Nat, opens : Nat, faults : Nat]
      /\ cmdHistory \in CmdHistories
      /\ cmdUsed' = [cmdUsed EXCEPT !.texts = @ + 1]
      /\ cmdHistory' = [cmdHistory EXCEPT !.dropped = @ \cup {old}]
    BY DEF CmdInv, CmdTypes, Cmd!Types
<1>2. /\ cmdHistory' \in CmdHistories
      /\ cmdHistory'.dropped = cmdHistory.dropped \cup {old} /\ cmdHistory'.given = cmdHistory.given
      /\ cmdHistory'.left = cmdHistory.left /\ cmdHistory'.mistaken = cmdHistory.mistaken
      /\ cmdHistory'.unsure = cmdHistory.unsure
    BY <1>1 DEF CmdHistories
<1> QED BY <1>1, <1>2 DEF CmdOut

\* A message is typed.
LEMMA CmdEditsDraft ==
    ASSUME CmdConstants, CmdInv, Cmd!EditDraft
    PROVE  CmdInv'
<1>1. /\ open.bot # Cmd!NoBot /\ ~open.sending /\ Cmd!Types(open.draft)
      /\ open' = [open EXCEPT !.draft = cmdUsed'.texts]
      /\ UNCHANGED <<drafts, newBot, cmdInFlight, cmdTaken>>
    BY DEF Cmd!EditDraft
<1>2. open.draft \in Nat /\ open.editor.text \in Nat /\ open \in CmdConversations
    BY DEF CmdInv, CmdTypes, CmdConversations, CmdEditors
<1>3. PICK old \in Nat : old = open.draft
    BY <1>2
<1>4. Cmd!Types(old)
    BY <1>1, <1>3 DEF Cmd!Types
<1>5. /\ cmdUsed' \in [texts : Nat, requests : Nat, pins : Nat, opens : Nat, faults : Nat]
      /\ cmdUsed'.texts = cmdUsed.texts + 1 /\ cmdUsed.texts \in Nat
      /\ cmdUsed'.requests = cmdUsed.requests
      /\ cmdHistory' \in CmdHistories
      /\ CmdOut' = CmdOut \cup {old}
      /\ cmdHistory'.mistaken = cmdHistory.mistaken /\ cmdHistory'.unsure = cmdHistory.unsure
    BY <1>4, CmdTypesText
<1>6. /\ open'.draft = cmdUsed.texts + 1 /\ open'.editor = open.editor /\ open'.bot = open.bot
      /\ open'.sending = open.sending /\ open'.stopping = open.stopping
      /\ open'.updating = open.updating /\ open' \in CmdConversations
    BY <1>1, <1>2, <1>5 DEF CmdConversations
<1>7. CmdTypes'
    BY <1>1, <1>5, <1>6 DEF CmdInv, CmdTypes
<1>8. newBot.name \in Nat /\ drafts \in [Bots -> Nat]
    BY DEF CmdInv, CmdTypes
<1>9. CmdPlaces'
    BY <1>1, <1>2, <1>5, <1>6, <1>8 DEF CmdInv, CmdPlaces
<1>10. \A t \in Nat : t =< cmdUsed.texts /\ t \notin cmdHistory'.mistaken /\ Cmd!Shown(t)' => Cmd!Shown(t)
    BY <1>1, <1>5, <1>6 DEF Cmd!Shown
<1>11. \A t \in 1..cmdUsed'.texts :
           t \notin CmdOut' /\ (Cmd!Shown(t) \/ t > cmdUsed.texts)
               => Cmd!Shown(t)'
    BY <1>1, <1>3, <1>5, <1>6 DEF Cmd!Shown
<1>12. cmdUsed'.texts >= cmdUsed.texts /\ cmdUsed'.texts \in Nat
    BY <1>5
<1>13. CmdApart' /\ CmdTaken' /\ CmdKept'
    BY <1>1, <1>5, <1>10, <1>11, <1>12, CmdStays
<1>14. CmdSent'
    BY <1>1, <1>5, <1>6, <1>10, <1>12, CmdSentStays
<1>15. CmdAwaited'
    BY <1>1, <1>6 DEF CmdInv, CmdAwaited
<1> QED BY <1>7, <1>9, <1>13, <1>14, <1>15 DEF CmdInv

\* A new Bot's name is typed.
LEMMA CmdEditsName ==
    ASSUME CmdConstants, CmdInv, Cmd!EditName
    PROVE  CmdInv'
<1>1. /\ open.editor.shown /\ ~open.editor.busy /\ Cmd!Types(open.editor.text)
      /\ open' = [open EXCEPT !.editor.text = cmdUsed'.texts]
      /\ UNCHANGED <<drafts, newBot, cmdInFlight, cmdTaken>>
    BY DEF Cmd!EditName
<1>2. open.draft \in Nat /\ open.editor.text \in Nat /\ open \in CmdConversations /\ open.editor \in CmdEditors
    BY DEF CmdInv, CmdTypes, CmdConversations, CmdEditors
<1>3. PICK old \in Nat : old = open.editor.text
    BY <1>2
<1>4. Cmd!Types(old)
    BY <1>1, <1>3 DEF Cmd!Types
<1>5. /\ cmdUsed' \in [texts : Nat, requests : Nat, pins : Nat, opens : Nat, faults : Nat]
      /\ cmdUsed'.texts = cmdUsed.texts + 1 /\ cmdUsed.texts \in Nat
      /\ cmdUsed'.requests = cmdUsed.requests
      /\ cmdHistory' \in CmdHistories
      /\ CmdOut' = CmdOut \cup {old}
      /\ cmdHistory'.mistaken = cmdHistory.mistaken /\ cmdHistory'.unsure = cmdHistory.unsure
    BY <1>4, CmdTypesText
<1>6. /\ open'.draft = open.draft /\ open'.editor = [open.editor EXCEPT !.text = cmdUsed'.texts]
      /\ open'.bot = open.bot /\ open'.sending = open.sending /\ open'.stopping = open.stopping
      /\ open'.updating = open.updating /\ open'.failed = open.failed
    BY <1>1, <1>2 DEF CmdConversations
<1>66. open'.editor \in CmdEditors /\ open'.editor.text = cmdUsed.texts + 1 /\ ~open'.editor.busy
    BY <1>1, <1>2, <1>5, <1>6 DEF CmdEditors
<1>67. open' \in CmdConversations
    <2>1. open' = [bot |-> open.bot, draft |-> open.draft, sending |-> open.sending,
                   stopping |-> open.stopping, updating |-> open.updating,
                   editor |-> open'.editor, failed |-> open.failed]
        BY <1>1, <1>2, <1>6 DEF CmdConversations
    <2> QED BY <1>2, <1>66, <2>1 DEF CmdConversations
<1>7. CmdTypes'
    BY <1>1, <1>5, <1>67 DEF CmdInv, CmdTypes
<1>8. newBot.name \in Nat /\ drafts \in [Bots -> Nat] /\ open.bot # Cmd!NoBot
    BY <1>1 DEF CmdInv, CmdTypes, CmdPlaces, Cmd!Closed, Cmd!NoEditor
<1>9. CmdPlaces'
    BY <1>1, <1>2, <1>5, <1>6, <1>66, <1>8 DEF CmdInv, CmdPlaces
<1>10. \A t \in Nat : t =< cmdUsed.texts /\ t \notin cmdHistory'.mistaken /\ Cmd!Shown(t)' => Cmd!Shown(t)
    BY <1>1, <1>5, <1>6, <1>66 DEF Cmd!Shown
<1>11. \A t \in 1..cmdUsed'.texts :
           t \notin CmdOut' /\ (Cmd!Shown(t) \/ t > cmdUsed.texts)
               => Cmd!Shown(t)'
    BY <1>1, <1>3, <1>5, <1>6, <1>66 DEF Cmd!Shown
<1>12. cmdUsed'.texts >= cmdUsed.texts /\ cmdUsed'.texts \in Nat
    BY <1>5
<1>13. CmdApart' /\ CmdTaken' /\ CmdKept'
    BY <1>1, <1>5, <1>10, <1>11, <1>12, CmdStays
<1>14. CmdSent'
    BY <1>1, <1>5, <1>6, <1>66, <1>10, <1>12, CmdSentStays
<1>15. CmdAwaited'
    BY <1>1, <1>6, <1>66 DEF CmdInv, CmdAwaited
<1> QED BY <1>7, <1>9, <1>13, <1>14, <1>15 DEF CmdInv

\* A Bot's new name is typed.
LEMMA CmdEditsBotName ==
    ASSUME CmdConstants, CmdInv, Cmd!EditBotName
    PROVE  CmdInv'
<1>1. /\ ~newBot.busy /\ Cmd!Types(newBot.name)
      /\ newBot' = [newBot EXCEPT !.name = cmdUsed'.texts]
      /\ UNCHANGED <<open, drafts, cmdInFlight, cmdTaken>>
    BY DEF Cmd!EditBotName
<1>2. /\ open.draft \in Nat /\ open.editor.text \in Nat /\ newBot.name \in Nat
      /\ newBot \in [name : Nat, busy : BOOLEAN] /\ drafts \in [Bots -> Nat]
    BY DEF CmdInv, CmdTypes, CmdConversations, CmdEditors
<1>3. PICK old \in Nat : old = newBot.name
    BY <1>2
<1>4. Cmd!Types(old)
    BY <1>1, <1>3 DEF Cmd!Types
<1>5. /\ cmdUsed' \in [texts : Nat, requests : Nat, pins : Nat, opens : Nat, faults : Nat]
      /\ cmdUsed'.texts = cmdUsed.texts + 1 /\ cmdUsed.texts \in Nat
      /\ cmdUsed'.requests = cmdUsed.requests
      /\ cmdHistory' \in CmdHistories
      /\ CmdOut' = CmdOut \cup {old}
      /\ cmdHistory'.mistaken = cmdHistory.mistaken /\ cmdHistory'.unsure = cmdHistory.unsure
    BY <1>4, CmdTypesText
<1>6. newBot'.name = cmdUsed.texts + 1 /\ newBot'.busy = newBot.busy /\ newBot' \in [name : Nat, busy : BOOLEAN]
    BY <1>1, <1>2, <1>5
<1>7. CmdTypes'
    BY <1>1, <1>5, <1>6 DEF CmdInv, CmdTypes
<1>9. CmdPlaces'
    BY <1>1, <1>2, <1>5, <1>6 DEF CmdInv, CmdPlaces
<1>10. \A t \in Nat : t =< cmdUsed.texts /\ t \notin cmdHistory'.mistaken /\ Cmd!Shown(t)' => Cmd!Shown(t)
    BY <1>1, <1>5, <1>6 DEF Cmd!Shown
<1>11. \A t \in 1..cmdUsed'.texts :
           t \notin CmdOut' /\ (Cmd!Shown(t) \/ t > cmdUsed.texts)
               => Cmd!Shown(t)'
    BY <1>1, <1>3, <1>5, <1>6 DEF Cmd!Shown
<1>12. cmdUsed'.texts >= cmdUsed.texts /\ cmdUsed'.texts \in Nat
    BY <1>5
<1>13. CmdApart' /\ CmdTaken' /\ CmdKept'
    BY <1>1, <1>5, <1>10, <1>11, <1>12, CmdStays
<1>14. CmdSent'
    BY <1>1, <1>5, <1>6, <1>10, <1>12, CmdSentStays
<1>15. CmdAwaited'
    BY <1>1, <1>6 DEF CmdInv, CmdAwaited
<1> QED BY <1>7, <1>9, <1>13, <1>14, <1>15 DEF CmdInv

\* The profile's editor is opened.
LEMMA CmdEdits ==
    ASSUME CmdConstants, CmdInv, Cmd!EditProfile
    PROVE  CmdInv'
<1>1. /\ open' = [open EXCEPT !.editor.shown = TRUE] /\ open.bot # Cmd!NoBot
      /\ UNCHANGED <<drafts, newBot, cmdInFlight, cmdTaken, cmdUsed, cmdHistory>>
    BY DEF Cmd!EditProfile, Cmd!CanUpdate
<1>2. /\ open \in CmdConversations /\ open.editor \in CmdEditors
      /\ cmdUsed \in [texts : Nat, requests : Nat, pins : Nat, opens : Nat, faults : Nat]
    BY DEF CmdInv, CmdTypes, CmdConversations, CmdEditors
<1>3. /\ open'.draft = open.draft /\ open'.editor = [open.editor EXCEPT !.shown = TRUE]
      /\ open'.bot = open.bot /\ open'.sending = open.sending /\ open'.stopping = open.stopping
      /\ open'.updating = open.updating /\ open'.failed = open.failed
    BY <1>1, <1>2 DEF CmdConversations
<1>4. /\ open'.editor \in CmdEditors /\ open'.editor.text = open.editor.text
      /\ open'.editor.busy = open.editor.busy
    BY <1>2, <1>3 DEF CmdEditors
<1>5. open' \in CmdConversations
    <2>1. open' = [bot |-> open.bot, draft |-> open.draft, sending |-> open.sending,
                   stopping |-> open.stopping, updating |-> open.updating,
                   editor |-> open'.editor, failed |-> open.failed]
        BY <1>1, <1>2, <1>3 DEF CmdConversations
    <2> QED BY <1>2, <1>4, <2>1 DEF CmdConversations
<1>6. CmdTypes'
    BY <1>1, <1>5 DEF CmdInv, CmdTypes
<1>7. CmdPlaces'
    BY ZenonT(40), <1>1, <1>3, <1>4 DEF CmdInv, CmdPlaces
<1>8. \A t : Cmd!Shown(t)' <=> Cmd!Shown(t)
    BY <1>1, <1>3, <1>4 DEF Cmd!Shown
<1>9. cmdUsed'.texts >= cmdUsed.texts /\ cmdUsed'.texts \in Nat /\ cmdUsed'.texts = cmdUsed.texts
    BY <1>1, <1>2
<1>13. CmdOut' = CmdOut
    BY <1>1 DEF CmdOut
<1>10. CmdApart' /\ CmdTaken' /\ CmdKept'
    BY <1>1, <1>8, <1>9, <1>13, CmdStays
<1>11. CmdSent'
    BY <1>1, <1>3, <1>4, <1>8, <1>9, <1>13, CmdSentStays
<1>12. CmdAwaited'
    BY <1>1, <1>3, <1>4 DEF CmdInv, CmdAwaited
<1> QED BY <1>6, <1>7, <1>10, <1>11, <1>12 DEF CmdInv

\* An edit ends, what it was being saved as too.
LEMMA CmdDrops ==
    ASSUME CmdConstants, CmdInv, open' = [open EXCEPT !.editor = Cmd!NoEditor], open.editor.shown,
           UNCHANGED <<drafts, newBot, cmdInFlight, cmdTaken>>,
           cmdUsed'.texts = cmdUsed.texts, cmdUsed'.requests = cmdUsed.requests,
           cmdUsed' \in [texts : Nat, requests : Nat, pins : Nat, opens : Nat, faults : Nat],
           cmdHistory' = [cmdHistory EXCEPT !.dropped = @ \cup {open.editor.text}]
    PROVE  CmdInv'
<1>1. /\ open \in CmdConversations /\ open.editor.text \in Nat /\ open.draft \in Nat /\ newBot.name \in Nat
      /\ drafts \in [Bots -> Nat]
      /\ cmdHistory \in CmdHistories
    BY DEF CmdInv, CmdTypes, CmdConversations, CmdEditors
<1>2. /\ open'.draft = open.draft /\ open'.editor = Cmd!NoEditor
      /\ open'.bot = open.bot /\ open'.sending = open.sending /\ open'.stopping = open.stopping
      /\ open'.updating = open.updating /\ open' \in CmdConversations
    BY <1>1 DEF CmdConversations, Cmd!NoEditor, CmdEditors, Cmd!NoText
<1>3. open'.editor.text = Cmd!NoText /\ ~open'.editor.busy /\ open.bot # Cmd!NoBot
    BY <1>2 DEF Cmd!NoEditor, CmdInv, CmdPlaces, Cmd!Closed
<1>4. /\ cmdHistory' \in CmdHistories
      /\ CmdOut' = CmdOut \cup {open.editor.text}
      /\ cmdHistory'.mistaken = cmdHistory.mistaken /\ cmdHistory'.unsure = cmdHistory.unsure
    <2>1. /\ cmdHistory' \in CmdHistories
          /\ cmdHistory'.dropped = cmdHistory.dropped \cup {open.editor.text}
          /\ cmdHistory'.mistaken = cmdHistory.mistaken /\ cmdHistory'.unsure = cmdHistory.unsure
          /\ cmdHistory'.given = cmdHistory.given /\ cmdHistory'.left = cmdHistory.left
        BY <1>1 DEF CmdHistories
    <2> QED BY <2>1 DEF CmdOut
<1>5. CmdTypes'
    BY <1>2, <1>4 DEF CmdInv, CmdTypes
<1>6. CmdPlaces'
    <2>1. Cmd!NoText =< cmdUsed.texts
        BY DEF Cmd!NoText
    <2> QED BY <1>2, <1>3, <1>4, <2>1 DEF CmdInv, CmdPlaces
<1>7. Cmd!NoText \in cmdHistory.mistaken
    BY DEF CmdInv, CmdPlaces
<1>8. \A t \in Nat : t =< cmdUsed.texts /\ t \notin cmdHistory'.mistaken /\ Cmd!Shown(t)' => Cmd!Shown(t)
    BY <1>2, <1>3, <1>4, <1>7 DEF Cmd!Shown
<1>9. \A t \in 1..cmdUsed'.texts :
           t \notin CmdOut' /\ (Cmd!Shown(t) \/ t > cmdUsed.texts)
               => Cmd!Shown(t)'
    BY <1>2, <1>3, <1>4 DEF Cmd!Shown
<1>10. cmdUsed'.texts >= cmdUsed.texts /\ cmdUsed'.texts \in Nat
    OBVIOUS
<1>11. CmdApart' /\ CmdTaken' /\ CmdKept'
    BY <1>4, <1>8, <1>9, <1>10, CmdStays
<1>12. \A t \in Nat : t = open.editor.text => t \in cmdHistory'.mistaken \/ ~Cmd!Shown(t)'
    BY <1>1, <1>2, <1>3, <1>4, <1>7 DEF Cmd!Shown, CmdInv, CmdPlaces
<1>13. CmdSent'
    BY <1>2, <1>3, <1>4, <1>8, <1>10, <1>12, CmdSentStays
<1>14. CmdAwaited'
    BY <1>2, <1>3 DEF CmdInv, CmdAwaited
<1> QED BY <1>5, <1>6, <1>11, <1>13, <1>14 DEF CmdInv

\* It is closed, or may not be opened.
LEMMA CmdCancels ==
    ASSUME CmdConstants, CmdInv, Cmd!CancelProfile \/ Cmd!MayNotEdit
    PROVE  CmdInv'
<1>1. cmdUsed \in [texts : Nat, requests : Nat, pins : Nat, opens : Nat, faults : Nat]
    BY DEF CmdInv, CmdTypes
<1>2. /\ cmdUsed'.texts = cmdUsed.texts /\ cmdUsed'.requests = cmdUsed.requests
      /\ cmdUsed' \in [texts : Nat, requests : Nat, pins : Nat, opens : Nat, faults : Nat]
    BY <1>1 DEF Cmd!CancelProfile, Cmd!MayNotEdit
<1> QED BY <1>2, CmdDrops DEF Cmd!CancelProfile, Cmd!MayNotEdit, Cmd!DropsEditor

\* An edit that changed nothing ends with nothing sent.
LEMMA CmdSavesNothing ==
    ASSUME CmdConstants, CmdInv, open.editor.text = Cmd!NoText, open.editor.shown, ~open.editor.busy,
           open' = [open EXCEPT !.editor = Cmd!NoEditor],
           UNCHANGED <<drafts, newBot, cmdInFlight, cmdTaken, cmdUsed, cmdHistory>>
    PROVE  CmdInv'
<1>1. /\ open \in CmdConversations /\ open.draft \in Nat /\ newBot.name \in Nat /\ drafts \in [Bots -> Nat]
      /\ cmdUsed \in [texts : Nat, requests : Nat, pins : Nat, opens : Nat, faults : Nat]
    BY DEF CmdInv, CmdTypes, CmdConversations
<1>2. /\ open'.draft = open.draft /\ open'.editor = Cmd!NoEditor
      /\ open'.bot = open.bot /\ open'.sending = open.sending /\ open'.stopping = open.stopping
      /\ open'.updating = open.updating /\ open' \in CmdConversations
    BY <1>1 DEF CmdConversations, Cmd!NoEditor, CmdEditors, Cmd!NoText
<1>3. open'.editor.text = Cmd!NoText /\ ~open'.editor.busy /\ open.bot # Cmd!NoBot
    BY <1>2 DEF Cmd!NoEditor, CmdInv, CmdPlaces, Cmd!Closed
<1>4. CmdTypes'
    BY <1>2 DEF CmdInv, CmdTypes
<1>5. CmdPlaces'
    BY <1>2, <1>3 DEF CmdInv, CmdPlaces
<1>6. \A t : Cmd!Shown(t)' <=> Cmd!Shown(t)
    BY <1>2, <1>3 DEF Cmd!Shown
<1>7. cmdUsed'.texts >= cmdUsed.texts /\ cmdUsed'.texts \in Nat /\ cmdUsed'.texts = cmdUsed.texts
    BY <1>1
<1>11. CmdOut' = CmdOut
    BY DEF CmdOut
<1>8. CmdApart' /\ CmdTaken' /\ CmdKept'
    BY <1>6, <1>7, <1>11, CmdStays
<1>9. CmdSent'
    BY <1>2, <1>3, <1>6, <1>7, <1>11, CmdSentStays
<1>10. CmdAwaited'
    BY <1>2, <1>3 DEF CmdInv, CmdAwaited
<1> QED BY <1>4, <1>5, <1>8, <1>9, <1>10 DEF CmdInv

\* The kinds of request.
CmdKinds == {"send", "stop", "pin", "save", "create"}

\* What a request adds to what is on its way.
CmdIsSent(r, kind, bot, text) ==
    /\ r.id = cmdUsed.requests + 1 /\ r.kind = kind /\ r.bot = bot /\ r.text = text /\ r.answer = "none"
    /\ cmdInFlight' = cmdInFlight \cup {r}

\* What sending a request does, whatever its kind.
LEMMA CmdSends ==
    ASSUME CmdInv, NEW kind \in CmdKinds, NEW bot \in Bots \cup {Cmd!NoBot}, NEW text \in Nat,
           Cmd!Sends(kind, bot, text)
    PROVE  /\ \E r \in CmdRequests : CmdIsSent(r, kind, bot, text)
           /\ cmdUsed' \in [texts : Nat, requests : Nat, pins : Nat, opens : Nat, faults : Nat]
           /\ cmdUsed'.requests = cmdUsed.requests + 1
           /\ text > cmdUsed.texts => cmdUsed'.texts = text /\ text \in CmdOut'
           /\ text =< cmdUsed.texts => cmdUsed'.texts = cmdUsed.texts
           /\ cmdHistory' \in CmdHistories /\ CmdOut \subseteq CmdOut'
           /\ cmdHistory'.mistaken = cmdHistory.mistaken /\ cmdHistory'.unsure = cmdHistory.unsure
<1>1. /\ cmdUsed \in [texts : Nat, requests : Nat, pins : Nat, opens : Nat, faults : Nat]
      /\ cmdHistory \in CmdHistories
    BY DEF CmdInv, CmdTypes
<1>2. \E r \in CmdRequests : CmdIsSent(r, kind, bot, text)
    <2> DEFINE r == [id |-> cmdUsed.requests + 1, kind |-> kind, bot |-> bot, text |-> text, answer |-> "none"]
    <2>1. r \in CmdRequests
        BY <1>1 DEF CmdRequests, CmdKinds
    <2>2. CmdIsSent(r, kind, bot, text)
        BY DEF Cmd!Sends, CmdIsSent
    <2> QED BY <2>1, <2>2
<1>3. /\ cmdUsed' \in [texts : Nat, requests : Nat, pins : Nat, opens : Nat, faults : Nat]
      /\ cmdUsed'.requests = cmdUsed.requests + 1
      /\ cmdUsed'.texts = IF text > cmdUsed.texts THEN text ELSE cmdUsed.texts
    <2>1. cmdUsed.requests + 1 \in Nat /\ cmdUsed.pins \in Nat /\ cmdUsed.texts \in Nat
        BY <1>1
    <2>2. PICK n \in Nat : n = IF kind = "pin" THEN cmdUsed.pins + 1 ELSE cmdUsed.pins
        BY <2>1
    <2>3. PICK m \in Nat : m = IF text > cmdUsed.texts THEN text ELSE cmdUsed.texts
        BY <2>1
    <2>4. cmdUsed' = [cmdUsed EXCEPT !.requests = cmdUsed.requests + 1, !.pins = n, !.texts = m]
        BY <2>2, <2>3 DEF Cmd!Sends
    <2> QED BY <1>1, <2>1, <2>3, <2>4
<1>4. PICK g \in SUBSET Nat : g = IF text > cmdUsed.texts THEN cmdHistory.given \cup {text} ELSE cmdHistory.given
    BY <1>1 DEF CmdHistories
<1>5. cmdHistory' = [cmdHistory EXCEPT !.given = g]
    BY <1>4 DEF Cmd!Sends
<1>6. /\ cmdHistory' \in CmdHistories /\ cmdHistory'.given = g
      /\ cmdHistory'.dropped = cmdHistory.dropped /\ cmdHistory'.left = cmdHistory.left
      /\ cmdHistory'.mistaken = cmdHistory.mistaken /\ cmdHistory'.unsure = cmdHistory.unsure
    BY <1>1, <1>5 DEF CmdHistories
<1>7. CmdOut \subseteq CmdOut' /\ (text > cmdUsed.texts => text \in CmdOut')
    BY <1>4, <1>6 DEF CmdOut
<1>8. /\ text > cmdUsed.texts => cmdUsed'.texts = text
      /\ text =< cmdUsed.texts => cmdUsed'.texts = cmdUsed.texts
    BY <1>1, <1>3
<1> QED BY <1>2, <1>3, <1>6, <1>7, <1>8

\* A text that was not on its way is sent.
LEMMA CmdSendsMore ==
    ASSUME CmdInv, NEW kind \in CmdKinds, NEW bot \in Bots \cup {Cmd!NoBot}, NEW text \in Nat,
           NEW r \in CmdRequests, CmdIsSent(r, kind, bot, text),
           text = Cmd!NoText \/ Cmd!Shown(text) \/ text > cmdUsed.texts, cmdTaken' = cmdTaken,
           cmdUsed'.texts \in {cmdUsed.texts, text}, cmdUsed'.texts >= cmdUsed.texts, text =< cmdUsed.texts + 1,
           cmdHistory'.unsure = cmdHistory.unsure, cmdHistory.mistaken \subseteq cmdHistory'.mistaken,
           CmdOut \subseteq CmdOut', \A t : Cmd!Shown(t)' <=> Cmd!Shown(t),
           \A q \in cmdInFlight : q.text = text => text \in cmdHistory'.mistaken,
           kind = "create" => \A q \in cmdInFlight : q.kind # "create"
    PROVE  CmdApart' /\ CmdTaken' /\ CmdKept'
<1>1. /\ r.id = cmdUsed.requests + 1 /\ r.kind = kind /\ r.bot = bot /\ r.text = text /\ r.answer = "none"
      /\ cmdInFlight' = cmdInFlight \cup {r}
    BY DEF CmdIsSent
<1>2. cmdUsed.requests \in Nat /\ cmdInFlight \subseteq CmdRequests /\ cmdTaken \subseteq Nat \X Nat
      /\ cmdUsed.texts \in Nat /\ cmdUsed'.texts \in Nat
    BY DEF CmdInv, CmdTypes
<1>3. CmdApart'
    <2>1. \A q \in cmdInFlight : q.id # r.id
        <3> TAKE q \in cmdInFlight
        <3>1. q.id =< cmdUsed.requests /\ q.id \in Nat
            BY <1>2 DEF CmdInv, CmdSent, CmdFits, CmdRequests
        <3> QED BY <1>1, <1>2, <3>1
    <2>2. \A q \in cmdInFlight : r.kind = "create" => q.kind # "create"
        BY <1>1
    <2>3. \A q \in cmdInFlight : q.text = r.text => r.text \in cmdHistory'.mistaken
        BY <1>1
    <2> QED BY <1>1, <2>1, <2>2, <2>3 DEF CmdInv, CmdApart
<1>4. Cmd!NoText \in cmdHistory'.mistaken
    BY DEF CmdInv, CmdPlaces
<1>5. CmdTaken'
    <2> SUFFICES ASSUME NEW p \in cmdTaken
                 PROVE  /\ p[2] =< cmdUsed'.texts
                        /\ p[2] \notin cmdHistory'.mistaken \cup cmdHistory'.unsure
                               => \/ \E q \in cmdInFlight' : q.text = p[2] /\ q.answer = "ok"
                                  \/ ~Cmd!Shown(p[2])' /\ \A q \in cmdInFlight' : q.text # p[2]
                        /\ \A s \in cmdTaken : s[2] = p[2] /\ p[2] \notin cmdHistory'.mistaken \cup cmdHistory'.unsure
                               => s = p
        BY DEF CmdTaken
    <2>1. PICK t \in Nat : t = p[2]
        BY <1>2
    <2>2. t \notin cmdHistory.mistaken \cup cmdHistory.unsure
              => \/ \E q \in cmdInFlight : q.text = t /\ q.answer = "ok"
                 \/ ~Cmd!Shown(t) /\ \A q \in cmdInFlight : q.text # t
        BY <2>1 DEF CmdInv, CmdTaken
    <2>6. t =< cmdUsed.texts
        BY <2>1 DEF CmdInv, CmdTaken
    <2>7. t = text => t = Cmd!NoText \/ Cmd!Shown(t)
        BY <1>2, <2>6
    <2>3. t \notin cmdHistory'.mistaken \cup cmdHistory'.unsure
              => \/ \E q \in cmdInFlight' : q.text = t /\ q.answer = "ok"
                 \/ ~Cmd!Shown(t)' /\ \A q \in cmdInFlight' : q.text # t
        BY <1>1, <1>4, <2>2, <2>7
    <2>4. ~Cmd!Shown(t)' => ~Cmd!Shown(p[2])'
        BY <2>1, p' = p DEF Cmd!Shown
    <2>5. \A s \in cmdTaken : s[2] = p[2] /\ p[2] \notin cmdHistory.mistaken \cup cmdHistory.unsure => s = p
        BY DEF CmdInv, CmdTaken
    <2>8. p[2] =< cmdUsed'.texts
        BY <1>2, <2>1, <2>6
    <2> QED BY <2>1, <2>3, <2>4, <2>5, <2>8
<1>6. CmdKept'
    <2> SUFFICES ASSUME NEW t \in 1..cmdUsed'.texts, t \notin CmdOut'
                 PROVE  Cmd!Shown(t)' \/ (\E q \in cmdInFlight' : q.text = t) \/ (\E p \in cmdTaken : p[2] = t)
        BY DEF CmdKept
    <2>1. CASE t =< cmdUsed.texts
        <3>1. t \in 1..cmdUsed.texts /\ t \notin CmdOut
            BY <1>2, <2>1
        <3>2. Cmd!Shown(t) \/ (\E q \in cmdInFlight : q.text = t) \/ (\E p \in cmdTaken : p[2] = t)
            BY <3>1 DEF CmdInv, CmdKept
        <3> QED BY <1>1, <3>2
    <2>2. CASE t > cmdUsed.texts
        <3>1. t = text
            BY <1>2, <2>2
        <3> QED BY <1>1, <3>1
    <2> QED BY <1>2, <2>1, <2>2
<1> QED BY <1>3, <1>5, <1>6

\* What was on its way still is, from where it was.
LEMMA CmdSentToo ==
    ASSUME CmdInv, NEW r, cmdInFlight' = cmdInFlight \cup {r}, CmdFits(r)', cmdTaken' = cmdTaken,
           newBot.busy => newBot'.busy /\ newBot'.name = newBot.name,
           cmdUsed'.requests = cmdUsed.requests + 1, cmdUsed'.texts \in Nat, cmdUsed'.texts >= cmdUsed.texts,
           CmdOut \subseteq CmdOut', cmdHistory.mistaken \subseteq cmdHistory'.mistaken,
           \A t : Cmd!Shown(t)' <=> Cmd!Shown(t),
           open'.bot = open.bot, open'.draft = open.draft, open'.editor.text = open.editor.text,
           open.sending => open'.sending, open.editor.busy => open'.editor.busy
    PROVE  CmdSent'
<1>1. cmdUsed'.requests \in Nat /\ cmdUsed'.requests >= cmdUsed.requests
    BY DEF CmdInv, CmdTypes
<1>2. \A q \in cmdInFlight : CmdFits(q)'
    BY <1>1, CmdFitsStill
<1> QED BY <1>2 DEF CmdSent

\* A text before the user, that the page does not wait for the gateway to take, is not on
\* its way, unless it was settled by the answer to another request.
LEMMA CmdNotSent ==
    ASSUME CmdInv, NEW text \in Nat, Cmd!Shown(text), text \notin cmdHistory.mistaken,
           text = open.draft => ~open.sending, text = open.editor.text => ~open.editor.busy,
           text = newBot.name => ~newBot.busy, NEW q \in cmdInFlight
    PROVE  q.text # text
<1> SUFFICES ASSUME q.text = text
             PROVE  FALSE
    OBVIOUS
<1>1. q \in CmdRequests /\ Cmd!NoText \in cmdHistory.mistaken /\ CmdFits(q)
    BY DEF CmdInv, CmdTypes, CmdPlaces, CmdSent
<1>2. Cmd!Shown(q.text)
    OBVIOUS
<1>3. CASE q.kind \in {"send", "save"}
    BY <1>1, <1>2, <1>3 DEF CmdFits
<1>4. CASE q.kind = "create"
    BY <1>1, <1>4 DEF CmdFits
<1>5. CASE q.kind \in {"stop", "pin"}
    BY <1>1, <1>5 DEF CmdFits
<1> QED BY <1>1, <1>3, <1>4, <1>5 DEF CmdRequests

\* A message is sent: the draft, or an agent's.
LEMMA CmdSend ==
    ASSUME CmdConstants, CmdInv, Cmd!Send
    PROVE  CmdInv'
<1>1. /\ open.bot # Cmd!NoBot /\ ~open.sending
      /\ open' = [open EXCEPT !.sending = TRUE, !.failed = FALSE]
      /\ UNCHANGED <<drafts, newBot, cmdTaken>>
      /\ \E text \in {open.draft, cmdUsed.texts + 1} \ {Cmd!NoText} : Cmd!Sends("send", open.bot, text)
    BY DEF Cmd!Send
<1>2. /\ open \in CmdConversations /\ open.draft \in Nat /\ open.editor.text \in Nat
      /\ open.editor \in CmdEditors
      /\ newBot \in [name : Nat, busy : BOOLEAN] /\ newBot.name \in Nat
      /\ Cmd!NoText \in Nat /\ "send" \in CmdKinds
      /\ cmdUsed.texts \in Nat /\ cmdUsed.requests \in Nat /\ drafts \in [Bots -> Nat]
    BY DEF CmdInv, CmdTypes, CmdConversations, CmdEditors, Cmd!NoText, CmdKinds
<1>3. PICK text \in Nat : /\ text \in {open.draft, cmdUsed.texts + 1} /\ text # Cmd!NoText
                          /\ Cmd!Sends("send", open.bot, text)
    BY <1>1, <1>2
<1>4. PICK bot \in Bots \cup {Cmd!NoBot} : bot = open.bot
    BY <1>2 DEF CmdConversations
<1>5. Cmd!Sends("send", bot, text)
    BY <1>3, <1>4 DEF Cmd!Sends
<1>6. PICK r \in CmdRequests : CmdIsSent(r, "send", bot, text)
    BY <1>2, <1>5, CmdSends
<1>7. /\ cmdUsed' \in [texts : Nat, requests : Nat, pins : Nat, opens : Nat, faults : Nat]
      /\ cmdUsed'.requests = cmdUsed.requests + 1
      /\ text > cmdUsed.texts => cmdUsed'.texts = text /\ text \in CmdOut'
      /\ text =< cmdUsed.texts => cmdUsed'.texts = cmdUsed.texts
      /\ cmdHistory' \in CmdHistories /\ CmdOut \subseteq CmdOut'
      /\ cmdHistory'.mistaken = cmdHistory.mistaken /\ cmdHistory'.unsure = cmdHistory.unsure
    BY <1>2, <1>5, CmdSends
<1>8. /\ cmdUsed'.texts \in Nat /\ cmdUsed'.texts >= cmdUsed.texts
      /\ cmdUsed'.texts \in {cmdUsed.texts, text} /\ text =< cmdUsed'.texts /\ text =< cmdUsed.texts + 1
    <2>1. CASE text = cmdUsed.texts + 1
        BY <1>2, <1>7, <2>1
    <2>2. CASE text = open.draft
        <3>1. text =< cmdUsed.texts
            BY <2>2 DEF CmdInv, CmdPlaces
        <3> QED BY <1>2, <1>7, <3>1
    <2> QED BY <1>3, <2>1, <2>2
<1>9. /\ r.id = cmdUsed.requests + 1 /\ r.kind = "send" /\ r.bot = bot /\ r.text = text
      /\ r.answer = "none" /\ cmdInFlight' = cmdInFlight \cup {r}
    BY <1>6 DEF CmdIsSent
<1>10. /\ open'.draft = open.draft /\ open'.editor = open.editor /\ open'.bot = open.bot
       /\ open'.sending = TRUE /\ open'.stopping = open.stopping /\ open'.updating = open.updating
       /\ open' \in CmdConversations /\ newBot' \in [name : Nat, busy : BOOLEAN]
       /\ newBot' = newBot
    BY <1>1, <1>2 DEF CmdConversations
<1>11. CmdTypes'
    BY <1>1, <1>7, <1>9, <1>10 DEF CmdInv, CmdTypes
<1>12. CmdPlaces'
    <2>1. /\ open.draft =< cmdUsed'.texts /\ open.editor.text =< cmdUsed'.texts /\ newBot.name =< cmdUsed'.texts
          /\ \A b \in Bots : drafts[b] =< cmdUsed'.texts
        BY <1>2, <1>8 DEF CmdInv, CmdPlaces
    <2> QED BY <1>1, <1>7, <1>10, <2>1 DEF CmdInv, CmdPlaces, CmdConstants
<1>13. \A t : Cmd!Shown(t)' <=> Cmd!Shown(t)
    BY <1>1, <1>10 DEF Cmd!Shown
<1>14. Cmd!Shown(text) \/ (text > cmdUsed.texts /\ ~Cmd!Shown(text))
    <2>1. CASE text = open.draft
        BY <2>1 DEF Cmd!Shown
    <2>2. CASE text = cmdUsed.texts + 1
        BY <1>2, <2>2 DEF Cmd!Shown, CmdInv, CmdPlaces
    <2> QED BY <1>3, <2>1, <2>2
<1>15. \A q \in cmdInFlight : q.text = text => text \in cmdHistory'.mistaken
    <2> SUFFICES ASSUME NEW q \in cmdInFlight, q.text = text, text \notin cmdHistory.mistaken
                 PROVE  FALSE
        BY <1>7
    <2>1. CASE text = cmdUsed.texts + 1
        <3>1. q.text =< cmdUsed.texts
            BY DEF CmdInv, CmdSent, CmdFits
        <3> QED BY <1>2, <2>1, <3>1
    <2>2. CASE text = open.draft
        <3>1. Cmd!Shown(text)
            BY <2>2 DEF Cmd!Shown
        <3>2. text # open.editor.text /\ text # newBot.name
            BY <1>3, <2>2 DEF CmdInv, CmdPlaces
        <3> QED BY <1>1, <3>1, <3>2, CmdNotSent
    <2> QED BY <1>3, <2>1, <2>2
<1>16. "send" = "create" => \A q \in cmdInFlight : q.kind # "create"
    OBVIOUS
<1>17. CmdApart' /\ CmdTaken' /\ CmdKept'
    BY <1>1, <1>2, <1>6, <1>7, <1>8, <1>13, <1>14, <1>15, <1>16, CmdSendsMore
<1>18. CmdSent'
    <2>1. ~Cmd!Shown(text) => ~Cmd!Shown(r.text)'
        BY <1>1, <1>9, <1>10, r' = r DEF Cmd!Shown
    <2>2. \/ r.bot = open'.bot /\ open'.sending /\ open'.draft = r.text
          \/ r.text \in CmdOut' /\ ~Cmd!Shown(r.text)'
        <3>1. CASE text = open.draft
            BY <1>4, <1>9, <1>10, <3>1
        <3>2. CASE text = cmdUsed.texts + 1
            <4>1. text > cmdUsed.texts /\ ~Cmd!Shown(text)
                BY <1>2, <3>2 DEF Cmd!Shown, CmdInv, CmdPlaces
            <4> QED BY <1>7, <1>9, <2>1, <4>1
        <3> QED BY <1>3, <3>1, <3>2
    <2>3. r.id =< cmdUsed'.requests /\ r.text =< cmdUsed'.texts
        BY <1>2, <1>7, <1>8, <1>9
    <2>4. CmdFits(r)'
        BY <1>9, <2>2, <2>3 DEF CmdFits
    <2> QED BY <1>1, <1>7, <1>8, <1>9, <1>10, <1>13, <2>4, CmdSentToo
<1>20. r \notin cmdInFlight
    <2>1. \A q \in cmdInFlight : q.id =< cmdUsed.requests /\ cmdUsed.requests \in Nat
        BY DEF CmdInv, CmdSent, CmdFits, CmdTypes
    <2> QED BY <1>9, <2>1
<1>19. CmdAwaited'
    BY <1>1, <1>3, <1>4, <1>9, <1>10 DEF CmdInv, CmdAwaited
<1> QED BY <1>11, <1>12, <1>17, <1>18, <1>19 DEF CmdInv

\* A turn is to be stopped.
LEMMA CmdStop ==
    ASSUME CmdConstants, CmdInv, Cmd!Stop
    PROVE  CmdInv'
<1>1. /\ open.bot # Cmd!NoBot
      /\ open' = [open EXCEPT !.stopping = TRUE]
      /\ UNCHANGED <<drafts, newBot, cmdTaken>>
      /\ Cmd!Sends("stop", open.bot, Cmd!NoText)
    BY DEF Cmd!Stop
<1>2. /\ open \in CmdConversations /\ open.draft \in Nat /\ open.editor.text \in Nat
      /\ open.editor \in CmdEditors
      /\ newBot \in [name : Nat, busy : BOOLEAN] /\ newBot.name \in Nat
      /\ Cmd!NoText \in Nat /\ "stop" \in CmdKinds
    BY DEF CmdInv, CmdTypes, CmdConversations, CmdEditors, Cmd!NoText, CmdKinds
<1>3. PICK text \in Nat : text = Cmd!NoText
    BY <1>2
<1>4. PICK bot \in Bots \cup {Cmd!NoBot} : bot = open.bot
    BY <1>2 DEF CmdConversations
<1>5. Cmd!Sends("stop", bot, text)
    BY <1>1, <1>3, <1>4 DEF Cmd!Sends
<1>6. PICK r \in CmdRequests : CmdIsSent(r, "stop", bot, text)
    BY <1>2, <1>5, CmdSends
<1>7. /\ cmdUsed' \in [texts : Nat, requests : Nat, pins : Nat, opens : Nat, faults : Nat]
      /\ cmdUsed'.texts = cmdUsed.texts /\ cmdUsed'.requests = cmdUsed.requests + 1
      /\ cmdHistory' \in CmdHistories /\ CmdOut \subseteq CmdOut'
      /\ cmdHistory'.mistaken = cmdHistory.mistaken /\ cmdHistory'.unsure = cmdHistory.unsure
      /\ cmdUsed'.texts \in {cmdUsed.texts, text} /\ cmdUsed'.texts >= cmdUsed.texts
      /\ text =< cmdUsed.texts + 1 /\ cmdUsed'.texts \in Nat
    <2>1. text =< cmdUsed.texts /\ cmdUsed.texts \in Nat
        BY <1>2, <1>3 DEF CmdInv, CmdPlaces, CmdTypes, Cmd!NoText
    <2> QED BY <1>2, <1>5, <2>1, CmdSends
<1>9. /\ r.id = cmdUsed.requests + 1 /\ r.kind = "stop" /\ r.bot = bot /\ r.text = text
      /\ r.answer = "none" /\ cmdInFlight' = cmdInFlight \cup {r}
    BY <1>6 DEF CmdIsSent
<1>10. /\ open'.draft = open.draft /\ open'.editor = open.editor /\ open'.bot = open.bot
       /\ open'.sending = open.sending /\ open'.stopping = TRUE /\ open'.updating = open.updating
       /\ open' \in CmdConversations /\ newBot' \in [name : Nat, busy : BOOLEAN]
       /\ newBot' = newBot
    BY <1>1, <1>2 DEF CmdConversations
<1>11. CmdTypes'
    BY <1>1, <1>7, <1>9, <1>10 DEF CmdInv, CmdTypes
<1>12. CmdPlaces'
    BY <1>1, <1>7, <1>10 DEF CmdInv, CmdPlaces, CmdConstants
<1>13. \A t : Cmd!Shown(t)' <=> Cmd!Shown(t)
    BY <1>1, <1>10 DEF Cmd!Shown
<1>14. text = Cmd!NoText \/ Cmd!Shown(text)
    BY <1>3 DEF Cmd!Shown
<1>15. \A q \in cmdInFlight : q.text = text => text \in cmdHistory'.mistaken
    BY <1>3, <1>7 DEF CmdInv, CmdPlaces
<1>16. "stop" = "create" => \A q \in cmdInFlight : q.kind # "create"
    OBVIOUS
<1>17. CmdApart' /\ CmdTaken' /\ CmdKept'
    BY <1>1, <1>2, <1>6, <1>7, <1>13, <1>14, <1>15, <1>16, CmdSendsMore
<1>18. CmdSent'
    <2>1. r.id =< cmdUsed'.requests /\ r.text =< cmdUsed'.texts
        BY <1>2, <1>3, <1>7, <1>9 DEF CmdInv, CmdPlaces, CmdTypes, Cmd!NoText
    <2>2. CmdFits(r)'
        BY <1>1, <1>3, <1>4, <1>9, <1>10, <2>1 DEF CmdFits
    <2> QED BY <1>1, <1>7, <1>9, <1>10, <1>13, <2>2, CmdSentToo
<1>20. r \notin cmdInFlight
    <2>1. \A q \in cmdInFlight : q.id =< cmdUsed.requests /\ cmdUsed.requests \in Nat
        BY DEF CmdInv, CmdSent, CmdFits, CmdTypes
    <2> QED BY <1>9, <2>1
<1>19. CmdAwaited'
    BY <1>1, <1>3, <1>4, <1>9, <1>10 DEF CmdInv, CmdAwaited
<1> QED BY <1>11, <1>12, <1>17, <1>18, <1>19 DEF CmdInv

\* A Bot is to be pinned, or no longer.
LEMMA CmdPin ==
    ASSUME CmdConstants, CmdInv, Cmd!Pin
    PROVE  CmdInv'
<1>1. /\ open.bot # Cmd!NoBot /\ ~open.editor.busy
      /\ open' = [open EXCEPT !.updating = TRUE]
      /\ UNCHANGED <<drafts, newBot, cmdTaken>>
      /\ Cmd!Sends("pin", open.bot, Cmd!NoText)
    BY DEF Cmd!Pin, Cmd!CanUpdate
<1>2. /\ open \in CmdConversations /\ open.draft \in Nat /\ open.editor.text \in Nat
      /\ open.editor \in CmdEditors
      /\ newBot \in [name : Nat, busy : BOOLEAN] /\ newBot.name \in Nat
      /\ Cmd!NoText \in Nat /\ "pin" \in CmdKinds
    BY DEF CmdInv, CmdTypes, CmdConversations, CmdEditors, Cmd!NoText, CmdKinds
<1>3. PICK text \in Nat : text = Cmd!NoText
    BY <1>2
<1>4. PICK bot \in Bots \cup {Cmd!NoBot} : bot = open.bot
    BY <1>2 DEF CmdConversations
<1>5. Cmd!Sends("pin", bot, text)
    BY <1>1, <1>3, <1>4 DEF Cmd!Sends
<1>6. PICK r \in CmdRequests : CmdIsSent(r, "pin", bot, text)
    BY <1>2, <1>5, CmdSends
<1>7. /\ cmdUsed' \in [texts : Nat, requests : Nat, pins : Nat, opens : Nat, faults : Nat]
      /\ cmdUsed'.texts = cmdUsed.texts /\ cmdUsed'.requests = cmdUsed.requests + 1
      /\ cmdHistory' \in CmdHistories /\ CmdOut \subseteq CmdOut'
      /\ cmdHistory'.mistaken = cmdHistory.mistaken /\ cmdHistory'.unsure = cmdHistory.unsure
      /\ cmdUsed'.texts \in {cmdUsed.texts, text} /\ cmdUsed'.texts >= cmdUsed.texts
      /\ text =< cmdUsed.texts + 1 /\ cmdUsed'.texts \in Nat
    <2>1. text =< cmdUsed.texts /\ cmdUsed.texts \in Nat
        BY <1>2, <1>3 DEF CmdInv, CmdPlaces, CmdTypes, Cmd!NoText
    <2> QED BY <1>2, <1>5, <2>1, CmdSends
<1>9. /\ r.id = cmdUsed.requests + 1 /\ r.kind = "pin" /\ r.bot = bot /\ r.text = text
      /\ r.answer = "none" /\ cmdInFlight' = cmdInFlight \cup {r}
    BY <1>6 DEF CmdIsSent
<1>10. /\ open'.draft = open.draft /\ open'.editor = open.editor /\ open'.bot = open.bot
       /\ open'.sending = open.sending /\ open'.stopping = open.stopping /\ open'.updating = TRUE
       /\ open' \in CmdConversations /\ newBot' \in [name : Nat, busy : BOOLEAN]
       /\ newBot' = newBot
    BY <1>1, <1>2 DEF CmdConversations
<1>11. CmdTypes'
    BY <1>1, <1>7, <1>9, <1>10 DEF CmdInv, CmdTypes
<1>12. CmdPlaces'
    BY <1>1, <1>7, <1>10 DEF CmdInv, CmdPlaces, CmdConstants
<1>13. \A t : Cmd!Shown(t)' <=> Cmd!Shown(t)
    BY <1>1, <1>10 DEF Cmd!Shown
<1>14. text = Cmd!NoText \/ Cmd!Shown(text)
    BY <1>3 DEF Cmd!Shown
<1>15. \A q \in cmdInFlight : q.text = text => text \in cmdHistory'.mistaken
    BY <1>3, <1>7 DEF CmdInv, CmdPlaces
<1>16. "pin" = "create" => \A q \in cmdInFlight : q.kind # "create"
    OBVIOUS
<1>17. CmdApart' /\ CmdTaken' /\ CmdKept'
    BY <1>1, <1>2, <1>6, <1>7, <1>13, <1>14, <1>15, <1>16, CmdSendsMore
<1>18. CmdSent'
    <2>1. r.id =< cmdUsed'.requests /\ r.text =< cmdUsed'.texts
        BY <1>2, <1>3, <1>7, <1>9 DEF CmdInv, CmdPlaces, CmdTypes, Cmd!NoText
    <2>2. CmdFits(r)'
        BY <1>1, <1>3, <1>4, <1>9, <1>10, <2>1 DEF CmdFits
    <2> QED BY <1>1, <1>7, <1>9, <1>10, <1>13, <2>2, CmdSentToo
<1>20. r \notin cmdInFlight
    <2>1. \A q \in cmdInFlight : q.id =< cmdUsed.requests /\ cmdUsed.requests \in Nat
        BY DEF CmdInv, CmdSent, CmdFits, CmdTypes
    <2> QED BY <1>9, <2>1
<1>19. CmdAwaited'
    BY <1>1, <1>3, <1>4, <1>9, <1>10 DEF CmdInv, CmdAwaited
<1> QED BY <1>11, <1>12, <1>17, <1>18, <1>19 DEF CmdInv

\* A Bot's new name is sent.
LEMMA CmdSaves ==
    ASSUME CmdConstants, CmdInv, Cmd!SaveProfile, open.editor.text # Cmd!NoText
    PROVE  CmdInv'
<1>1. /\ ~open.editor.busy /\ open.editor.text # Cmd!NoText /\ open.editor.shown
      /\ open' = [open EXCEPT !.editor.busy = TRUE]
      /\ UNCHANGED <<drafts, newBot, cmdTaken>>
      /\ Cmd!Sends("save", open.bot, open.editor.text)
    BY DEF Cmd!SaveProfile
<1>2. /\ open \in CmdConversations /\ open.draft \in Nat /\ open.editor.text \in Nat
      /\ open.editor \in CmdEditors
      /\ newBot \in [name : Nat, busy : BOOLEAN] /\ newBot.name \in Nat
      /\ Cmd!NoText \in Nat /\ "save" \in CmdKinds
    BY DEF CmdInv, CmdTypes, CmdConversations, CmdEditors, Cmd!NoText, CmdKinds
<1>3. PICK text \in Nat : text = open.editor.text
    BY <1>2
<1>4. PICK bot \in Bots \cup {Cmd!NoBot} : bot = open.bot
    BY <1>2 DEF CmdConversations
<1>5. Cmd!Sends("save", bot, text)
    BY <1>1, <1>3, <1>4 DEF Cmd!Sends
<1>6. PICK r \in CmdRequests : CmdIsSent(r, "save", bot, text)
    BY <1>2, <1>5, CmdSends
<1>7. /\ cmdUsed' \in [texts : Nat, requests : Nat, pins : Nat, opens : Nat, faults : Nat]
      /\ cmdUsed'.texts = cmdUsed.texts /\ cmdUsed'.requests = cmdUsed.requests + 1
      /\ cmdHistory' \in CmdHistories /\ CmdOut \subseteq CmdOut'
      /\ cmdHistory'.mistaken = cmdHistory.mistaken /\ cmdHistory'.unsure = cmdHistory.unsure
      /\ cmdUsed'.texts \in {cmdUsed.texts, text} /\ cmdUsed'.texts >= cmdUsed.texts
      /\ text =< cmdUsed.texts + 1 /\ cmdUsed'.texts \in Nat
    <2>1. text =< cmdUsed.texts /\ cmdUsed.texts \in Nat
        BY <1>2, <1>3 DEF CmdInv, CmdPlaces, CmdTypes, Cmd!NoText
    <2> QED BY <1>2, <1>5, <2>1, CmdSends
<1>9. /\ r.id = cmdUsed.requests + 1 /\ r.kind = "save" /\ r.bot = bot /\ r.text = text
      /\ r.answer = "none" /\ cmdInFlight' = cmdInFlight \cup {r}
    BY <1>6 DEF CmdIsSent
<1>10. /\ open'.draft = open.draft /\ open'.editor.text = open.editor.text /\ open'.bot = open.bot
       /\ open'.sending = open.sending /\ open'.stopping = open.stopping
       /\ open'.updating = open.updating /\ open'.editor.busy
       /\ open' \in CmdConversations /\ newBot' \in [name : Nat, busy : BOOLEAN]
       /\ newBot' = newBot
    <2>1. open'.editor = [open.editor EXCEPT !.busy = TRUE]
        BY <1>1, <1>2 DEF CmdConversations
    <2>2. open'.editor \in CmdEditors /\ open'.editor.text = open.editor.text /\ open'.editor.busy
        BY <1>2, <2>1 DEF CmdEditors
    <2>3. open' = [bot |-> open.bot, draft |-> open.draft, sending |-> open.sending,
                   stopping |-> open.stopping, updating |-> open.updating,
                   editor |-> open'.editor, failed |-> open.failed]
        BY <1>1, <1>2 DEF CmdConversations
    <2>4. open' \in CmdConversations
        BY <1>2, <2>2, <2>3 DEF CmdConversations
    <2> QED BY <1>1, <1>2, <2>2, <2>3, <2>4
<1>21. open.bot # Cmd!NoBot
    BY <1>1 DEF CmdInv, CmdPlaces, Cmd!Closed, Cmd!NoEditor
<1>11. CmdTypes'
    BY <1>1, <1>7, <1>9, <1>10 DEF CmdInv, CmdTypes
<1>12. CmdPlaces'
    <2>1. /\ open'.bot = open.bot /\ open'.draft = open.draft /\ open'.editor.text = open.editor.text
          /\ drafts' = drafts /\ newBot' = newBot /\ cmdUsed'.texts = cmdUsed.texts
        BY <1>1, <1>7, <1>10
    <2>2. Cmd!NoText \in cmdHistory'.mistaken
        BY <1>7 DEF CmdInv, CmdPlaces
    <2>3. CmdPlaces
        BY DEF CmdInv
    <2> QED BY <1>21, <2>1, <2>2, <2>3 DEF CmdPlaces
<1>13. \A t : Cmd!Shown(t)' <=> Cmd!Shown(t)
    BY <1>1, <1>10 DEF Cmd!Shown
<1>14. text = Cmd!NoText \/ Cmd!Shown(text)
    BY <1>3 DEF Cmd!Shown
<1>15. \A q \in cmdInFlight : q.text = text => text \in cmdHistory'.mistaken
    <2>1. Cmd!Shown(text)
        BY <1>3 DEF Cmd!Shown
    <2>2. text = open.draft => text = Cmd!NoText
        BY <1>1, <1>3 DEF CmdInv, CmdPlaces
    <2>3. Cmd!NoText \in cmdHistory.mistaken
        BY DEF CmdInv, CmdPlaces
    <2>4. (text = open.editor.text => ~open.editor.busy) /\ (text = newBot.name => ~newBot.busy)
        BY <1>1, <1>3 DEF CmdInv, CmdPlaces
    <2> QED BY <1>7, <2>1, <2>2, <2>3, <2>4, CmdNotSent
<1>16. "save" = "create" => \A q \in cmdInFlight : q.kind # "create"
    OBVIOUS
<1>17. CmdApart' /\ CmdTaken' /\ CmdKept'
    BY <1>1, <1>2, <1>6, <1>7, <1>13, <1>14, <1>15, <1>16, CmdSendsMore
<1>18. CmdSent'
    <2>1. r.id =< cmdUsed'.requests /\ r.text =< cmdUsed'.texts
        BY <1>2, <1>3, <1>7, <1>9 DEF CmdInv, CmdPlaces, CmdTypes, Cmd!NoText
    <2>2. CmdFits(r)'
        BY <1>1, <1>3, <1>4, <1>9, <1>10, <2>1 DEF CmdFits
    <2> QED BY <1>1, <1>7, <1>9, <1>10, <1>13, <2>2, CmdSentToo
<1>20. r \notin cmdInFlight
    <2>1. \A q \in cmdInFlight : q.id =< cmdUsed.requests /\ cmdUsed.requests \in Nat
        BY DEF CmdInv, CmdSent, CmdFits, CmdTypes
    <2> QED BY <1>9, <2>1
<1>19. CmdAwaited'
    BY <1>1, <1>3, <1>4, <1>9, <1>10, <1>20 DEF CmdInv, CmdAwaited
<1> QED BY <1>11, <1>12, <1>17, <1>18, <1>19 DEF CmdInv

\* A new Bot's name is sent.
LEMMA CmdCreates ==
    ASSUME CmdConstants, CmdInv, Cmd!CreateBot
    PROVE  CmdInv'
<1>1. /\ ~newBot.busy /\ newBot.name # Cmd!NoText
      /\ newBot' = [newBot EXCEPT !.busy = TRUE]
      /\ UNCHANGED <<open, drafts, cmdTaken>>
      /\ Cmd!Sends("create", Cmd!NoBot, newBot.name)
    BY DEF Cmd!CreateBot
<1>2. /\ open \in CmdConversations /\ open.draft \in Nat /\ open.editor.text \in Nat
      /\ open.editor \in CmdEditors
      /\ newBot \in [name : Nat, busy : BOOLEAN] /\ newBot.name \in Nat
      /\ Cmd!NoText \in Nat /\ "create" \in CmdKinds
    BY DEF CmdInv, CmdTypes, CmdConversations, CmdEditors, Cmd!NoText, CmdKinds
<1>3. PICK text \in Nat : text = newBot.name
    BY <1>2
<1>4. PICK bot \in Bots \cup {Cmd!NoBot} : bot = Cmd!NoBot
    BY <1>2 DEF CmdConversations
<1>5. Cmd!Sends("create", bot, text)
    BY <1>1, <1>3, <1>4 DEF Cmd!Sends
<1>6. PICK r \in CmdRequests : CmdIsSent(r, "create", bot, text)
    BY <1>2, <1>5, CmdSends
<1>7. /\ cmdUsed' \in [texts : Nat, requests : Nat, pins : Nat, opens : Nat, faults : Nat]
      /\ cmdUsed'.texts = cmdUsed.texts /\ cmdUsed'.requests = cmdUsed.requests + 1
      /\ cmdHistory' \in CmdHistories /\ CmdOut \subseteq CmdOut'
      /\ cmdHistory'.mistaken = cmdHistory.mistaken /\ cmdHistory'.unsure = cmdHistory.unsure
      /\ cmdUsed'.texts \in {cmdUsed.texts, text} /\ cmdUsed'.texts >= cmdUsed.texts
      /\ text =< cmdUsed.texts + 1 /\ cmdUsed'.texts \in Nat
    <2>1. text =< cmdUsed.texts /\ cmdUsed.texts \in Nat
        BY <1>2, <1>3 DEF CmdInv, CmdPlaces, CmdTypes, Cmd!NoText
    <2> QED BY <1>2, <1>5, <2>1, CmdSends
<1>9. /\ r.id = cmdUsed.requests + 1 /\ r.kind = "create" /\ r.bot = bot /\ r.text = text
      /\ r.answer = "none" /\ cmdInFlight' = cmdInFlight \cup {r}
    BY <1>6 DEF CmdIsSent
<1>10. /\ open' = open /\ open' \in CmdConversations
       /\ newBot' \in [name : Nat, busy : BOOLEAN] /\ newBot'.busy /\ newBot'.name = newBot.name
    BY <1>1, <1>2
<1>11. CmdTypes'
    BY <1>1, <1>7, <1>9, <1>10 DEF CmdInv, CmdTypes
<1>12. CmdPlaces'
    BY <1>1, <1>7, <1>10 DEF CmdInv, CmdPlaces, CmdConstants
<1>13. \A t : Cmd!Shown(t)' <=> Cmd!Shown(t)
    BY <1>1, <1>10 DEF Cmd!Shown
<1>14. text = Cmd!NoText \/ Cmd!Shown(text)
    BY <1>3 DEF Cmd!Shown
<1>15. \A q \in cmdInFlight : q.text = text => text \in cmdHistory'.mistaken
    <2>1. Cmd!Shown(text)
        BY <1>3 DEF Cmd!Shown
    <2>2. text = open.draft => text = Cmd!NoText
        BY <1>1, <1>3 DEF CmdInv, CmdPlaces
    <2>3. Cmd!NoText \in cmdHistory.mistaken
        BY DEF CmdInv, CmdPlaces
    <2>4. (text = open.editor.text => ~open.editor.busy) /\ (text = newBot.name => ~newBot.busy)
        BY <1>1, <1>3 DEF CmdInv, CmdPlaces
    <2> QED BY <1>7, <2>1, <2>2, <2>3, <2>4, CmdNotSent
<1>16. \A q \in cmdInFlight : q.kind # "create"
    BY <1>1 DEF CmdInv, CmdSent, CmdFits
<1>17. CmdApart' /\ CmdTaken' /\ CmdKept'
    BY <1>1, <1>2, <1>6, <1>7, <1>13, <1>14, <1>15, <1>16, CmdSendsMore
<1>18. CmdSent'
    <2>1. r.id =< cmdUsed'.requests /\ r.text =< cmdUsed'.texts
        BY <1>2, <1>3, <1>7, <1>9 DEF CmdInv, CmdPlaces, CmdTypes, Cmd!NoText
    <2>2. CmdFits(r)'
        BY <1>1, <1>3, <1>4, <1>9, <1>10, <2>1 DEF CmdFits
    <2> QED BY <1>1, <1>7, <1>9, <1>10, <1>13, <2>2, CmdSentToo
<1>20. r \notin cmdInFlight
    <2>1. \A q \in cmdInFlight : q.id =< cmdUsed.requests /\ cmdUsed.requests \in Nat
        BY DEF CmdInv, CmdSent, CmdFits, CmdTypes
    <2> QED BY <1>9, <2>1
<1>19. CmdAwaited'
    BY <1>1, <1>3, <1>4, <1>9, <1>10 DEF CmdInv, CmdAwaited
<1> QED BY <1>11, <1>12, <1>17, <1>18, <1>19 DEF CmdInv

\* A request comes to an answer, and is otherwise what it was.
LEMMA CmdReplaced ==
    ASSUME CmdInv, NEW r \in cmdInFlight, NEW n \in CmdRequests,
           n.id = r.id, n.kind = r.kind, n.bot = r.bot, n.text = r.text,
           cmdInFlight' = (cmdInFlight \ {r}) \cup {n}, UNCHANGED <<open, drafts, newBot>>,
           cmdUsed'.texts = cmdUsed.texts, cmdUsed'.requests = cmdUsed.requests,
           CmdOut' = CmdOut, cmdHistory'.mistaken = cmdHistory.mistaken,
           cmdTaken \subseteq cmdTaken', n.answer = "ok" => <<n.id, n.text>> \in cmdTaken'
    PROVE  CmdPlaces' /\ CmdSent' /\ CmdApart' /\ CmdKept' /\ CmdAwaited'
<1>1. CmdPlaces'
    BY DEF CmdInv, CmdPlaces
<1>2. \A t : Cmd!Shown(t)' <=> Cmd!Shown(t)
    BY DEF Cmd!Shown
<1>3. CmdSent'
    <2> SUFFICES ASSUME NEW q \in cmdInFlight'
                 PROVE  CmdFits(q)'
        BY DEF CmdSent
    <2>1. PICK o \in cmdInFlight : /\ o.id = q.id /\ o.kind = q.kind /\ o.bot = q.bot /\ o.text = q.text
                                   /\ o.answer = q.answer \/ q = n
        OBVIOUS
    <2>2. CmdFits(o) /\ q.text \in Nat
        BY DEF CmdInv, CmdSent, CmdTypes, CmdRequests
    <2>3. q.answer = "ok" => <<q.id, q.text>> \in cmdTaken'
        <3>1. CASE q = n
            BY <3>1
        <3>2. CASE q # n
            BY <3>2, <2>1, <2>2 DEF CmdFits
        <3> QED BY <3>1, <3>2
    <2>4. ~Cmd!Shown(o.text) => ~Cmd!Shown(q.text)'
        BY <2>1, q' = q DEF Cmd!Shown
    <2>5. /\ q.id =< cmdUsed'.requests /\ q.text =< cmdUsed'.texts
          /\ q.kind \in {"stop", "pin"} => q.text = Cmd!NoText
          /\ q.kind = "create" => newBot'.busy /\ newBot'.name = q.text
        BY <2>1, <2>2 DEF CmdFits
    <2>6. q.kind = "send" /\ q.text \notin cmdHistory'.mistaken
              => \/ q.bot = open'.bot /\ open'.sending /\ open'.draft = q.text
                 \/ q.text \in CmdOut' /\ ~Cmd!Shown(q.text)'
        BY <2>1, <2>2, <2>4 DEF CmdFits
    <2>7. q.kind = "save" /\ q.text \notin cmdHistory'.mistaken
              => \/ q.bot = open'.bot /\ open'.editor.busy /\ open'.editor.text = q.text
                 \/ q.text \in CmdOut' /\ ~Cmd!Shown(q.text)'
        BY <2>1, <2>2, <2>4 DEF CmdFits
    <2> QED BY <2>3, <2>5, <2>6, <2>7 DEF CmdFits
<1>4. CmdApart'
    BY DEF CmdInv, CmdApart
<1>5. CmdKept'
    <2> SUFFICES ASSUME NEW t \in 1..cmdUsed.texts, t \notin CmdOut
                 PROVE  Cmd!Shown(t)' \/ (\E q \in cmdInFlight' : q.text = t) \/ (\E p \in cmdTaken' : p[2] = t)
        BY DEF CmdKept
    <2>1. Cmd!Shown(t) \/ (\E q \in cmdInFlight : q.text = t) \/ (\E p \in cmdTaken : p[2] = t)
        BY DEF CmdInv, CmdKept
    <2> QED BY <1>2, <2>1
<1>6. CmdAwaited'
    <2>1. \A q \in cmdInFlight : \E o \in cmdInFlight' : o.kind = q.kind /\ o.bot = q.bot
        OBVIOUS
    <2>2. (\E q, o \in cmdInFlight : /\ q # o /\ q.kind \in {"pin", "save"} /\ o.kind \in {"pin", "save"}
                                     /\ q.bot = open.bot /\ o.bot = open.bot)
          => (\E q, o \in cmdInFlight' : /\ q # o /\ q.kind \in {"pin", "save"} /\ o.kind \in {"pin", "save"}
                                         /\ q.bot = open.bot /\ o.bot = open.bot)
        <3> SUFFICES ASSUME NEW q \in cmdInFlight, NEW o \in cmdInFlight, q # o,
                            q.kind \in {"pin", "save"}, o.kind \in {"pin", "save"},
                            q.bot = open.bot, o.bot = open.bot
                     PROVE  \E x, y \in cmdInFlight' :
                                /\ x # y /\ x.kind \in {"pin", "save"} /\ y.kind \in {"pin", "save"}
                                /\ x.bot = open.bot /\ y.bot = open.bot
            OBVIOUS
        <3>1. n.id = q.id => r = q
            BY DEF CmdInv, CmdApart
        <3>2. n.id = o.id => r = o
            BY DEF CmdInv, CmdApart
        <3>3. CASE q = r
            <4>1. o \in cmdInFlight' /\ n \in cmdInFlight' /\ n # o
                BY <3>2, <3>3
            <4> QED BY <3>3, <4>1
        <3>4. CASE o = r
            <4>1. q \in cmdInFlight' /\ n \in cmdInFlight' /\ n # q
                BY <3>1, <3>4
            <4> QED BY <3>4, <4>1
        <3>5. CASE q # r /\ o # r
            BY <3>5
        <3> QED BY <3>3, <3>4, <3>5
    <2> QED BY <2>1, <2>2 DEF CmdInv, CmdAwaited
<1> QED BY <1>1, <1>3, <1>4, <1>5, <1>6

\* A request with its answer is the same request.
LEMMA CmdAnswered ==
    ASSUME NEW r \in CmdRequests, NEW a \in {"none", "ok", "error"}
    PROVE  \E n \in CmdRequests : /\ n = [r EXCEPT !.answer = a] /\ n.answer = a
                                  /\ n.id = r.id /\ n.kind = r.kind /\ n.bot = r.bot /\ n.text = r.text
<1> DEFINE m == [r EXCEPT !.answer = a]
<1>1. /\ m \in CmdRequests /\ m.answer = a
      /\ m.id = r.id /\ m.kind = r.kind /\ m.bot = r.bot /\ m.text = r.text
    BY DEF CmdRequests
<1> QED BY <1>1

\* The gateway takes a request.
LEMMA CmdServes ==
    ASSUME CmdInv, NEW r \in cmdInFlight, Cmd!Serve(r)
    PROVE  CmdInv'
<1>1. PICK answer \in {"ok", "error"} :
          /\ r.answer = "none"
          /\ cmdInFlight' = (cmdInFlight \ {r}) \cup {[r EXCEPT !.answer = answer]}
          /\ cmdTaken' = IF answer = "ok" THEN cmdTaken \cup {<<r.id, r.text>>} ELSE cmdTaken
          /\ cmdHistory' = IF answer = "error" /\ r.kind = "send"
                           THEN [cmdHistory EXCEPT !.refused = @ \cup {r.text}] ELSE cmdHistory
          /\ UNCHANGED <<open, drafts, newBot, cmdUsed>>
    BY DEF Cmd!Serve
<1>2. r \in CmdRequests /\ r.text \in Nat /\ r.id \in Nat
    BY DEF CmdInv, CmdTypes, CmdRequests
<1>22. answer \in {"none", "ok", "error"}
    OBVIOUS
<1>3. PICK n \in CmdRequests : /\ n = [r EXCEPT !.answer = answer] /\ n.answer = answer
                               /\ n.id = r.id /\ n.kind = r.kind /\ n.bot = r.bot /\ n.text = r.text
    BY <1>2, <1>22, CmdAnswered
<1>4. /\ cmdHistory' \in CmdHistories
      /\ CmdOut' = CmdOut /\ cmdHistory'.mistaken = cmdHistory.mistaken
      /\ cmdHistory'.unsure = cmdHistory.unsure
    <2>1. cmdHistory \in CmdHistories
        BY DEF CmdInv, CmdTypes
    <2>2. /\ cmdHistory' \in CmdHistories
          /\ cmdHistory'.dropped = cmdHistory.dropped /\ cmdHistory'.given = cmdHistory.given
          /\ cmdHistory'.left = cmdHistory.left /\ cmdHistory'.mistaken = cmdHistory.mistaken
          /\ cmdHistory'.unsure = cmdHistory.unsure
        BY <1>1, <1>2, <2>1 DEF CmdHistories
    <2> QED BY <2>2 DEF CmdOut
<1>5. cmdTaken' \subseteq Nat \X Nat /\ IsFiniteSet(cmdTaken') /\ cmdTaken \subseteq cmdTaken'
    <2>1. cmdTaken \subseteq Nat \X Nat /\ IsFiniteSet(cmdTaken) /\ <<r.id, r.text>> \in Nat \X Nat
        BY <1>2 DEF CmdInv, CmdTypes
    <2>2. CASE answer = "ok"
        <3>1. cmdTaken' = cmdTaken \cup {<<r.id, r.text>>}
            BY <1>1, <2>2
        <3>2. IsFiniteSet(cmdTaken')
            BY <2>1, <3>1, FS_AddElement
        <3> QED BY <2>1, <3>1, <3>2
    <2>3. CASE answer # "ok"
        BY <1>1, <2>1, <2>3
    <2> QED BY <2>2, <2>3
<1>6. cmdInFlight' = (cmdInFlight \ {r}) \cup {n} /\ cmdInFlight' \subseteq CmdRequests
    BY <1>1, <1>3 DEF CmdInv, CmdTypes
<1>7. CmdTypes'
    BY <1>1, <1>4, <1>5, <1>6 DEF CmdInv, CmdTypes
<1>8. n.answer = "ok" => <<n.id, n.text>> \in cmdTaken'
    BY <1>1, <1>3
<1>9. CmdPlaces' /\ CmdSent' /\ CmdApart' /\ CmdKept' /\ CmdAwaited'
    BY <1>1, <1>3, <1>4, <1>5, <1>6, <1>8, CmdReplaced
<1>10. CmdTaken'
    <2>1. ASSUME NEW s \in cmdTaken, s[2] = r.text, r.text \notin cmdHistory.mistaken \cup cmdHistory.unsure
          PROVE  FALSE
        <3>1. PICK q \in cmdInFlight : q.text = r.text /\ q.answer = "ok"
            BY <2>1 DEF CmdInv, CmdTaken
        <3>2. q = r
            BY <2>1, <3>1 DEF CmdInv, CmdApart
        <3> QED BY <1>1, <3>1, <3>2
    <2> SUFFICES ASSUME NEW p \in cmdTaken'
                 PROVE  /\ p[2] =< cmdUsed'.texts
                        /\ p[2] \notin cmdHistory'.mistaken \cup cmdHistory'.unsure
                               => \/ \E q \in cmdInFlight' : q.text = p[2] /\ q.answer = "ok"
                                  \/ ~Cmd!Shown(p[2])' /\ \A q \in cmdInFlight' : q.text # p[2]
                        /\ \A s \in cmdTaken' : s[2] = p[2] /\ p[2] \notin cmdHistory'.mistaken \cup cmdHistory'.unsure
                               => s = p
        BY DEF CmdTaken
    <2>2. CASE p \in cmdTaken
        <3>1. PICK t \in Nat : t = p[2]
            BY <2>2 DEF CmdInv, CmdTypes
        <3>2. t \notin cmdHistory.mistaken \cup cmdHistory.unsure
                  => \/ \E q \in cmdInFlight : q.text = t /\ q.answer = "ok"
                     \/ ~Cmd!Shown(t) /\ \A q \in cmdInFlight : q.text # t
            BY <2>2, <3>1 DEF CmdInv, CmdTaken
        <3>3. t \notin cmdHistory.mistaken \cup cmdHistory.unsure
                  => \/ \E q \in cmdInFlight' : q.text = t /\ q.answer = "ok"
                     \/ ~Cmd!Shown(t) /\ \A q \in cmdInFlight' : q.text # t
            BY <1>1, <1>3, <1>6, <3>2
        <3>4. ~Cmd!Shown(t) => ~Cmd!Shown(p[2])'
            BY <1>1, <3>1, p' = p DEF Cmd!Shown
        <3>5. /\ p[2] =< cmdUsed.texts
              /\ \A s \in cmdTaken : s[2] = p[2] /\ p[2] \notin cmdHistory.mistaken \cup cmdHistory.unsure =>
                                         s = p
            BY <2>2 DEF CmdInv, CmdTaken
        <3>6. ASSUME NEW s \in cmdTaken', s[2] = p[2], p[2] \notin cmdHistory.mistaken \cup cmdHistory.unsure
              PROVE  s = p
            <4>1. CASE s \in cmdTaken
                BY <3>5, <3>6, <4>1
            <4>2. CASE s = <<r.id, r.text>>
                BY <2>1, <2>2, <3>6, <4>2
            <4> QED BY <1>1, <3>6, <4>1, <4>2
        <3> QED BY <1>1, <1>4, <3>1, <3>3, <3>4, <3>5, <3>6
    <2>3. CASE p \notin cmdTaken
        <3>1. p = <<r.id, r.text>> /\ answer = "ok" /\ p[2] = r.text
            BY <1>1, <2>3
        <3>2. p[2] =< cmdUsed'.texts
            BY <1>1, <3>1 DEF CmdInv, CmdSent, CmdFits
        <3>3. \E q \in cmdInFlight' : q.text = p[2] /\ q.answer = "ok"
            BY <1>3, <1>6, <3>1
        <3>4. ASSUME NEW s \in cmdTaken', s[2] = p[2], p[2] \notin cmdHistory.mistaken \cup cmdHistory.unsure
              PROVE  s = p
            <4>1. CASE s \in cmdTaken
                BY <2>1, <3>1, <3>4, <4>1
            <4>2. CASE s \notin cmdTaken
                BY <1>1, <3>1, <4>2
            <4> QED BY <4>1, <4>2
        <3> QED BY <1>4, <3>2, <3>3, <3>4
    <2> QED BY <2>2, <2>3
<1> QED BY <1>7, <1>9, <1>10 DEF CmdInv

\* A request, or its answer, is lost.
LEMMA CmdLoses ==
    ASSUME CmdInv, NEW r \in cmdInFlight, Cmd!Lose(r)
    PROVE  CmdInv'
<1>1. /\ r.answer \in {"none", "ok"}
      /\ cmdInFlight' = (cmdInFlight \ {r}) \cup {[r EXCEPT !.answer = "error"]}
      /\ cmdUsed' = [cmdUsed EXCEPT !.faults = @ + 1]
      /\ cmdHistory' = IF r.answer = "ok" THEN [cmdHistory EXCEPT !.unsure = @ \cup {r.text}] ELSE cmdHistory
      /\ UNCHANGED <<open, drafts, newBot, cmdTaken>>
    BY DEF Cmd!Lose
<1>2. r \in CmdRequests /\ r.text \in Nat /\ r.id \in Nat
    BY DEF CmdInv, CmdTypes, CmdRequests
<1>3. PICK n \in CmdRequests : /\ n = [r EXCEPT !.answer = "error"] /\ n.answer = "error"
                               /\ n.id = r.id /\ n.kind = r.kind /\ n.bot = r.bot /\ n.text = r.text
    BY <1>2, CmdAnswered
<1>4. /\ cmdHistory' \in CmdHistories
      /\ CmdOut' = CmdOut /\ cmdHistory'.mistaken = cmdHistory.mistaken
      /\ cmdHistory.unsure \subseteq cmdHistory'.unsure
      /\ r.answer = "ok" => r.text \in cmdHistory'.unsure
    <2>1. cmdHistory \in CmdHistories
        BY DEF CmdInv, CmdTypes
    <2>2. CASE r.answer = "ok"
        <3>1. cmdHistory' = [cmdHistory EXCEPT !.unsure = @ \cup {r.text}]
            BY <1>1, <2>2
        <3>2. /\ cmdHistory' \in CmdHistories
              /\ cmdHistory'.dropped = cmdHistory.dropped /\ cmdHistory'.given = cmdHistory.given
              /\ cmdHistory'.left = cmdHistory.left /\ cmdHistory'.mistaken = cmdHistory.mistaken
              /\ cmdHistory'.unsure = cmdHistory.unsure \cup {r.text}
            BY <1>2, <2>1, <3>1 DEF CmdHistories
        <3> QED BY <3>2 DEF CmdOut
    <2>3. CASE r.answer # "ok"
        BY <1>1, <2>1, <2>3 DEF CmdOut
    <2> QED BY <2>2, <2>3
<1>5. /\ cmdUsed' \in [texts : Nat, requests : Nat, pins : Nat, opens : Nat, faults : Nat]
      /\ cmdUsed'.texts = cmdUsed.texts /\ cmdUsed'.requests = cmdUsed.requests
    BY <1>1 DEF CmdInv, CmdTypes
<1>6. cmdInFlight' = (cmdInFlight \ {r}) \cup {n} /\ cmdInFlight' \subseteq CmdRequests
    BY <1>1, <1>3 DEF CmdInv, CmdTypes
<1>7. CmdTypes'
    BY <1>1, <1>4, <1>5, <1>6 DEF CmdInv, CmdTypes
<1>9. CmdPlaces' /\ CmdSent' /\ CmdApart' /\ CmdKept' /\ CmdAwaited'
    BY <1>1, <1>3, <1>4, <1>5, <1>6, CmdReplaced
<1>10. CmdTaken'
    <2> SUFFICES ASSUME NEW p \in cmdTaken
                 PROVE  /\ p[2] =< cmdUsed'.texts
                        /\ p[2] \notin cmdHistory'.mistaken \cup cmdHistory'.unsure
                               => \/ \E q \in cmdInFlight' : q.text = p[2] /\ q.answer = "ok"
                                  \/ ~Cmd!Shown(p[2])' /\ \A q \in cmdInFlight' : q.text # p[2]
                        /\ \A s \in cmdTaken : s[2] = p[2] /\ p[2] \notin cmdHistory'.mistaken \cup cmdHistory'.unsure
                               => s = p
        BY <1>1 DEF CmdTaken
    <2>1. PICK t \in Nat : t = p[2]
        BY DEF CmdInv, CmdTypes
    <2>2. t \notin cmdHistory.mistaken \cup cmdHistory.unsure
              => \/ \E q \in cmdInFlight : q.text = t /\ q.answer = "ok"
                 \/ ~Cmd!Shown(t) /\ \A q \in cmdInFlight : q.text # t
        BY <2>1 DEF CmdInv, CmdTaken
    <2>3. t \notin cmdHistory'.mistaken \cup cmdHistory'.unsure
              => \/ \E q \in cmdInFlight' : q.text = t /\ q.answer = "ok"
                 \/ ~Cmd!Shown(t) /\ \A q \in cmdInFlight' : q.text # t
        BY <1>1, <1>3, <1>4, <1>6, <2>2
    <2>4. ~Cmd!Shown(t) => ~Cmd!Shown(p[2])'
        BY <1>1, <2>1, p' = p DEF Cmd!Shown
    <2>5. /\ p[2] =< cmdUsed.texts
          /\ \A s \in cmdTaken : s[2] = p[2] /\ p[2] \notin cmdHistory.mistaken \cup cmdHistory.unsure => s = p
        BY DEF CmdInv, CmdTaken
    <2> QED BY <1>4, <1>5, <2>1, <2>3, <2>4, <2>5
<1> QED BY <1>7, <1>9, <1>10 DEF CmdInv

\* What hearing an answer settles of the texts.
CmdSettles(r) ==
    /\ cmdHistory' \in CmdHistories
    /\ CmdOut \subseteq CmdOut' /\ cmdHistory'.unsure = cmdHistory.unsure
    /\ cmdHistory.mistaken \subseteq cmdHistory'.mistaken /\ cmdHistory'.mistaken \subseteq CmdOut'
    /\ r.kind = "send" /\ r.bot = open.bot /\ open.sending /\ r.text # open.draft
       /\ (r.answer = "ok" \/ \E q \in cmdInFlight : q.text = open.draft)
           => open.draft \in cmdHistory'.mistaken
    /\ r.kind \in {"pin", "save"} /\ r.bot = open.bot /\ open.editor.busy /\ r.text # open.editor.text
           => open.editor.text \in cmdHistory'.mistaken

LEMMA CmdMistakes ==
    ASSUME CmdInv, NEW r \in cmdInFlight, Cmd!Answer(r)
    PROVE  CmdSettles(r)
<1>1. /\ cmdHistory \in CmdHistories /\ open.draft \in Nat /\ open.editor.text \in Nat
      /\ cmdHistory' = [cmdHistory EXCEPT !.mistaken = @ \cup Cmd!Mistaken(r)]
    BY DEF CmdInv, CmdTypes, CmdConversations, CmdEditors, Cmd!Answer
<1>2. PICK m \in SUBSET Nat : m = Cmd!Mistaken(r)
    BY <1>1 DEF Cmd!Mistaken
<1>3. cmdHistory' = [cmdHistory EXCEPT !.mistaken = @ \cup m]
    BY <1>1, <1>2
<1>4. /\ cmdHistory' \in CmdHistories
      /\ cmdHistory'.mistaken = cmdHistory.mistaken \cup m /\ cmdHistory'.dropped = cmdHistory.dropped
      /\ cmdHistory'.given = cmdHistory.given /\ cmdHistory'.left = cmdHistory.left
      /\ cmdHistory'.unsure = cmdHistory.unsure
    BY <1>1, <1>3 DEF CmdHistories
<1>5. CmdOut \subseteq CmdOut' /\ cmdHistory'.mistaken \subseteq CmdOut'
    BY <1>4 DEF CmdOut
<1>6. r.kind = "send" /\ r.bot = open.bot /\ open.sending /\ r.text # open.draft
      /\ (r.answer = "ok" \/ \E q \in cmdInFlight : q.text = open.draft)
          => open.draft \in m
    BY <1>2 DEF Cmd!Mistaken, Cmd!MistakesDraft
<1>7. r.kind \in {"pin", "save"} /\ r.bot = open.bot /\ open.editor.busy /\ r.text # open.editor.text
          => open.editor.text \in m
    BY <1>2 DEF Cmd!Mistaken, Cmd!MistakesEdit
<1> QED BY <1>4, <1>5, <1>6, <1>7 DEF CmdSettles

\* An answer is heard: what it leaves of what the page shows and awaits.
LEMMA CmdHears ==
    ASSUME CmdConstants, CmdInv, NEW r \in cmdInFlight, cmdInFlight' = cmdInFlight \ {r}, r.answer # "none",
           CmdSettles(r), UNCHANGED <<drafts, cmdTaken, cmdUsed>>,
           open'.bot = open.bot, open.bot = Cmd!NoBot => open' = open,
           open'.sending => open.sending /\ open'.draft = open.draft,
           open.sending /\ ~open'.sending => r.kind = "send" /\ r.bot = open.bot,
           \/ open'.draft = open.draft
           \/ /\ open'.draft = Cmd!NoText /\ r.kind = "send" /\ r.bot = open.bot
              /\ open.sending /\ r.answer = "ok",
           open'.editor.busy => open.editor.busy /\ open'.editor.text = open.editor.text,
           open.editor.busy /\ ~open'.editor.busy => r.kind \in {"pin", "save"} /\ r.bot = open.bot,
           \/ open'.editor.text = open.editor.text
           \/ /\ open'.editor.text = Cmd!NoText /\ r.kind \in {"pin", "save"} /\ r.bot = open.bot
              /\ open.editor.busy /\ r.answer = "ok",
           newBot' = newBot \/ r.kind = "create",
           \/ newBot'.name = newBot.name
           \/ newBot'.name = Cmd!NoText /\ r.kind = "create" /\ r.answer = "ok",
           r.kind = "send" /\ r.bot = open.bot /\ open.sending /\ r.answer = "ok" => open'.draft = Cmd!NoText,
           r.kind \in {"pin", "save"} /\ r.bot = open.bot /\ open.editor.busy /\ r.answer = "ok"
               => open'.editor.text = Cmd!NoText,
           r.kind = "create" /\ r.answer = "ok" => newBot'.name = Cmd!NoText
    PROVE  CmdPlaces' /\ CmdSent' /\ CmdApart' /\ CmdTaken' /\ CmdKept'
<1>1. /\ r \in CmdRequests /\ r.text \in Nat /\ cmdUsed.texts \in Nat /\ Cmd!NoText \in cmdHistory.mistaken
      /\ open.draft \in Nat /\ open.editor.text \in Nat /\ newBot.name \in Nat
      /\ drafts \in [Bots -> Nat] /\ cmdInFlight \subseteq CmdRequests
      /\ r.answer \in {"ok", "error"} /\ CmdFits(r)
    BY DEF CmdInv, CmdTypes, CmdPlaces, CmdSent, CmdRequests, CmdConversations, CmdEditors
<1>10. /\ cmdHistory'.unsure = cmdHistory.unsure /\ cmdHistory.mistaken \subseteq cmdHistory'.mistaken
       /\ CmdOut \subseteq CmdOut' /\ cmdHistory'.mistaken \subseteq CmdOut'
       /\ Cmd!NoText \in cmdHistory'.mistaken
    BY <1>1 DEF CmdSettles
<1>2. CmdPlaces'
    <2>1. Cmd!NoText =< cmdUsed.texts
        BY <1>1 DEF Cmd!NoText
    <2>2. open'.bot = Cmd!NoBot => open' = Cmd!Closed
        BY DEF CmdInv, CmdPlaces
    <2> QED BY <1>1, <1>10, <2>1, <2>2 DEF CmdInv, CmdPlaces
<1>3. \A t : t \notin cmdHistory'.mistaken /\ Cmd!Shown(t)' => Cmd!Shown(t)
    BY <1>10 DEF Cmd!Shown
<1>4. CmdApart'
    BY <1>10 DEF CmdInv, CmdApart
\* What an answer takes from the page is what it answers, or mistaken for it.
<1>5. /\ open'.draft # open.draft => open.draft \in cmdHistory'.mistaken \/ open.draft = r.text
      /\ open'.editor.text # open.editor.text
             => open.editor.text \in cmdHistory'.mistaken \/ open.editor.text = r.text
      /\ newBot'.name # newBot.name => newBot.name = r.text
    BY <1>1 DEF CmdSettles, CmdFits
<1>6. CmdSent'
    <2> SUFFICES ASSUME NEW q \in cmdInFlight, q # r
                 PROVE  CmdFits(q)'
        BY DEF CmdSent
    <2>1. CmdFits(q) /\ (q.text \notin cmdHistory'.mistaken => q.text # r.text)
        BY <1>10 DEF CmdInv, CmdApart, CmdSent
    <2>2. q.kind = "create" => newBot' = newBot
        BY DEF CmdInv, CmdApart
    <2>3. q.kind = "create" => newBot'.busy /\ newBot'.name = q.text
        BY <2>1, <2>2 DEF CmdFits
    <2>4. PICK t \in Nat : t = q.text
        BY <1>1 DEF CmdRequests
    <2>5. ~Cmd!Shown(q.text) => ~Cmd!Shown(t)
        BY <2>4
    <2>6. ASSUME q.kind = "send", t \notin cmdHistory'.mistaken
          PROVE  \/ q.bot = open'.bot /\ open'.sending /\ open'.draft = t
                 \/ t \in CmdOut' /\ ~Cmd!Shown(t)'
        <3>1. CASE q.bot = open.bot /\ open.sending /\ open.draft = t
            <4>1. r.kind = "send" /\ r.bot = open.bot => FALSE
                BY <2>1, <2>4, <2>6, <3>1 DEF CmdSettles
            <4> QED BY <3>1, <4>1
        <3>2. CASE t \in CmdOut /\ ~Cmd!Shown(t)
            BY <1>3, <1>10, <2>6, <3>2
        <3> QED BY <1>10, <2>1, <2>4, <2>5, <2>6, <3>1, <3>2 DEF CmdFits
    <2>7. ASSUME q.kind = "save", t \notin cmdHistory'.mistaken
          PROVE  \/ q.bot = open'.bot /\ open'.editor.busy /\ open'.editor.text = t
                 \/ t \in CmdOut' /\ ~Cmd!Shown(t)'
        <3>1. CASE q.bot = open.bot /\ open.editor.busy /\ open.editor.text = t
            <4>1. r.kind \in {"pin", "save"} /\ r.bot = open.bot => FALSE
                BY <2>1, <2>4, <2>7, <3>1 DEF CmdSettles
            <4> QED BY <3>1, <4>1
        <3>2. CASE t \in CmdOut /\ ~Cmd!Shown(t)
            BY <1>3, <1>10, <2>7, <3>2
        <3> QED BY <1>10, <2>1, <2>4, <2>5, <2>7, <3>1, <3>2 DEF CmdFits
    <2>8. ~Cmd!Shown(t)' => ~Cmd!Shown(q.text)'
        BY <2>4, q' = q DEF Cmd!Shown
    <2>9. /\ q.id =< cmdUsed'.requests /\ q.text =< cmdUsed'.texts
          /\ q.kind \in {"stop", "pin"} => q.text = Cmd!NoText
          /\ q.answer = "ok" => <<q.id, q.text>> \in cmdTaken'
        BY <2>1 DEF CmdFits
    <2> QED BY <2>3, <2>4, <2>6, <2>7, <2>8, <2>9 DEF CmdFits
\* What was taken is gone from the page.
<1>7. ASSUME r.answer = "ok", r.text \notin cmdHistory'.mistaken, NEW t \in Nat, t = r.text
      PROVE  ~Cmd!Shown(t)'
    <2>1. t # Cmd!NoText /\ (~Cmd!Shown(r.text) => ~Cmd!Shown(t))
        BY <1>7, <1>10
    <2>2. r.kind \in {"send", "save", "create"}
        BY <1>1, <1>7, <2>1 DEF CmdFits, CmdRequests
    <2>3. CASE ~Cmd!Shown(t)
        BY <1>3, <1>7, <2>3
    <2>4. CASE r.kind = "send" /\ Cmd!Shown(t)
        <3>1. open.draft = t /\ open'.draft = Cmd!NoText
            BY <1>1, <1>7, <1>10, <2>1, <2>4 DEF CmdFits
        <3> QED BY <2>1, <3>1 DEF Cmd!Shown, CmdInv, CmdPlaces
    <2>5. CASE r.kind = "create"
        <3>1. newBot.name = t /\ newBot'.name = Cmd!NoText
            BY <1>1, <1>7, <2>5 DEF CmdFits
        <3> QED BY <2>1, <3>1 DEF Cmd!Shown, CmdInv, CmdPlaces
    <2>6. CASE r.kind = "save" /\ Cmd!Shown(t)
        <3>1. open.editor.text = t /\ open'.editor.text = Cmd!NoText
            BY <1>1, <1>7, <1>10, <2>1, <2>6 DEF CmdFits
        <3> QED BY <2>1, <3>1 DEF Cmd!Shown, CmdInv, CmdPlaces
    <2> QED BY <2>2, <2>3, <2>4, <2>5, <2>6
<1>8. CmdTaken'
    <2> SUFFICES ASSUME NEW p \in cmdTaken
                 PROVE  /\ p[2] =< cmdUsed.texts
                        /\ p[2] \notin cmdHistory'.mistaken \cup cmdHistory'.unsure
                               => \/ \E q \in cmdInFlight' : q.text = p[2] /\ q.answer = "ok"
                                  \/ ~Cmd!Shown(p[2])' /\ \A q \in cmdInFlight' : q.text # p[2]
                        /\ \A s \in cmdTaken : s[2] = p[2] /\ p[2] \notin cmdHistory'.mistaken \cup cmdHistory'.unsure
                               => s = p
        BY DEF CmdTaken
    <2>1. PICK t \in Nat : t = p[2]
        BY DEF CmdInv, CmdTypes
    <2>2. ASSUME t \notin cmdHistory'.mistaken \cup cmdHistory'.unsure
          PROVE  \/ \E q \in cmdInFlight' : q.text = t /\ q.answer = "ok"
                 \/ ~Cmd!Shown(t)' /\ \A q \in cmdInFlight' : q.text # t
        <3>1. CASE \E q \in cmdInFlight : q.text = t /\ q.answer = "ok"
            <4>1. PICK q \in cmdInFlight : q.text = t /\ q.answer = "ok"
                BY <3>1
            <4>2. CASE q = r
                <5>1. ~Cmd!Shown(t)'
                    BY <1>7, <2>2, <4>1, <4>2
                <5>2. \A o \in cmdInFlight' : o.text # t
                    BY <1>10, <2>2, <4>1, <4>2 DEF CmdInv, CmdApart
                <5> QED BY <5>1, <5>2
            <4>3. CASE q # r
                BY <4>1, <4>3
            <4> QED BY <4>2, <4>3
        <3>2. CASE ~Cmd!Shown(t) /\ \A q \in cmdInFlight : q.text # t
            BY <1>3, <2>2, <3>2
        <3>3. t \notin cmdHistory.mistaken \cup cmdHistory.unsure
            BY <1>10, <2>2
        <3>4. \/ \E q \in cmdInFlight : q.text = t /\ q.answer = "ok"
              \/ ~Cmd!Shown(t) /\ \A q \in cmdInFlight : q.text # t
            BY <2>1, <3>3 DEF CmdInv, CmdTaken
        <3> QED BY <3>1, <3>2, <3>4
    <2>3. ~Cmd!Shown(t)' => ~Cmd!Shown(p[2])'
        BY <2>1, p' = p DEF Cmd!Shown
    <2>4. /\ p[2] =< cmdUsed.texts
          /\ \A s \in cmdTaken : s[2] = p[2] /\ p[2] \notin cmdHistory.mistaken \cup cmdHistory.unsure => s = p
        BY DEF CmdInv, CmdTaken
    <2> QED BY <1>10, <2>1, <2>2, <2>3, <2>4
<1>9. CmdKept'
    <2> SUFFICES ASSUME NEW t \in 1..cmdUsed.texts, t \notin CmdOut'
                 PROVE  Cmd!Shown(t)' \/ (\E q \in cmdInFlight' : q.text = t) \/ (\E p \in cmdTaken : p[2] = t)
        BY DEF CmdKept
    <2>1. r.answer = "ok" => <<r.id, r.text>> \in cmdTaken
        BY <1>1 DEF CmdFits
    <2>2. r.answer = "ok" /\ t = r.text => \E p \in cmdTaken : p[2] = t
        BY <2>1
    <2>6. t \notin CmdOut /\ t \notin cmdHistory'.mistaken /\ t \notin cmdHistory.mistaken
        BY <1>10
    <2>3. CASE Cmd!Shown(t) /\ ~(r.answer = "ok" /\ t = r.text)
        <3>1. t = open.draft => open'.draft = t
            BY <1>5, <2>3, <2>6
        <3>2. t = open.editor.text => open'.editor.text = t
            BY <1>5, <2>3, <2>6
        <3>3. t = newBot.name => newBot'.name = t
            BY <1>5, <2>3
        <3> QED BY <2>3, <3>1, <3>2, <3>3 DEF Cmd!Shown
    <2>4. ASSUME NEW q \in cmdInFlight, q.text = t
          PROVE  q \in cmdInFlight' \/ Cmd!Shown(t) \/ (r.answer = "ok" /\ t = r.text)
        <3> SUFFICES ASSUME q = r
                     PROVE  Cmd!Shown(t)
            BY <2>4
        <3>1. ~Cmd!Shown(r.text) => ~Cmd!Shown(t)
            BY <2>4
        <3>2. r.kind \in {"stop", "pin"} => FALSE
            BY <1>1, <1>10, <2>4, <2>6 DEF CmdFits
        <3>3. CASE r.kind = "send"
            BY <1>1, <2>4, <2>6, <3>1, <3>3 DEF CmdFits, Cmd!Shown
        <3>4. CASE r.kind = "save"
            BY <1>1, <2>4, <2>6, <3>1, <3>4 DEF CmdFits, Cmd!Shown
        <3>5. CASE r.kind = "create"
            BY <1>1, <2>4, <3>5 DEF CmdFits, Cmd!Shown
        <3> QED BY <1>1, <3>2, <3>3, <3>4, <3>5 DEF CmdRequests
    <2>5. Cmd!Shown(t) \/ (\E q \in cmdInFlight : q.text = t) \/ (\E p \in cmdTaken : p[2] = t)
        BY <2>6 DEF CmdInv, CmdKept
    <2> QED BY <2>2, <2>3, <2>4, <2>5
<1> QED BY <1>2, <1>4, <1>6, <1>8, <1>9

\* What the page awaits beside what it hears is still on its way.
LEMMA CmdAwaitsRest ==
    ASSUME CmdInv, NEW r \in cmdInFlight, cmdInFlight' = cmdInFlight \ {r}, open'.bot = open.bot,
           open'.sending => open.sending /\ ~(r.kind = "send" /\ r.bot = open.bot),
           open'.stopping => open.stopping /\ ~(r.kind = "stop" /\ r.bot = open.bot),
           open'.updating => open.updating, open'.editor.busy => open.editor.busy,
           r.kind \in {"pin", "save"} /\ r.bot = open.bot
               => /\ ~open'.editor.busy
                  /\ open'.updating => open.editor.busy,
           newBot'.busy => newBot.busy /\ r.kind # "create"
    PROVE  CmdAwaited'
<1>1. open'.sending => \E q \in cmdInFlight' : q.kind = "send" /\ q.bot = open'.bot
    BY DEF CmdInv, CmdAwaited
<1>2. open'.stopping => \E q \in cmdInFlight' : q.kind = "stop" /\ q.bot = open'.bot
    BY DEF CmdInv, CmdAwaited
<1>3. newBot'.busy => \E q \in cmdInFlight' : q.kind = "create"
    BY DEF CmdInv, CmdAwaited
<1>4. CASE r.kind \in {"pin", "save"} /\ r.bot = open.bot
    <2>1. open'.updating => \E q \in cmdInFlight' : q.kind \in {"pin", "save"} /\ q.bot = open'.bot
        <3> SUFFICES ASSUME open'.updating
                     PROVE  \E q \in cmdInFlight' : q.kind \in {"pin", "save"} /\ q.bot = open'.bot
            OBVIOUS
        <3>1. open.updating /\ open.editor.busy
            BY <1>4
        <3>2. PICK q, o \in cmdInFlight : /\ q # o /\ q.kind \in {"pin", "save"} /\ o.kind \in {"pin", "save"}
                                          /\ q.bot = open.bot /\ o.bot = open.bot
            BY <3>1 DEF CmdInv, CmdAwaited
        <3> QED BY <3>2
    <2> QED BY <1>1, <1>2, <1>3, <1>4, <2>1 DEF CmdAwaited
<1>5. CASE ~(r.kind \in {"pin", "save"} /\ r.bot = open.bot)
    <2>1. open'.updating \/ open'.editor.busy
              => \E q \in cmdInFlight' : q.kind \in {"pin", "save"} /\ q.bot = open'.bot
        BY <1>5 DEF CmdInv, CmdAwaited
    <2>2. open'.updating /\ open'.editor.busy
              => \E q, o \in cmdInFlight' : /\ q # o /\ q.kind \in {"pin", "save"} /\ o.kind \in {"pin", "save"}
                                            /\ q.bot = open'.bot /\ o.bot = open'.bot
        BY <1>5 DEF CmdInv, CmdAwaited
    <2> QED BY <1>1, <1>2, <1>3, <2>1, <2>2 DEF CmdAwaited
<1> QED BY <1>4, <1>5

\* The answer to a message that the page waits for.
LEMMA CmdSentAnswered ==
    ASSUME CmdConstants, CmdInv, NEW r \in cmdInFlight, Cmd!Answer(r), r.kind = "send", Cmd!Awaits(r)
    PROVE  CmdInv'
<1>1. /\ r.answer # "none" /\ cmdInFlight' = cmdInFlight \ {r} /\ newBot' = newBot
      /\ UNCHANGED <<drafts, cmdTaken, cmdUsed>>
      /\ open' = Cmd!Sent(r) /\ open.bot # Cmd!NoBot /\ open.bot = r.bot
    BY DEF Cmd!Answer, Cmd!Awaits
<1>2. open \in CmdConversations /\ Cmd!NoText \in Nat /\ r \in CmdRequests
    BY DEF CmdInv, CmdTypes, Cmd!NoText
<1>3. /\ open' \in CmdConversations /\ open'.bot = open.bot /\ open'.editor = open.editor
      /\ open'.stopping = open.stopping /\ open'.updating = open.updating /\ ~open'.sending
      /\ open'.draft = IF open.sending /\ r.answer = "ok" THEN Cmd!NoText ELSE open.draft
    BY <1>1, <1>2 DEF Cmd!Sent, CmdConversations
<1>4. CmdTypes'
    BY <1>1, <1>3, CmdMistakes DEF CmdInv, CmdTypes, CmdSettles
<1>5. CmdPlaces' /\ CmdSent' /\ CmdApart' /\ CmdTaken' /\ CmdKept'
    BY <1>1, <1>3, CmdMistakes, CmdHears
<1>6. CmdAwaited'
    BY <1>1, <1>3, CmdAwaitsRest
<1> QED BY <1>4, <1>5, <1>6 DEF CmdInv

\* The answer to a stop that it waits for.
LEMMA CmdStopAnswered ==
    ASSUME CmdConstants, CmdInv, NEW r \in cmdInFlight, Cmd!Answer(r), r.kind = "stop", Cmd!Awaits(r)
    PROVE  CmdInv'
<1>1. /\ r.answer # "none" /\ cmdInFlight' = cmdInFlight \ {r} /\ newBot' = newBot
      /\ UNCHANGED <<drafts, cmdTaken, cmdUsed>>
      /\ open' = [open EXCEPT !.stopping = FALSE] /\ open.bot # Cmd!NoBot /\ open.bot = r.bot
    BY DEF Cmd!Answer, Cmd!Awaits
<1>2. open \in CmdConversations
    BY DEF CmdInv, CmdTypes
<1>3. /\ open' \in CmdConversations /\ open'.bot = open.bot /\ open'.editor = open.editor
      /\ ~open'.stopping /\ open'.updating = open.updating /\ open'.sending = open.sending
      /\ open'.draft = open.draft
    BY <1>1, <1>2 DEF CmdConversations
<1>4. CmdTypes'
    BY <1>1, <1>3, CmdMistakes DEF CmdInv, CmdTypes, CmdSettles
<1>5. CmdPlaces' /\ CmdSent' /\ CmdApart' /\ CmdTaken' /\ CmdKept'
    BY <1>1, <1>3, CmdMistakes, CmdHears
<1>6. CmdAwaited'
    BY <1>1, <1>3, CmdAwaitsRest
<1> QED BY <1>4, <1>5, <1>6 DEF CmdInv

\* The answer to a change of a Bot that it waits for.
LEMMA CmdUpdateAnswered ==
    ASSUME CmdConstants, CmdInv, NEW r \in cmdInFlight, Cmd!Answer(r), r.kind \in {"pin", "save"}, Cmd!Awaits(r)
    PROVE  CmdInv'
<1>1. /\ r.answer # "none" /\ cmdInFlight' = cmdInFlight \ {r} /\ newBot' = newBot
      /\ UNCHANGED <<drafts, cmdTaken, cmdUsed>>
      /\ open' = Cmd!BotUpdated(r) /\ open.bot # Cmd!NoBot /\ open.bot = r.bot
    BY DEF Cmd!Answer, Cmd!Awaits
<1>2. open \in CmdConversations /\ open.editor \in CmdEditors
    BY DEF CmdInv, CmdTypes, CmdConversations
<1>3. /\ open' \in CmdConversations /\ open'.bot = open.bot /\ open'.draft = open.draft
      /\ open'.stopping = open.stopping /\ open'.sending = open.sending /\ ~open'.editor.busy
      /\ open'.updating = (open.updating /\ open.editor.busy)
      /\ open'.editor.text = IF open.editor.busy /\ r.answer = "ok" THEN Cmd!NoText ELSE open.editor.text
    <2>1. CASE open.editor.busy
        <3> DEFINE e == IF r.answer = "ok" THEN Cmd!NoEditor ELSE [open.editor EXCEPT !.busy = FALSE]
        <3>1. /\ e \in CmdEditors /\ ~e.busy
              /\ e.text = IF r.answer = "ok" THEN Cmd!NoText ELSE open.editor.text
            BY <1>2 DEF CmdEditors, Cmd!NoEditor, Cmd!NoText
        <3>2. open' = [open EXCEPT !.editor = e]
            BY <1>1, <2>1 DEF Cmd!BotUpdated
        <3> HIDE DEF e
        <3>3. /\ open' \in CmdConversations /\ open'.bot = open.bot /\ open'.draft = open.draft
              /\ open'.stopping = open.stopping /\ open'.sending = open.sending
              /\ open'.updating = open.updating /\ open'.editor = e /\ open.updating \in BOOLEAN
            BY <1>2, <3>1, <3>2 DEF CmdConversations
        <3> QED BY <2>1, <3>1, <3>3
    <2>2. CASE ~open.editor.busy
        <3>1. open' = [open EXCEPT !.updating = FALSE]
            BY <1>1, <2>2 DEF Cmd!BotUpdated
        <3>2. /\ open' \in CmdConversations /\ open'.bot = open.bot /\ open'.draft = open.draft
              /\ open'.stopping = open.stopping /\ open'.sending = open.sending
              /\ open'.updating = FALSE /\ open'.editor = open.editor /\ open.updating \in BOOLEAN
            BY <1>2, <3>1 DEF CmdConversations
        <3> QED BY <2>2, <3>2
    <2> QED BY <2>1, <2>2
<1>4. CmdTypes'
    BY <1>1, <1>3, CmdMistakes DEF CmdInv, CmdTypes, CmdSettles
<1>5. CmdPlaces' /\ CmdSent' /\ CmdApart' /\ CmdTaken' /\ CmdKept'
    BY <1>1, <1>3, CmdMistakes, CmdHears
<1>6. CmdAwaited'
    BY <1>1, <1>3, CmdAwaitsRest
<1> QED BY <1>4, <1>5, <1>6 DEF CmdInv

\* An answer nobody waits for, and that to a new Bot.
LEMMA CmdOtherAnswered ==
    ASSUME CmdConstants, CmdInv, NEW r \in cmdInFlight, Cmd!Answer(r), ~Cmd!Awaits(r) \/ r.kind = "create"
    PROVE  CmdInv'
<1>1. /\ r.answer # "none" /\ cmdInFlight' = cmdInFlight \ {r}
      /\ UNCHANGED <<drafts, cmdTaken, cmdUsed>> /\ open' = open
      /\ newBot' = IF r.kind # "create" THEN newBot
                   ELSE IF r.answer = "ok" THEN [name |-> Cmd!NoText, busy |-> FALSE]
                   ELSE [newBot EXCEPT !.busy = FALSE]
    BY DEF Cmd!Answer
<1>2. Cmd!NoText \in Nat /\ newBot \in [name : Nat, busy : BOOLEAN] /\ r \in CmdRequests
    BY DEF CmdInv, CmdTypes, Cmd!NoText
<1>3. /\ newBot' \in [name : Nat, busy : BOOLEAN]
      /\ newBot'.name = IF r.kind = "create" /\ r.answer = "ok" THEN Cmd!NoText ELSE newBot.name
      /\ r.kind = "create" => ~newBot'.busy
      /\ newBot' = newBot \/ r.kind = "create"
    BY <1>1, <1>2
<1>4. CmdTypes'
    BY <1>1, <1>3, CmdMistakes DEF CmdInv, CmdTypes, CmdSettles
<1>5. r.kind # "create" /\ r.bot = open.bot => open = Cmd!Closed
    BY DEF Cmd!Awaits, CmdInv, CmdPlaces
<1>6. ~Cmd!Closed.sending /\ ~Cmd!Closed.stopping /\ ~Cmd!Closed.editor.busy /\ ~Cmd!Closed.updating
    BY DEF Cmd!Closed, Cmd!NoEditor
<1>7. CmdPlaces' /\ CmdSent' /\ CmdApart' /\ CmdTaken' /\ CmdKept'
    BY <1>1, <1>3, <1>5, <1>6, CmdMistakes, CmdHears
<1>8. CmdAwaited'
    BY <1>1, <1>3, <1>5, <1>6, CmdAwaitsRest
<1> QED BY <1>4, <1>7, <1>8 DEF CmdInv

\* Every step keeps the invariant.
LEMMA CmdStep ==
    ASSUME CmdConstants, CmdInv, [Cmd!Next]_Cmd!vars
    PROVE  CmdInv'
<1>1. CASE UNCHANGED Cmd!vars
    <2>1. UNCHANGED <<open, drafts, newBot, cmdInFlight, cmdTaken, cmdUsed, cmdHistory>>
        BY <1>1 DEF Cmd!vars
    <2>2. CmdTypes' /\ CmdPlaces' /\ CmdApart' /\ CmdAwaited'
        BY <2>1 DEF CmdInv, CmdTypes, CmdPlaces, CmdApart, CmdAwaited
    <2>3. CmdSent' /\ CmdTaken' /\ CmdKept'
        BY <2>1 DEF CmdInv, CmdSent, CmdFits, CmdTaken, CmdKept, CmdOut, Cmd!Shown
    <2> QED BY <2>2, <2>3 DEF CmdInv
<1>2. CASE Cmd!Next
    <2>1. CASE \E b \in Bots : Cmd!OpenConversation(b)
        BY <2>1, CmdOpens
    <2>2. CASE Cmd!Back \/ Cmd!EditDraft \/ Cmd!Send \/ Cmd!Stop \/ Cmd!Pin
        BY <2>2, CmdBack, CmdEditsDraft, CmdSend, CmdStop, CmdPin
    <2>3. CASE Cmd!EditProfile \/ Cmd!EditName \/ Cmd!CancelProfile \/ Cmd!MayNotEdit
        BY <2>3, CmdEdits, CmdEditsName, CmdCancels
    <2>4. CASE Cmd!SaveProfile
        <3>1. CASE open.editor.text = Cmd!NoText
            BY <2>4, <3>1, CmdSavesNothing DEF Cmd!SaveProfile
        <3>2. CASE open.editor.text # Cmd!NoText
            BY <2>4, <3>2, CmdSaves
        <3> QED BY <3>1, <3>2
    <2>5. CASE Cmd!EditBotName \/ Cmd!CreateBot
        BY <2>5, CmdEditsBotName, CmdCreates
    <2>6. ASSUME NEW r \in cmdInFlight, Cmd!Serve(r) \/ Cmd!Lose(r)
          PROVE  CmdInv'
        BY <2>6, CmdServes, CmdLoses
    <2>7. ASSUME NEW r \in cmdInFlight, Cmd!Answer(r)
          PROVE  CmdInv'
        <3>1. r.kind \in {"send", "stop", "pin", "save", "create"}
            BY DEF CmdInv, CmdTypes, CmdRequests
        <3> QED BY <2>7, <3>1, CmdSentAnswered, CmdStopAnswered, CmdUpdateAnswered, CmdOtherAnswered
    <2> QED BY <1>2, <2>1, <2>2, <2>3, <2>4, <2>5, <2>6, <2>7 DEF Cmd!Next
<1> QED BY <1>1, <1>2

\* The inductive invariant holds of every reachable state of a page, whatever messages its
\* user and an agent send from it.
THEOREM CmdInvariant ==
    ASSUME CmdConstants
    PROVE  Cmd!Spec => []CmdInv
<1>1. Cmd!Init => CmdInv
    BY CmdInit
<1>2. CmdInv /\ [Cmd!Next]_Cmd!vars => CmdInv'
    BY CmdStep
<1> QED BY <1>1, <1>2, PTL DEF Cmd!Spec

\* What the user wrote is shown, on its way or taken, with these exceptions: what they
\* replaced or gave up; a text in the composer while one was being sent, and an edit while
\* it was being saved, that they left then (`take_open`); and a draft or an edit that the
\* answer to another request of its conversation settled, as an agent's message or a pin
\* sent beside it (`reply`).  Nothing is taken twice, but for the latter and for texts whose
\* answer was lost.  Once all is answered no control stays disabled.
THEOREM CmdKeepsAll ==
    ASSUME CmdConstants
    PROVE  Cmd!Spec => []Cmd!CommandsKept
<1>1. CmdInv => Cmd!CommandsKept
    BY CmdSays
<1> QED BY <1>1, CmdInvariant, PTL

HIDE DEF open, drafts, newBot, cmdInFlight, cmdTaken, cmdUsed, cmdHistory

-----------------------------------------------------------------------------
(* The household's sign-in to Codex *)

\* The variables of HouseholdScreen, by their names.
admHousehold == x1
login == x2
fate == x3
admAccount == x4
admScreen == x5
admInFlight == x6
admUsed == x7
admHistory == x8
USE DEF admHousehold, login, fate, admAccount, admScreen, admInFlight, admUsed,
        admHistory

\* The bound on the logins is a natural number.
AdmConstants == MaxLogins \in Nat

\* How a login may have ended.
AdmEnded == {"completed", "failed", "cancelled"}
\* The kinds of request.
AdmKinds == {"account", "start", "status", "cancel", "logout"}
\* The answers to them.
AdmAnswers == {"none", "error", "in", "out", "pending", "not_found", "done"} \cup AdmEnded
\* The requests and their answers.
AdmRequests == [id : Nat, kind : AdmKinds, took : Nat, answer : AdmAnswers, of : 0..MaxLogins]
\* What the screen shows.
AdmScreenStates == [shown : BOOLEAN,
                    login : {"idle", "starting", "waiting", "cancelling", "lost"} \cup AdmEnded,
                    code : 0..MaxLogins, polling : BOOLEAN,
                    signOut : {"idle", "confirming", "busy", "failed"}]

\* The household's account, its logins and the screen.
AdmTypes ==
    /\ admHousehold \in BOOLEAN
    /\ admUsed \in [logins : 0..MaxLogins, requests : Nat, taken : Nat, opens : Nat, others : Nat,
                    faults : Nat]
    /\ login \in 0..admUsed.logins
    /\ fate \in [Adm!Logins -> {"none", "pending"} \cup AdmEnded]
    /\ \A l \in Adm!Logins : (fate[l] = "none") = (l > admUsed.logins)
    /\ admAccount \in {"checking", "in", "out", "failed"}
    /\ admScreen \in AdmScreenStates
    /\ admInFlight \subseteq AdmRequests
    /\ admHistory \in [own : 0..MaxLogins, stale : BOOLEAN, overtaken : BOOLEAN]
    /\ admHistory.own =< admUsed.logins

\* Requests are taken one after another, and answered as they were.
AdmTaken ==
    /\ \A r \in admInFlight :
        /\ r.took =< admUsed.taken /\ r.of =< admUsed.logins
        /\ r.took = 0 => r.answer \in {"none", "error"}
        /\ r.answer \in {"in", "out"} => r.kind = "account"
        /\ r.answer = "done" => r.kind = "logout"
        /\ r.kind = "account" => r.answer \in {"none", "error", "in", "out"}
        /\ r.kind = "start" => r.answer \in {"none", "error", "pending"}
        /\ r.kind = "start" /\ r.answer = "pending" => r.of # Adm!None
        /\ r.kind = "logout" => r.answer \in {"none", "error", "done"}
        /\ r.answer = "not_found" => r.of = Adm!None
        /\ r.answer \in {"pending"} \cup AdmEnded => r.of # Adm!None
        /\ r.answer \in AdmEnded => fate[r.of] = r.answer
    /\ \A r, q \in admInFlight : r.took = q.took /\ r.took # 0 => r = q

\* What the screen shows.
AdmShows ==
    /\ ~admScreen.shown => admScreen = Adm!Closed
    /\ admScreen.login = "starting" => admScreen.code = Adm!None
    /\ admScreen.login \in AdmEnded /\ admScreen.code # Adm!None => fate[admScreen.code] = admScreen.login
    /\ ~(Adm!Waiting(admScreen) /\ admScreen.signOut \in {"confirming", "busy"})
    /\ admHistory.own # Adm!None => admScreen.shown /\ admScreen.login \notin {"starting", "cancelling"}

\* The sign-in the screen follows, and what is on its way of it.
AdmFollows ==
    ~admHistory.overtaken /\ admHistory.own # Adm!None /\ login = admHistory.own =>
        /\ \/ admScreen.login = "waiting" /\ admScreen.code = login
           \/ admScreen.code = login /\ admScreen.login = fate[login] /\ fate[login] # "pending"
        /\ \A q \in admInFlight : q.kind = "status" /\ q.answer \notin {"none", "error"} => q.of = login

\* One that was started, and whose answer is not heard yet.
AdmStarted ==
    \A r, q \in admInFlight :
        r.kind = "start" /\ r.answer = "pending" /\ login = r.of
        /\ q.kind = "status" /\ q.answer \notin {"none", "error"} /\ q.took > r.took => q.of = login

\* The account is what the gateway said last, or is about to be; while the page has none to
\* show, it has asked.  A request that the gateway has not taken yet is going to say it.
AdmAccount ==
    /\ (\A r \in admInFlight : r.kind # "account") => admAccount # "checking"
    /\ ~admHistory.overtaken /\ ~admHistory.stale =>
        /\ \A r \in admInFlight :
              /\ r.kind = "account" /\ r.answer \in {"in", "out"}
              /\ \A q \in admInFlight : q.kind = "account" => q.took # 0 /\ q.took =< r.took
              => (r.answer = "in") = admHousehold
        /\ (\A r \in admInFlight : r.kind # "account") /\ admAccount \in {"in", "out"}
              => (admAccount = "in") = admHousehold

\* The inductive invariant: what the screen shows is real at rest only if every answer on
\* its way is what the gateway said when it took the request.
AdmInv == AdmTypes /\ AdmTaken /\ AdmShows /\ AdmFollows /\ AdmStarted /\ AdmAccount

\* The invariant says that the screen is real.
LEMMA AdmSays ==
    ASSUME AdmInv
    PROVE  Adm!ScreenIsReal
<1>1. Adm!FollowsOwn
    BY DEF Adm!FollowsOwn, Adm!Rests, AdmInv, AdmFollows
<1>2. Adm!EndIsReal
    BY DEF Adm!EndIsReal, AdmInv, AdmShows, AdmEnded
<1>3. Adm!AccountIsReal
    BY DEF Adm!AccountIsReal, Adm!Rests, AdmInv, AdmTypes, AdmAccount
<1>4. Adm!NeverOverlap
    BY DEF Adm!NeverOverlap, AdmInv, AdmShows
<1> QED BY <1>1, <1>2, <1>3, <1>4 DEF Adm!ScreenIsReal

\* The screen as it is opened, and as it is left.
LEMMA AdmScreens ==
    ASSUME AdmConstants
    PROVE  /\ Adm!Closed \in AdmScreenStates /\ Adm!Opened \in AdmScreenStates
           /\ ~Adm!Closed.shown /\ Adm!Closed.login = "idle" /\ Adm!Closed.code = Adm!None
           /\ Adm!Closed.signOut = "idle"
           /\ Adm!Opened.shown /\ Adm!Opened.login = "idle" /\ Adm!Opened.code = Adm!None
           /\ Adm!Opened.signOut = "idle"
<1>1. /\ Adm!Closed \in AdmScreenStates /\ ~Adm!Closed.shown /\ Adm!Closed.login = "idle"
      /\ Adm!Closed.code = Adm!None
      /\ Adm!Closed.signOut = "idle"
    BY DEF AdmConstants, Adm!Closed, AdmScreenStates, Adm!None, AdmEnded
<1> QED BY <1>1 DEF Adm!Opened, AdmScreenStates

\* A request as it is sent.
LEMMA AdmAsked ==
    ASSUME AdmConstants, NEW id \in Nat, NEW kind \in AdmKinds
    PROVE  /\ Adm!Asked(id, kind) \in AdmRequests /\ Adm!Asked(id, kind).took = 0
           /\ Adm!Asked(id, kind).of = Adm!None
           /\ Adm!Asked(id, kind).answer = "none" /\ Adm!Asked(id, kind).kind = kind
    BY DEF AdmConstants, Adm!Asked, AdmRequests, Adm!None, AdmAnswers

\* A page that was just launched.
LEMMA AdmInit ==
    ASSUME AdmConstants, Adm!Init
    PROVE  AdmInv
<1>1. /\ login = Adm!None /\ fate = [l \in Adm!Logins |-> "none"] /\ admAccount = "checking"
      /\ admScreen = Adm!Closed /\ admInFlight = {Adm!Asked(1, "account")} /\ admHousehold \in BOOLEAN
    BY DEF Adm!Init
<1>2. /\ admUsed \in [logins : 0..MaxLogins, requests : Nat, taken : Nat, opens : Nat, others : Nat,
                      faults : Nat]
      /\ admUsed.logins = 0 /\ admUsed.taken = 0
    BY DEF Adm!Init, AdmConstants
<1>3. /\ admHistory \in [own : 0..MaxLogins, stale : BOOLEAN, overtaken : BOOLEAN]
      /\ admHistory.own = Adm!None
    BY DEF Adm!Init, AdmConstants, Adm!None
<1>4. /\ Adm!Asked(1, "account") \in AdmRequests /\ Adm!Asked(1, "account").took = 0
      /\ Adm!Asked(1, "account").of = Adm!None /\ Adm!Asked(1, "account").answer = "none"
      /\ Adm!Asked(1, "account").kind = "account"
    BY AdmAsked DEF AdmKinds
<1>5. AdmTypes
    BY <1>1, <1>2, <1>3, <1>4, AdmScreens DEF AdmTypes, Adm!None, Adm!Logins
<1>6. AdmTaken
    BY <1>1, <1>2, <1>4 DEF AdmTaken, Adm!None, AdmEnded
<1>7. AdmShows
    BY <1>1, <1>3, AdmScreens DEF AdmShows, AdmEnded, Adm!Waiting
<1>8. AdmFollows /\ AdmStarted /\ AdmAccount
    BY <1>1, <1>3, <1>4 DEF AdmFollows, AdmStarted, AdmAccount
<1> QED BY <1>5, <1>6, <1>7, <1>8 DEF AdmInv

\* The page asks, or only shows something else.
LEMMA AdmAsks ==
    ASSUME AdmConstants, AdmInv, NEW asked \in SUBSET AdmRequests, admInFlight' = admInFlight \cup asked,
           \A r \in asked : r.took = 0 /\ r.answer = "none" /\ r.of = Adm!None,
           UNCHANGED <<admHousehold, login, fate>>,
           admUsed'.logins = admUsed.logins, admUsed'.taken = admUsed.taken,
           admHistory'.stale = admHistory.stale, admHistory'.overtaken = admHistory.overtaken,
           \/ admAccount' = admAccount
           \/ admAccount' = "checking" /\ \E r \in asked : r.kind = "account",
           \/ admHistory'.own = Adm!None
           \/ /\ admHistory'.own = admHistory.own
              /\ admScreen'.login = admScreen.login /\ admScreen'.code = admScreen.code
    PROVE  AdmTaken' /\ AdmFollows' /\ AdmStarted' /\ AdmAccount'
<1>1. admUsed.taken \in Nat /\ admUsed.logins \in Nat /\ admInFlight \subseteq AdmRequests
    BY DEF AdmInv, AdmTypes
<1>2. AdmTaken'
    <2>1. ASSUME NEW r \in admInFlight'
          PROVE  /\ r.took =< admUsed'.taken /\ r.of =< admUsed'.logins
                 /\ r.took = 0 => r.answer \in {"none", "error"}
                 /\ r.answer \in {"in", "out"} => r.kind = "account"
                 /\ r.answer = "done" => r.kind = "logout"
                 /\ r.kind = "account" => r.answer \in {"none", "error", "in", "out"}
                 /\ r.kind = "start" => r.answer \in {"none", "error", "pending"}
                 /\ r.kind = "start" /\ r.answer = "pending" => r.of # Adm!None
                 /\ r.kind = "logout" => r.answer \in {"none", "error", "done"}
                 /\ r.answer = "not_found" => r.of = Adm!None
                 /\ r.answer \in {"pending"} \cup AdmEnded => r.of # Adm!None
                 /\ r.answer \in AdmEnded => fate'[r.of] = r.answer
        <3>1. CASE r \in admInFlight
            BY <3>1 DEF AdmInv, AdmTaken
        <3>2. CASE r \in asked
            BY <1>1, <3>2 DEF Adm!None, AdmEnded
        <3> QED BY <2>1, <3>1, <3>2
    <2>2. \A r, q \in admInFlight' : r.took = q.took /\ r.took # 0 => r = q
        BY DEF AdmInv, AdmTaken
    <2> QED BY <2>1, <2>2 DEF AdmTaken
<1>3. AdmFollows'
    BY DEF AdmInv, AdmFollows
<1>4. AdmStarted'
    BY DEF AdmInv, AdmStarted
<1>5. AdmAccount'
    <2>1. ASSUME NEW r \in admInFlight', r.kind = "account", r.answer \in {"in", "out"},
                 \A q \in admInFlight' : q.kind = "account" => q.took # 0 /\ q.took =< r.took,
                 ~admHistory.overtaken, ~admHistory.stale
          PROVE  (r.answer = "in") = admHousehold
        <3>1. r \in admInFlight
            BY <2>1
        <3> QED BY <2>1, <3>1 DEF AdmInv, AdmAccount
    <2>2. ASSUME \A r \in admInFlight' : r.kind # "account"
          PROVE  /\ admAccount' = admAccount /\ admAccount # "checking"
                 /\ ~admHistory.overtaken /\ ~admHistory.stale /\ admAccount \in {"in", "out"}
                      => (admAccount = "in") = admHousehold
        <3>1. \A r \in admInFlight : r.kind # "account"
            BY <2>2
        <3> QED BY <2>2, <3>1 DEF AdmInv, AdmAccount
    <2> QED BY <2>1, <2>2 DEF AdmAccount
<1> QED BY <1>2, <1>3, <1>4, <1>5

\* What sending a request does.
LEMMA AdmSends ==
    ASSUME AdmConstants, AdmInv, NEW kind \in AdmKinds \cup {"opened"}, Adm!Sends(kind)
    PROVE  /\ admUsed' \in [logins : 0..MaxLogins, requests : Nat, taken : Nat, opens : Nat,
                            others : Nat, faults : Nat]
           /\ admUsed'.logins = admUsed.logins /\ admUsed'.taken = admUsed.taken
           /\ \E asked \in SUBSET AdmRequests :
                  /\ admInFlight' = admInFlight \cup asked
                  /\ \A r \in asked : r.took = 0 /\ r.answer = "none" /\ r.of = Adm!None
                  /\ kind = "opened" => \E r \in asked : r.kind = "account"
           /\ admInFlight' \subseteq AdmRequests
<1>1. /\ admUsed \in [logins : 0..MaxLogins, requests : Nat, taken : Nat, opens : Nat, others : Nat,
                      faults : Nat]
      /\ admInFlight \subseteq AdmRequests
    BY DEF AdmInv, AdmTypes
<1>2. admUsed.requests + 1 \in Nat /\ admUsed.opens \in Nat
    BY <1>1
<1>3. PICK n \in Nat : n = IF kind = "opened" THEN admUsed.opens + 1 ELSE admUsed.opens
    BY <1>2
<1>4. admUsed' = [admUsed EXCEPT !.requests = admUsed.requests + 1, !.opens = n]
    BY <1>3 DEF Adm!Sends
<1>5. PICK k \in AdmKinds : k = IF kind = "opened" THEN "account" ELSE kind
    BY DEF AdmKinds
<1>6. admInFlight' = admInFlight \cup {Adm!Asked(admUsed.requests + 1, k)}
    BY <1>5 DEF Adm!Sends
<1>7. /\ Adm!Asked(admUsed.requests + 1, k) \in AdmRequests /\ Adm!Asked(admUsed.requests + 1, k).took = 0
      /\ Adm!Asked(admUsed.requests + 1, k).answer = "none" /\ Adm!Asked(admUsed.requests + 1, k).of = Adm!None
      /\ Adm!Asked(admUsed.requests + 1, k).kind = k
    BY <1>2, AdmAsked
<1> DEFINE new == {Adm!Asked(admUsed.requests + 1, k)}
<1>10. /\ new \in SUBSET AdmRequests /\ admInFlight' = admInFlight \cup new
       /\ \A r \in new : r.took = 0 /\ r.answer = "none" /\ r.of = Adm!None
       /\ kind = "opened" => \E r \in new : r.kind = "account"
    BY <1>5, <1>6, <1>7
<1> HIDE DEF new
<1>8. \E asked \in SUBSET AdmRequests :
          /\ admInFlight' = admInFlight \cup asked
          /\ \A r \in asked : r.took = 0 /\ r.answer = "none" /\ r.of = Adm!None
          /\ kind = "opened" => \E r \in asked : r.kind = "account"
    BY <1>10
<1>9. /\ admUsed' \in [logins : 0..MaxLogins, requests : Nat, taken : Nat, opens : Nat,
                       others : Nat, faults : Nat]
      /\ admUsed'.logins = admUsed.logins /\ admUsed'.taken = admUsed.taken
    BY <1>1, <1>2, <1>3, <1>4
<1> QED BY <1>1, <1>6, <1>7, <1>8, <1>9

\* The screen is opened.
LEMMA AdmOpens ==
    ASSUME AdmConstants, AdmInv, Adm!Open
    PROVE  AdmInv'
<1>1. /\ ~admScreen.shown /\ admScreen' = Adm!Opened /\ admAccount' = "checking" /\ Adm!Sends("opened")
      /\ UNCHANGED <<admHousehold, login, fate, admHistory>>
    BY DEF Adm!Open
<1>2. /\ admUsed' \in [logins : 0..MaxLogins, requests : Nat, taken : Nat, opens : Nat,
                       others : Nat, faults : Nat]
      /\ admUsed'.logins = admUsed.logins /\ admUsed'.taken = admUsed.taken
      /\ \E asked \in SUBSET AdmRequests :
             /\ admInFlight' = admInFlight \cup asked
             /\ \A r \in asked : r.took = 0 /\ r.answer = "none" /\ r.of = Adm!None
             /\ \E r \in asked : r.kind = "account"
      /\ admInFlight' \subseteq AdmRequests
    BY <1>1, AdmSends
<1>3. AdmTypes'
    BY <1>1, <1>2, AdmScreens DEF AdmInv, AdmTypes
<1>4. admHistory'.own = Adm!None
    BY <1>1 DEF AdmInv, AdmShows
<1>5. AdmShows'
    BY <1>1, <1>4, AdmScreens DEF AdmShows, AdmEnded, Adm!Waiting
<1>6. AdmTaken' /\ AdmFollows' /\ AdmStarted' /\ AdmAccount'
    BY <1>1, <1>2, <1>4, AdmAsks
<1> QED BY <1>3, <1>5, <1>6 DEF AdmInv

\* A step that sends nothing, and hears nothing, of a login of the screen's own.
LEMMA AdmNoneAsked ==
    ASSUME AdmConstants, AdmInv, UNCHANGED <<admHousehold, login, fate, admInFlight, admUsed, admAccount>>,
           admHistory'.stale = admHistory.stale, admHistory'.overtaken = admHistory.overtaken,
           \/ admHistory'.own = Adm!None
           \/ /\ admHistory'.own = admHistory.own
              /\ admScreen'.login = admScreen.login /\ admScreen'.code = admScreen.code
    PROVE  AdmTaken' /\ AdmFollows' /\ AdmStarted' /\ AdmAccount'
<1> DEFINE S == {}
<1>1. S \in SUBSET AdmRequests /\ admInFlight' = admInFlight \cup S
      /\ \A r \in S : r.took = 0 /\ r.answer = "none" /\ r.of = Adm!None
    OBVIOUS
<1> HIDE DEF S
<1> QED BY <1>1, AdmAsks

\* The screen is left.
LEMMA AdmBack ==
    ASSUME AdmConstants, AdmInv, Adm!Back
    PROVE  AdmInv'
<1>1. /\ admScreen' = Adm!Closed /\ admHistory' = [admHistory EXCEPT !.own = Adm!None]
      /\ UNCHANGED <<admHousehold, login, fate, admAccount, admInFlight, admUsed>>
    BY DEF Adm!Back
<1>2. /\ admHistory' \in [own : 0..MaxLogins, stale : BOOLEAN, overtaken : BOOLEAN]
      /\ admHistory'.own = Adm!None /\ admHistory'.stale = admHistory.stale
      /\ admHistory'.overtaken = admHistory.overtaken
    BY <1>1 DEF AdmInv, AdmTypes, AdmConstants, Adm!None
<1>3. AdmTypes'
    BY <1>1, <1>2, AdmScreens DEF AdmInv, AdmTypes, Adm!None
<1>4. AdmShows'
    BY <1>1, <1>2, AdmScreens DEF AdmShows, AdmEnded, Adm!Waiting
<1>5. AdmTaken' /\ AdmFollows' /\ AdmStarted' /\ AdmAccount'
    BY <1>1, <1>2, AdmNoneAsked
<1> QED BY <1>3, <1>4, <1>5 DEF AdmInv

\* The account is asked for again.
LEMMA AdmAsksAccount ==
    ASSUME AdmConstants, AdmInv, Adm!AskAccount
    PROVE  AdmInv'
<1>1. Adm!Sends("account") /\ UNCHANGED <<admHousehold, login, fate, admAccount, admScreen, admHistory>>
    BY DEF Adm!AskAccount
<1>2. /\ admUsed' \in [logins : 0..MaxLogins, requests : Nat, taken : Nat, opens : Nat,
                       others : Nat, faults : Nat]
      /\ admUsed'.logins = admUsed.logins /\ admUsed'.taken = admUsed.taken
      /\ \E asked \in SUBSET AdmRequests :
             /\ admInFlight' = admInFlight \cup asked
             /\ \A r \in asked : r.took = 0 /\ r.answer = "none" /\ r.of = Adm!None
      /\ admInFlight' \subseteq AdmRequests
    BY <1>1, AdmSends DEF AdmKinds
<1>3. AdmTypes'
    BY <1>1, <1>2 DEF AdmInv, AdmTypes
<1>4. AdmShows'
    BY <1>1 DEF AdmInv, AdmShows, Adm!Waiting
<1>5. AdmTaken' /\ AdmFollows' /\ AdmStarted' /\ AdmAccount'
    BY <1>1, <1>2, AdmAsks
<1> QED BY <1>3, <1>4, <1>5 DEF AdmInv

\* A login is started.
LEMMA AdmStarts ==
    ASSUME AdmConstants, AdmInv, Adm!Start
    PROVE  AdmInv'
<1>1. /\ admScreen.shown /\ admScreen' = Adm!Starting(admScreen) /\ Adm!Sends("start")
      /\ admHistory' = [admHistory EXCEPT !.own = Adm!None]
      /\ UNCHANGED <<admHousehold, login, fate, admAccount>>
    BY DEF Adm!Start
<1>2. /\ admUsed' \in [logins : 0..MaxLogins, requests : Nat, taken : Nat, opens : Nat,
                       others : Nat, faults : Nat]
      /\ admUsed'.logins = admUsed.logins /\ admUsed'.taken = admUsed.taken
      /\ \E asked \in SUBSET AdmRequests :
             /\ admInFlight' = admInFlight \cup asked
             /\ \A r \in asked : r.took = 0 /\ r.answer = "none" /\ r.of = Adm!None
      /\ admInFlight' \subseteq AdmRequests
    BY <1>1, AdmSends DEF AdmKinds
<1>3. /\ admHistory' \in [own : 0..MaxLogins, stale : BOOLEAN, overtaken : BOOLEAN]
      /\ admHistory'.own = Adm!None /\ admHistory'.stale = admHistory.stale
      /\ admHistory'.overtaken = admHistory.overtaken
    BY <1>1 DEF AdmInv, AdmTypes, AdmConstants, Adm!None
<1>4. /\ admScreen' \in AdmScreenStates /\ admScreen'.shown /\ admScreen'.login = "starting"
      /\ admScreen'.code = Adm!None
      /\ admScreen'.signOut = "idle"
    <2>1. admScreen \in AdmScreenStates /\ Adm!None \in 0..MaxLogins
        BY DEF AdmInv, AdmTypes, AdmConstants, Adm!None
    <2> QED BY <1>1, <2>1 DEF AdmScreenStates, Adm!Starting
<1>5. AdmTypes'
    BY <1>1, <1>2, <1>3, <1>4 DEF AdmInv, AdmTypes, Adm!None
<1>6. AdmShows'
    BY <1>3, <1>4 DEF AdmShows, AdmEnded
<1>7. AdmTaken' /\ AdmFollows' /\ AdmStarted' /\ AdmAccount'
    BY <1>1, <1>2, <1>3, AdmAsks
<1> QED BY <1>5, <1>6, <1>7 DEF AdmInv

\* Its state is asked for.
LEMMA AdmPolls ==
    ASSUME AdmConstants, AdmInv, Adm!Poll
    PROVE  AdmInv'
<1>1. /\ admScreen.login = "waiting" /\ admScreen' = [admScreen EXCEPT !.polling = TRUE] /\ Adm!Sends("status")
      /\ UNCHANGED <<admHousehold, login, fate, admAccount, admHistory>>
    BY DEF Adm!Poll
<1>2. /\ admUsed' \in [logins : 0..MaxLogins, requests : Nat, taken : Nat, opens : Nat,
                       others : Nat, faults : Nat]
      /\ admUsed'.logins = admUsed.logins /\ admUsed'.taken = admUsed.taken
      /\ \E asked \in SUBSET AdmRequests :
             /\ admInFlight' = admInFlight \cup asked
             /\ \A r \in asked : r.took = 0 /\ r.answer = "none" /\ r.of = Adm!None
      /\ admInFlight' \subseteq AdmRequests
    BY <1>1, AdmSends DEF AdmKinds
<1>3. /\ admScreen' \in AdmScreenStates /\ admScreen'.shown = admScreen.shown
      /\ admScreen'.login = admScreen.login
      /\ admScreen'.code = admScreen.code /\ admScreen'.signOut = admScreen.signOut
    BY <1>1 DEF AdmInv, AdmTypes, AdmScreenStates
<1>4. admScreen.shown
    BY <1>1 DEF AdmInv, AdmShows, Adm!Closed
<1>5. AdmTypes'
    BY <1>1, <1>2, <1>3 DEF AdmInv, AdmTypes
<1>6. AdmShows'
    BY <1>1, <1>3, <1>4 DEF AdmInv, AdmShows, Adm!Waiting
<1>7. AdmTaken' /\ AdmFollows' /\ AdmStarted' /\ AdmAccount'
    BY <1>1, <1>2, <1>3, AdmAsks
<1> QED BY <1>5, <1>6, <1>7 DEF AdmInv

\* It is to be cancelled.
LEMMA AdmCancels ==
    ASSUME AdmConstants, AdmInv, Adm!Cancel
    PROVE  AdmInv'
<1>1. /\ admScreen.login = "waiting" /\ Adm!Sends("cancel")
      /\ admScreen' = [admScreen EXCEPT !.login = "cancelling", !.polling = FALSE]
      /\ admHistory' = [admHistory EXCEPT !.own = Adm!None]
      /\ UNCHANGED <<admHousehold, login, fate, admAccount>>
    BY DEF Adm!Cancel
<1>2. /\ admUsed' \in [logins : 0..MaxLogins, requests : Nat, taken : Nat, opens : Nat,
                       others : Nat, faults : Nat]
      /\ admUsed'.logins = admUsed.logins /\ admUsed'.taken = admUsed.taken
      /\ \E asked \in SUBSET AdmRequests :
             /\ admInFlight' = admInFlight \cup asked
             /\ \A r \in asked : r.took = 0 /\ r.answer = "none" /\ r.of = Adm!None
      /\ admInFlight' \subseteq AdmRequests
    BY <1>1, AdmSends DEF AdmKinds
<1>3. /\ admHistory' \in [own : 0..MaxLogins, stale : BOOLEAN, overtaken : BOOLEAN]
      /\ admHistory'.own = Adm!None /\ admHistory'.stale = admHistory.stale
      /\ admHistory'.overtaken = admHistory.overtaken
    BY <1>1 DEF AdmInv, AdmTypes, AdmConstants, Adm!None
<1>4. /\ admScreen' \in AdmScreenStates /\ admScreen'.shown = admScreen.shown /\ admScreen'.login = "cancelling"
      /\ admScreen'.signOut = admScreen.signOut
    BY <1>1 DEF AdmInv, AdmTypes, AdmScreenStates
<1>5. admScreen.shown /\ admScreen.signOut \notin {"confirming", "busy"}
    BY <1>1 DEF AdmInv, AdmShows, Adm!Closed, Adm!Waiting
<1>6. AdmTypes'
    BY <1>1, <1>2, <1>3, <1>4 DEF AdmInv, AdmTypes, Adm!None
<1>7. AdmShows'
    BY <1>3, <1>4, <1>5 DEF AdmShows, AdmEnded
<1>8. AdmTaken' /\ AdmFollows' /\ AdmStarted' /\ AdmAccount'
    BY <1>1, <1>2, <1>3, AdmAsks
<1> QED BY <1>6, <1>7, <1>8 DEF AdmInv

\* Signing out is asked for, or not after all.
LEMMA AdmSignsOut ==
    ASSUME AdmConstants, AdmInv, Adm!SignOut \/ Adm!Keep
    PROVE  AdmInv'
<1>1. /\ \/ /\ admScreen' = [admScreen EXCEPT !.signOut = "confirming"]
            /\ ~Adm!Waiting(admScreen) /\ admScreen.shown
         \/ admScreen' = [admScreen EXCEPT !.signOut = "idle"] /\ admScreen.signOut = "confirming"
      /\ UNCHANGED <<admHousehold, login, fate, admAccount, admInFlight, admUsed, admHistory>>
    BY DEF Adm!SignOut, Adm!Keep
<1>2. /\ admScreen' \in AdmScreenStates /\ admScreen'.shown = admScreen.shown
      /\ admScreen'.login = admScreen.login
      /\ admScreen'.code = admScreen.code
      /\ \/ admScreen'.signOut = "idle"
         \/ admScreen'.signOut = "confirming" /\ ~Adm!Waiting(admScreen)
    BY <1>1 DEF AdmInv, AdmTypes, AdmScreenStates
<1>3. admScreen.shown
    BY <1>1 DEF AdmInv, AdmShows, Adm!Closed
<1>4. AdmTypes'
    BY <1>1, <1>2 DEF AdmInv, AdmTypes
<1>5. AdmShows'
    BY <1>1, <1>2, <1>3 DEF AdmInv, AdmShows, Adm!Waiting
<1>6. AdmTaken' /\ AdmFollows' /\ AdmStarted' /\ AdmAccount'
    BY <1>1, <1>2, AdmNoneAsked
<1> QED BY <1>4, <1>5, <1>6 DEF AdmInv

\* And confirmed.
LEMMA AdmConfirms ==
    ASSUME AdmConstants, AdmInv, Adm!Confirm
    PROVE  AdmInv'
<1>1. /\ admScreen.signOut = "confirming" /\ admScreen' = [admScreen EXCEPT !.signOut = "busy"]
      /\ Adm!Sends("logout") /\ UNCHANGED <<admHousehold, login, fate, admAccount, admHistory>>
    BY DEF Adm!Confirm
<1>2. /\ admUsed' \in [logins : 0..MaxLogins, requests : Nat, taken : Nat, opens : Nat,
                       others : Nat, faults : Nat]
      /\ admUsed'.logins = admUsed.logins /\ admUsed'.taken = admUsed.taken
      /\ \E asked \in SUBSET AdmRequests :
             /\ admInFlight' = admInFlight \cup asked
             /\ \A r \in asked : r.took = 0 /\ r.answer = "none" /\ r.of = Adm!None
      /\ admInFlight' \subseteq AdmRequests
    BY <1>1, AdmSends DEF AdmKinds
<1>3. /\ admScreen' \in AdmScreenStates /\ admScreen'.shown = admScreen.shown
      /\ admScreen'.login = admScreen.login
      /\ admScreen'.code = admScreen.code /\ admScreen'.signOut = "busy"
    BY <1>1 DEF AdmInv, AdmTypes, AdmScreenStates
<1>4. admScreen.shown /\ ~Adm!Waiting(admScreen)
    BY <1>1 DEF AdmInv, AdmShows, Adm!Closed
<1>5. AdmTypes'
    BY <1>1, <1>2, <1>3 DEF AdmInv, AdmTypes
<1>6. AdmShows'
    BY <1>1, <1>3, <1>4 DEF AdmInv, AdmShows, Adm!Waiting
<1>7. AdmTaken' /\ AdmFollows' /\ AdmStarted' /\ AdmAccount'
    BY <1>1, <1>2, <1>3, AdmAsks
<1> QED BY <1>5, <1>6, <1>7 DEF AdmInv

\* What the screen shows of a login that ended stays so.
LEMMA AdmShowsOn ==
    ASSUME AdmConstants, AdmInv, UNCHANGED admScreen, admHistory'.own = admHistory.own,
           \A l \in Adm!Logins : fate[l] \in AdmEnded => fate'[l] = fate[l]
    PROVE  AdmShows'
<1>1. admScreen.code # Adm!None => admScreen.code \in Adm!Logins
    BY DEF AdmInv, AdmTypes, AdmScreenStates, Adm!None, Adm!Logins, AdmConstants
<1>2. admScreen.login \in AdmEnded /\ admScreen.code # Adm!None => fate'[admScreen.code] = admScreen.login
    BY <1>1 DEF AdmInv, AdmShows
<1> QED BY <1>2 DEF AdmInv, AdmShows, Adm!Waiting

\* What cancelling does to the logins.
LEMMA AdmCancelled ==
    ASSUME AdmConstants, AdmInv
    PROVE  /\ Adm!Cancelled \in [Adm!Logins -> {"none", "pending"} \cup AdmEnded]
           /\ \A l \in Adm!Logins : fate[l] \in AdmEnded => Adm!Cancelled[l] = fate[l]
           /\ \A l \in Adm!Logins : (Adm!Cancelled[l] = "none") = (l > admUsed.logins)
           /\ \A l \in Adm!Logins : fate[l] # "pending" => Adm!Cancelled[l] = fate[l]
           /\ \A l \in Adm!Logins : l # login => Adm!Cancelled[l] = fate[l]
           /\ login \in Adm!Logins => Adm!Cancelled[login] # "pending"
<1>1. /\ fate \in [Adm!Logins -> {"none", "pending"} \cup AdmEnded]
      /\ \A l \in Adm!Logins : (fate[l] = "none") = (l > admUsed.logins)
    BY DEF AdmInv, AdmTypes
<1>2. \A l \in Adm!Logins : Adm!Cancelled[l] = IF l = login /\ fate[l] = "pending" THEN "cancelled" ELSE fate[l]
    BY DEF Adm!Cancelled
<1>3. Adm!Cancelled \in [Adm!Logins -> {"none", "pending"} \cup AdmEnded]
    BY <1>1 DEF Adm!Cancelled, AdmEnded
<1> QED BY <1>1, <1>2, <1>3 DEF AdmEnded

\* What taking a request does, whatever its kind.
LEMMA AdmTakes ==
    ASSUME AdmConstants, AdmInv, NEW r \in admInFlight, NEW answer \in AdmAnswers, NEW of \in 0..MaxLogins,
           r.kind = "start" => admUsed.logins < MaxLogins,
           Adm!Takes(r, answer, of)
    PROVE  /\ admUsed' \in [logins : 0..MaxLogins, requests : Nat, taken : Nat, opens : Nat,
                            others : Nat, faults : Nat]
           /\ admUsed'.taken = admUsed.taken + 1
           /\ admUsed'.logins = IF r.kind = "start" THEN admUsed.logins + 1 ELSE admUsed.logins
           /\ \E n \in AdmRequests :
                  /\ n.kind = r.kind /\ n.took = admUsed.taken + 1 /\ n.answer = answer /\ n.of = of
                  /\ admInFlight' = (admInFlight \ {r}) \cup {n}
<1>1. /\ admUsed \in [logins : 0..MaxLogins, requests : Nat, taken : Nat, opens : Nat, others : Nat,
                      faults : Nat]
      /\ r \in AdmRequests
    BY DEF AdmInv, AdmTypes
<1> DEFINE n == [r EXCEPT !.took = admUsed.taken + 1, !.answer = answer, !.of = of]
<1>2. admUsed.taken + 1 \in Nat /\ admUsed.logins \in 0..MaxLogins
    BY <1>1
<1>3. /\ n \in AdmRequests
      /\ n.kind = r.kind /\ n.took = admUsed.taken + 1 /\ n.answer = answer /\ n.of = of
    BY <1>1, <1>2 DEF AdmRequests
<1>4. admInFlight' = (admInFlight \ {r}) \cup {n}
    BY DEF Adm!Takes
<1> HIDE DEF n
<1>5. PICK k \in 0..MaxLogins : k = IF r.kind = "start" THEN admUsed.logins + 1 ELSE admUsed.logins
    BY <1>2 DEF AdmConstants
<1>6. admUsed' = [admUsed EXCEPT !.taken = admUsed.taken + 1, !.logins = k]
    BY <1>5 DEF Adm!Takes
<1>7. /\ admUsed' \in [logins : 0..MaxLogins, requests : Nat, taken : Nat, opens : Nat,
                       others : Nat, faults : Nat]
      /\ admUsed'.taken = admUsed.taken + 1 /\ admUsed'.logins = k
    BY <1>1, <1>2, <1>5, <1>6
<1> QED BY <1>3, <1>4, <1>5, <1>7

\* The requests once one is taken.
LEMMA AdmTakenOn ==
    ASSUME AdmConstants, AdmInv, NEW r \in admInFlight, NEW n \in AdmRequests,
           admInFlight' = (admInFlight \ {r}) \cup {n},
           n.took = admUsed.taken + 1, admUsed'.taken = admUsed.taken + 1,
           admUsed'.logins \in Nat, admUsed'.logins >= admUsed.logins,
           \A l \in Adm!Logins : fate[l] \in AdmEnded => fate'[l] = fate[l],
           /\ n.of =< admUsed'.logins
           /\ n.answer \in {"in", "out"} => n.kind = "account"
           /\ n.answer = "done" => n.kind = "logout"
           /\ n.kind = "account" => n.answer \in {"none", "error", "in", "out"}
           /\ n.kind = "start" => n.answer \in {"none", "error", "pending"}
           /\ n.kind = "start" /\ n.answer = "pending" => n.of # Adm!None
           /\ n.kind = "logout" => n.answer \in {"none", "error", "done"}
           /\ n.answer = "not_found" => n.of = Adm!None
           /\ n.answer \in {"pending"} \cup AdmEnded => n.of # Adm!None
           /\ n.answer \in AdmEnded => fate'[n.of] = n.answer
    PROVE  AdmTaken' /\ admInFlight' \subseteq AdmRequests
<1>1. admUsed.taken \in Nat /\ admUsed.logins \in Nat /\ admInFlight \subseteq AdmRequests
    BY DEF AdmInv, AdmTypes
<1>2. ASSUME NEW q \in admInFlight'
      PROVE  /\ q.took =< admUsed'.taken /\ q.of =< admUsed'.logins
             /\ q.took = 0 => q.answer \in {"none", "error"}
             /\ q.answer \in {"in", "out"} => q.kind = "account"
             /\ q.answer = "done" => q.kind = "logout"
             /\ q.kind = "account" => q.answer \in {"none", "error", "in", "out"}
             /\ q.kind = "start" => q.answer \in {"none", "error", "pending"}
             /\ q.kind = "start" /\ q.answer = "pending" => q.of # Adm!None
             /\ q.kind = "logout" => q.answer \in {"none", "error", "done"}
             /\ q.answer = "not_found" => q.of = Adm!None
             /\ q.answer \in {"pending"} \cup AdmEnded => q.of # Adm!None
             /\ q.answer \in AdmEnded => fate'[q.of] = q.answer
    <2>1. CASE q \in admInFlight
        <3>1. q \in AdmRequests /\ q.took \in Nat /\ q.of \in 0..MaxLogins
            BY <1>1, <2>1 DEF AdmRequests
        <3>2. /\ q.took =< admUsed.taken /\ q.of =< admUsed.logins
              /\ q.took = 0 => q.answer \in {"none", "error"}
              /\ q.answer \in {"in", "out"} => q.kind = "account"
              /\ q.answer = "done" => q.kind = "logout"
              /\ q.kind = "account" => q.answer \in {"none", "error", "in", "out"}
              /\ q.kind = "start" => q.answer \in {"none", "error", "pending"}
              /\ q.kind = "start" /\ q.answer = "pending" => q.of # Adm!None
              /\ q.kind = "logout" => q.answer \in {"none", "error", "done"}
              /\ q.answer = "not_found" => q.of = Adm!None
              /\ q.answer \in {"pending"} \cup AdmEnded => q.of # Adm!None
              /\ q.answer \in AdmEnded => fate[q.of] = q.answer
            BY <2>1 DEF AdmInv, AdmTaken
        <3>3. q.answer \in AdmEnded => fate'[q.of] = q.answer
            BY <3>1, <3>2 DEF Adm!None, Adm!Logins
        <3> QED BY <1>1, <3>1, <3>2, <3>3
    <2>2. CASE q = n
        BY <1>1, <2>2
    <2> QED BY <1>2, <2>1, <2>2
<1>3. ASSUME NEW p \in admInFlight', NEW q \in admInFlight', p.took = q.took, p.took # 0
      PROVE  p = q
    <2>1. \A o \in admInFlight : o.took \in Nat /\ o.took =< admUsed.taken
        BY <1>1 DEF AdmRequests, AdmInv, AdmTaken
    <2>2. \A o \in admInFlight : o.took # n.took
        BY <1>1, <2>1
    <2> QED BY <1>3, <2>2 DEF AdmInv, AdmTaken
<1> QED BY <1>1, <1>2, <1>3 DEF AdmTaken

\* The gateway says what the account is.
LEMMA AdmTakesAccount ==
    ASSUME AdmConstants, AdmInv, NEW r \in admInFlight, Adm!Take(r), r.kind = "account"
    PROVE  AdmInv'
<1>1. /\ Adm!Takes(r, IF admHousehold THEN "in" ELSE "out", Adm!None)
      /\ admHistory' = [admHistory EXCEPT !.stale = FALSE]
      /\ UNCHANGED <<admHousehold, login, fate, admAccount, admScreen>>
    BY DEF Adm!Take
<1>2. PICK answer \in {"in", "out"} : answer = IF admHousehold THEN "in" ELSE "out"
    OBVIOUS
<1>3. Adm!None \in 0..MaxLogins /\ answer \in AdmAnswers /\ Adm!Takes(r, answer, Adm!None)
    BY <1>1, <1>2 DEF Adm!None, AdmAnswers, AdmConstants
<1>4. /\ admUsed' \in [logins : 0..MaxLogins, requests : Nat, taken : Nat, opens : Nat,
                       others : Nat, faults : Nat]
      /\ admUsed'.taken = admUsed.taken + 1 /\ admUsed'.logins = admUsed.logins
    BY <1>3, AdmTakes
<1>5. PICK n \in AdmRequests : /\ n.kind = "account" /\ n.took = admUsed.taken + 1 /\ n.answer = answer
                               /\ n.of = Adm!None /\ admInFlight' = (admInFlight \ {r}) \cup {n}
    BY <1>3, AdmTakes
<1>6. /\ admHistory' \in [own : 0..MaxLogins, stale : BOOLEAN, overtaken : BOOLEAN]
      /\ admHistory'.own = admHistory.own /\ admHistory'.overtaken = admHistory.overtaken
    BY <1>1 DEF AdmInv, AdmTypes
<1>7. admUsed.logins \in Nat /\ admUsed.taken \in Nat
    BY DEF AdmInv, AdmTypes
<1>8. AdmTaken' /\ admInFlight' \subseteq AdmRequests
    BY <1>1, <1>2, <1>4, <1>5, <1>7, AdmTakenOn DEF AdmEnded, Adm!None
<1>9. AdmTypes'
    BY <1>1, <1>4, <1>6, <1>8 DEF AdmInv, AdmTypes
<1>10. AdmShows'
    BY <1>1, <1>6, AdmShowsOn
<1>11. AdmFollows'
    BY <1>1, <1>5, <1>6 DEF AdmInv, AdmFollows
<1>12. AdmStarted'
    BY <1>1, <1>5 DEF AdmInv, AdmStarted
<1>13. AdmAccount'
    <2>1. \A o \in admInFlight : o.took \in Nat /\ o.took =< admUsed.taken
        BY DEF AdmInv, AdmTypes, AdmTaken, AdmRequests
    <2>2. ASSUME NEW o \in admInFlight', o.kind = "account", o.answer \in {"in", "out"},
                 \A q \in admInFlight' : q.kind = "account" => q.took # 0 /\ q.took =< o.took
          PROVE  (o.answer = "in") = admHousehold
        <3>1. n.took =< o.took
            BY <1>5, <2>2
        <3>2. o = n
            BY <1>5, <1>7, <2>1, <2>2, <3>1
        <3> QED BY <1>2, <1>5, <3>2 DEF AdmInv, AdmTypes
    <2>3. n \in admInFlight' /\ n.kind = "account"
        BY <1>5
    <2> QED BY <1>1, <2>2, <2>3 DEF AdmAccount
<1> QED BY <1>8, <1>9, <1>10, <1>11, <1>12, <1>13 DEF AdmInv

\* An answer that is not about the account leaves what the page knows of it.
LEMMA AdmAnswersOn ==
    ASSUME AdmConstants, AdmInv, NEW r \in admInFlight, NEW n \in AdmRequests,
           r.kind # "account", n.kind = r.kind, admInFlight' = (admInFlight \ {r}) \cup {n},
           UNCHANGED admAccount, admHistory'.overtaken = admHistory.overtaken,
           ~admHistory'.stale => ~admHistory.stale /\ admHousehold' = admHousehold
    PROVE  AdmAccount'
<1>1. \A q : q.kind = "account" => (q \in admInFlight' <=> q \in admInFlight)
    OBVIOUS
<1>2. (\A q \in admInFlight' : q.kind # "account") = (\A q \in admInFlight : q.kind # "account")
    BY <1>1
<1>3. ASSUME NEW o \in admInFlight', o.kind = "account", o.answer \in {"in", "out"},
             \A q \in admInFlight' : q.kind = "account" => q.took # 0 /\ q.took =< o.took,
             ~admHistory'.overtaken, ~admHistory'.stale
      PROVE  (o.answer = "in") = admHousehold'
    <2>1. /\ o \in admInFlight
          /\ \A q \in admInFlight : q.kind = "account" => q.took # 0 /\ q.took =< o.took
        BY <1>1, <1>3
    <2> QED BY <1>3, <2>1 DEF AdmInv, AdmAccount
<1> QED BY <1>2, <1>3 DEF AdmInv, AdmAccount

\* It starts a login, in the place of the one before.
LEMMA AdmTakesStart ==
    ASSUME AdmConstants, AdmInv, NEW r \in admInFlight, Adm!Take(r), r.kind = "start"
    PROVE  AdmInv'
<1>1. /\ admUsed.logins < MaxLogins /\ login' = admUsed.logins + 1
      /\ Adm!Takes(r, "pending", login')
      /\ fate' = [Adm!Cancelled EXCEPT ![login'] = "pending"]
      /\ UNCHANGED <<admHousehold, admHistory, admAccount, admScreen>>
    BY DEF Adm!Take
<1>2. /\ admUsed.logins \in Nat /\ admUsed.taken \in Nat /\ login' \in 1..MaxLogins
      /\ \A l \in Adm!Logins : (fate[l] = "none") = (l > admUsed.logins)
      /\ fate \in [Adm!Logins -> {"none", "pending"} \cup AdmEnded]
      /\ admHistory.own \in Nat /\ admHistory.own =< admUsed.logins
    BY <1>1 DEF AdmInv, AdmTypes, AdmConstants
<1>3. login' \in 0..MaxLogins /\ "pending" \in AdmAnswers
    BY <1>2 DEF AdmAnswers
<1>4. /\ admUsed' \in [logins : 0..MaxLogins, requests : Nat, taken : Nat, opens : Nat,
                       others : Nat, faults : Nat]
      /\ admUsed'.taken = admUsed.taken + 1 /\ admUsed'.logins = admUsed.logins + 1
    BY <1>1, <1>3, AdmTakes
<1>5. PICK n \in AdmRequests : /\ n.kind = "start" /\ n.took = admUsed.taken + 1 /\ n.answer = "pending"
                               /\ n.of = login' /\ admInFlight' = (admInFlight \ {r}) \cup {n}
    BY <1>1, <1>3, AdmTakes
<1>6. /\ Adm!Cancelled \in [Adm!Logins -> {"none", "pending"} \cup AdmEnded]
      /\ \A l \in Adm!Logins : fate[l] \in AdmEnded => Adm!Cancelled[l] = fate[l]
      /\ \A l \in Adm!Logins : (Adm!Cancelled[l] = "none") = (l > admUsed.logins)
    BY AdmCancelled
<1>7. /\ fate' \in [Adm!Logins -> {"none", "pending"} \cup AdmEnded]
      /\ \A l \in Adm!Logins : l # login' => fate'[l] = Adm!Cancelled[l]
      /\ fate'[login'] = "pending"
    BY <1>1, <1>2, <1>6 DEF Adm!Logins
<1>8. \A l \in Adm!Logins : fate[l] \in AdmEnded => fate'[l] = fate[l]
    <2>1. fate[login'] \notin AdmEnded
        BY <1>1, <1>2 DEF Adm!Logins, AdmEnded
    <2> QED BY <1>6, <1>7, <2>1
<1>9. \A l \in Adm!Logins : (fate'[l] = "none") = (l > admUsed'.logins)
    BY <1>1, <1>2, <1>4, <1>6, <1>7 DEF Adm!Logins
<1>10. AdmTaken' /\ admInFlight' \subseteq AdmRequests
    BY <1>1, <1>2, <1>4, <1>5, <1>8, AdmTakenOn DEF AdmEnded, Adm!None
<1>11. AdmTypes'
    BY <1>1, <1>2, <1>4, <1>7, <1>9, <1>10 DEF AdmInv, AdmTypes
<1>12. AdmShows'
    BY <1>1, <1>8, AdmShowsOn
<1>13. AdmFollows'
    BY <1>1, <1>2 DEF AdmFollows
<1>14. AdmStarted'
    <2>1. \A o \in admInFlight : /\ o.took \in Nat /\ o.took =< admUsed.taken
                                 /\ o.of \in Nat /\ o.of =< admUsed.logins
        BY DEF AdmInv, AdmTypes, AdmTaken, AdmRequests
    <2>2. \A o, q \in admInFlight' :
              ~(/\ o.kind = "start" /\ o.answer = "pending" /\ login' = o.of
                /\ q.kind = "status" /\ q.took > o.took)
        BY <1>1, <1>2, <1>5, <2>1
    <2> QED BY <2>2 DEF AdmStarted
<1>15. AdmAccount'
    BY <1>1, <1>5, AdmAnswersOn
<1> QED BY <1>10, <1>11, <1>12, <1>13, <1>14, <1>15 DEF AdmInv

\* What it says of a login.
LEMMA AdmSaysState ==
    ASSUME AdmConstants, login \in 0..MaxLogins, admUsed.logins \in Nat, login =< admUsed.logins,
           NEW f \in [Adm!Logins -> {"none", "pending"} \cup AdmEnded],
           \A l \in Adm!Logins : (f[l] = "none") = (l > admUsed.logins)
    PROVE  Adm!Says(login, f) \in {"not_found", "pending"} \cup AdmEnded
<1>1. CASE login = Adm!None
    BY <1>1 DEF Adm!Says
<1>2. CASE login # Adm!None
    <2>1. login \in Adm!Logins
        BY <1>2 DEF Adm!Logins, Adm!None
    <2>2. f[login] \in {"none", "pending"} \cup AdmEnded /\ f[login] # "none"
        BY <2>1
    <2> QED BY <1>2, <2>2 DEF Adm!Says
<1> QED BY <1>1, <1>2

\* It says the state of the login.
LEMMA AdmTakesStatus ==
    ASSUME AdmConstants, AdmInv, NEW r \in admInFlight, Adm!Take(r), r.kind = "status"
    PROVE  AdmInv'
<1>1. /\ Adm!Takes(r, Adm!Says(login, fate), login)
      /\ UNCHANGED <<admHousehold, login, fate, admHistory, admAccount, admScreen>>
    BY DEF Adm!Take
<1>2. /\ admUsed.logins \in Nat /\ admUsed.taken \in Nat /\ login \in 0..MaxLogins
      /\ login =< admUsed.logins
      /\ \A l \in Adm!Logins : (fate[l] = "none") = (l > admUsed.logins)
      /\ fate \in [Adm!Logins -> {"none", "pending"} \cup AdmEnded]
    BY DEF AdmInv, AdmTypes, AdmConstants
<1>3. PICK answer \in {"not_found", "pending"} \cup AdmEnded : answer = Adm!Says(login, fate)
    BY <1>2, AdmSaysState
<1>4. /\ answer = "not_found" => login = Adm!None
      /\ answer # "not_found" => login # Adm!None /\ fate[login] = answer
      /\ answer \in AdmAnswers
    BY <1>2, <1>3 DEF Adm!Says, Adm!Logins, Adm!None, AdmAnswers, AdmEnded
<1>5. /\ admUsed' \in [logins : 0..MaxLogins, requests : Nat, taken : Nat, opens : Nat,
                       others : Nat, faults : Nat]
      /\ admUsed'.taken = admUsed.taken + 1 /\ admUsed'.logins = admUsed.logins
    BY <1>1, <1>2, <1>3, <1>4, AdmTakes
<1>6. PICK n \in AdmRequests : /\ n.kind = "status" /\ n.took = admUsed.taken + 1 /\ n.answer = answer
                               /\ n.of = login /\ admInFlight' = (admInFlight \ {r}) \cup {n}
    BY <1>1, <1>2, <1>3, <1>4, AdmTakes
<1>7. AdmTaken' /\ admInFlight' \subseteq AdmRequests
    BY <1>1, <1>2, <1>3, <1>4, <1>5, <1>6, AdmTakenOn DEF AdmEnded
<1>8. AdmTypes'
    BY <1>1, <1>5, <1>7 DEF AdmInv, AdmTypes
<1>9. AdmShows'
    BY <1>1, AdmShowsOn
<1>10. AdmFollows'
    BY <1>1, <1>6 DEF AdmInv, AdmFollows
<1>11. AdmStarted'
    BY <1>1, <1>6 DEF AdmInv, AdmStarted
<1>12. AdmAccount'
    BY <1>1, <1>6, AdmAnswersOn
<1> QED BY <1>7, <1>8, <1>9, <1>10, <1>11, <1>12 DEF AdmInv

\* It cancels the login.
LEMMA AdmTakesCancel ==
    ASSUME AdmConstants, AdmInv, NEW r \in admInFlight, Adm!Take(r), r.kind = "cancel"
    PROVE  AdmInv'
<1>1. /\ fate' = Adm!Cancelled /\ Adm!Takes(r, Adm!Says(login, fate'), login)
      /\ UNCHANGED <<admHousehold, login, admHistory, admAccount, admScreen>>
    BY DEF Adm!Take
<1>2. /\ admUsed.logins \in Nat /\ admUsed.taken \in Nat /\ login \in 0..MaxLogins
      /\ login =< admUsed.logins
    BY DEF AdmInv, AdmTypes, AdmConstants
<1>3. /\ \A l \in Adm!Logins : (fate'[l] = "none") = (l > admUsed.logins)
      /\ fate' \in [Adm!Logins -> {"none", "pending"} \cup AdmEnded]
      /\ \A l \in Adm!Logins : fate[l] \in AdmEnded => fate'[l] = fate[l]
      /\ \A l \in Adm!Logins : fate[l] # "pending" => fate'[l] = fate[l]
    BY <1>1, AdmCancelled
<1>4. PICK answer \in {"not_found", "pending"} \cup AdmEnded : answer = Adm!Says(login, fate')
    BY <1>2, <1>3, AdmSaysState
<1>5. /\ answer = "not_found" => login = Adm!None
      /\ answer # "not_found" => login # Adm!None /\ fate'[login] = answer
      /\ answer \in AdmAnswers
    BY <1>2, <1>3, <1>4 DEF Adm!Says, Adm!Logins, Adm!None, AdmAnswers, AdmEnded
<1>6. /\ admUsed' \in [logins : 0..MaxLogins, requests : Nat, taken : Nat, opens : Nat,
                       others : Nat, faults : Nat]
      /\ admUsed'.taken = admUsed.taken + 1 /\ admUsed'.logins = admUsed.logins
    BY <1>1, <1>2, <1>4, <1>5, AdmTakes
<1>7. PICK n \in AdmRequests : /\ n.kind = "cancel" /\ n.took = admUsed.taken + 1 /\ n.answer = answer
                               /\ n.of = login /\ admInFlight' = (admInFlight \ {r}) \cup {n}
    BY <1>1, <1>2, <1>4, <1>5, AdmTakes
<1>8. AdmTaken' /\ admInFlight' \subseteq AdmRequests
    BY <1>1, <1>2, <1>3, <1>4, <1>5, <1>6, <1>7, AdmTakenOn DEF AdmEnded
<1>9. AdmTypes'
    BY <1>1, <1>3, <1>6, <1>8 DEF AdmInv, AdmTypes
<1>10. AdmShows'
    BY <1>1, <1>3, AdmShowsOn
<1>11. AdmFollows'
    <2>1. login # Adm!None => login \in Adm!Logins
        BY <1>2 DEF Adm!Logins, Adm!None
    <2> QED BY <1>1, <1>3, <1>7, <2>1 DEF AdmInv, AdmFollows
<1>12. AdmStarted'
    BY <1>1, <1>7 DEF AdmInv, AdmStarted
<1>13. AdmAccount'
    BY <1>1, <1>7, AdmAnswersOn
<1> QED BY <1>8, <1>9, <1>10, <1>11, <1>12, <1>13 DEF AdmInv

\* It signs out.
LEMMA AdmTakesLogout ==
    ASSUME AdmConstants, AdmInv, NEW r \in admInFlight, Adm!Take(r), r.kind = "logout"
    PROVE  AdmInv'
<1>1. /\ fate' = Adm!Cancelled /\ admHousehold' = FALSE /\ Adm!Takes(r, "done", Adm!None)
      /\ admHistory' = [admHistory EXCEPT !.stale = @ \/ admHousehold]
      /\ UNCHANGED <<login, admAccount, admScreen>>
    BY DEF Adm!Take
<1>2. /\ admUsed.logins \in Nat /\ admUsed.taken \in Nat /\ login \in 0..MaxLogins
      /\ Adm!None \in 0..MaxLogins /\ "done" \in AdmAnswers
    BY DEF AdmInv, AdmTypes, AdmConstants, Adm!None, AdmAnswers
<1>3. /\ \A l \in Adm!Logins : (fate'[l] = "none") = (l > admUsed.logins)
      /\ fate' \in [Adm!Logins -> {"none", "pending"} \cup AdmEnded]
      /\ \A l \in Adm!Logins : fate[l] \in AdmEnded => fate'[l] = fate[l]
      /\ \A l \in Adm!Logins : fate[l] # "pending" => fate'[l] = fate[l]
    BY <1>1, AdmCancelled
<1>4. /\ admUsed' \in [logins : 0..MaxLogins, requests : Nat, taken : Nat, opens : Nat,
                       others : Nat, faults : Nat]
      /\ admUsed'.taken = admUsed.taken + 1 /\ admUsed'.logins = admUsed.logins
    BY <1>1, <1>2, AdmTakes
<1>5. PICK n \in AdmRequests : /\ n.kind = "logout" /\ n.took = admUsed.taken + 1 /\ n.answer = "done"
                               /\ n.of = Adm!None /\ admInFlight' = (admInFlight \ {r}) \cup {n}
    BY <1>1, <1>2, AdmTakes
<1>6. /\ admHistory' \in [own : 0..MaxLogins, stale : BOOLEAN, overtaken : BOOLEAN]
      /\ admHistory'.own = admHistory.own /\ admHistory'.overtaken = admHistory.overtaken
      /\ ~admHistory'.stale => ~admHistory.stale /\ admHousehold' = admHousehold
    BY <1>1 DEF AdmInv, AdmTypes
<1>7. AdmTaken' /\ admInFlight' \subseteq AdmRequests
    BY <1>2, <1>3, <1>4, <1>5, AdmTakenOn DEF AdmEnded, Adm!None
<1>8. AdmTypes'
    BY <1>1, <1>3, <1>4, <1>6, <1>7 DEF AdmInv, AdmTypes
<1>9. AdmShows'
    BY <1>1, <1>3, <1>6, AdmShowsOn
<1>10. AdmFollows'
    <2>1. login # Adm!None => login \in Adm!Logins
        BY <1>2 DEF Adm!Logins, Adm!None
    <2> QED BY <1>1, <1>3, <1>5, <1>6, <2>1 DEF AdmInv, AdmFollows
<1>11. AdmStarted'
    BY <1>1, <1>5 DEF AdmInv, AdmStarted
<1>12. AdmAccount'
    BY <1>1, <1>5, <1>6, AdmAnswersOn
<1> QED BY <1>7, <1>8, <1>9, <1>10, <1>11, <1>12 DEF AdmInv

\* The logins there were.
LEMMA AdmLogins ==
    ASSUME AdmConstants, AdmInv
    PROVE  /\ admUsed.logins \in 0..MaxLogins /\ admUsed.logins \in Nat /\ login \in 0..MaxLogins
           /\ login # Adm!None => login \in Adm!Logins
<1>1. admUsed.logins \in 0..MaxLogins /\ login \in 0..admUsed.logins
    BY DEF AdmInv, AdmTypes
<1> QED BY <1>1 DEF Adm!Logins, Adm!None, AdmConstants

\* A step that takes nothing leaves what was said of the logins.
LEMMA AdmTakenStill ==
    ASSUME AdmConstants, AdmInv, UNCHANGED admInFlight, admUsed'.taken = admUsed.taken,
           admUsed'.logins \in Nat, admUsed'.logins >= admUsed.logins,
           \A l \in Adm!Logins : fate[l] \in AdmEnded => fate'[l] = fate[l]
    PROVE  AdmTaken'
<1>1. admUsed.logins \in Nat /\ admInFlight \subseteq AdmRequests
    BY DEF AdmInv, AdmTypes
<1>2. ASSUME NEW q \in admInFlight
      PROVE  /\ q.of =< admUsed'.logins
             /\ q.answer \in AdmEnded => fate'[q.of] = q.answer
    <2>1. q.of \in 0..MaxLogins /\ q.of =< admUsed.logins
        BY <1>1 DEF AdmRequests, AdmInv, AdmTaken
    <2>2. q.answer \in AdmEnded => q.of # Adm!None /\ fate[q.of] = q.answer
        BY DEF AdmInv, AdmTaken
    <2>3. q.answer \in AdmEnded => q.of \in Adm!Logins
        BY <2>1, <2>2 DEF Adm!None, Adm!Logins, AdmConstants
    <2> QED BY <1>1, <2>1, <2>2, <2>3 DEF AdmConstants
<1> QED BY <1>2 DEF AdmInv, AdmTaken

\* A request, or its answer, is lost.
LEMMA AdmLoses ==
    ASSUME AdmConstants, AdmInv, NEW r \in admInFlight, Adm!Lose(r)
    PROVE  AdmInv'
<1>1. /\ admUsed' = [admUsed EXCEPT !.faults = @ + 1]
      /\ admInFlight' = (admInFlight \ {r}) \cup {[r EXCEPT !.answer = "error"]}
      /\ UNCHANGED <<admHousehold, login, fate, admAccount, admScreen, admHistory>>
    BY DEF Adm!Lose
<1>2. admInFlight \subseteq AdmRequests /\ r \in AdmRequests
    BY DEF AdmInv, AdmTypes
<1>3. PICK n \in AdmRequests : /\ n.kind = r.kind /\ n.took = r.took /\ n.answer = "error"
                               /\ n.of = r.of /\ admInFlight' = (admInFlight \ {r}) \cup {n}
    <2> DEFINE m == [r EXCEPT !.answer = "error"]
    <2>1. /\ m \in AdmRequests /\ m.kind = r.kind /\ m.took = r.took /\ m.answer = "error"
          /\ m.of = r.of /\ admInFlight' = (admInFlight \ {r}) \cup {m}
        BY <1>1, <1>2 DEF AdmRequests, AdmAnswers
    <2> HIDE DEF m
    <2> QED BY <2>1
<1>4. /\ admUsed' \in [logins : 0..MaxLogins, requests : Nat, taken : Nat, opens : Nat,
                       others : Nat, faults : Nat]
      /\ admUsed'.taken = admUsed.taken /\ admUsed'.logins = admUsed.logins
    BY <1>1 DEF AdmInv, AdmTypes
<1>5. AdmTaken'
    <2>1. ASSUME NEW q \in admInFlight'
          PROVE  /\ q.took =< admUsed'.taken /\ q.of =< admUsed'.logins
                 /\ q.took = 0 => q.answer \in {"none", "error"}
                 /\ q.answer \in {"in", "out"} => q.kind = "account"
                 /\ q.answer = "done" => q.kind = "logout"
                 /\ q.kind = "account" => q.answer \in {"none", "error", "in", "out"}
                 /\ q.kind = "start" => q.answer \in {"none", "error", "pending"}
                 /\ q.kind = "start" /\ q.answer = "pending" => q.of # Adm!None
                 /\ q.kind = "logout" => q.answer \in {"none", "error", "done"}
                 /\ q.answer = "not_found" => q.of = Adm!None
                 /\ q.answer \in {"pending"} \cup AdmEnded => q.of # Adm!None
                 /\ q.answer \in AdmEnded => fate'[q.of] = q.answer
        <3>1. CASE q \in admInFlight
            BY <1>1, <1>4, <3>1 DEF AdmInv, AdmTaken
        <3>2. CASE q = n
            <4>1. r.took =< admUsed.taken /\ r.of =< admUsed.logins
                BY DEF AdmInv, AdmTaken
            <4> QED BY <1>3, <1>4, <3>2, <4>1 DEF AdmEnded
        <3> QED BY <1>3, <2>1, <3>1, <3>2
    <2>2. ASSUME NEW p \in admInFlight', NEW q \in admInFlight', p.took = q.took, p.took # 0
          PROVE  p = q
        <3>1. \A o \in admInFlight : o.took = r.took /\ o.took # 0 => o = r
            BY DEF AdmInv, AdmTaken
        <3> QED BY <1>3, <2>2, <3>1 DEF AdmInv, AdmTaken
    <2> QED BY <2>1, <2>2 DEF AdmTaken
<1>6. AdmTypes'
    BY <1>1, <1>2, <1>3, <1>4 DEF AdmInv, AdmTypes
<1>7. AdmShows'
    BY <1>1, AdmShowsOn
<1>8. AdmFollows'
    BY <1>1, <1>3 DEF AdmInv, AdmFollows
<1>9. AdmStarted'
    BY <1>1, <1>3 DEF AdmInv, AdmStarted
<1>10. AdmAccount'
    <2>1. ASSUME NEW o \in admInFlight', o.kind = "account", o.answer \in {"in", "out"},
                 \A q \in admInFlight' : q.kind = "account" => q.took # 0 /\ q.took =< o.took,
                 ~admHistory.overtaken, ~admHistory.stale
          PROVE  (o.answer = "in") = admHousehold
        <3>1. o \in admInFlight
            BY <1>3, <2>1
        <3>2. r.kind = "account" => r.took # 0 /\ r.took =< o.took
            BY <1>3, <2>1
        <3>3. \A q \in admInFlight : q.kind = "account" => q.took # 0 /\ q.took =< o.took
            BY <1>3, <2>1, <3>2
        <3> QED BY <2>1, <3>1, <3>3 DEF AdmInv, AdmAccount
    <2>2. (\A o \in admInFlight' : o.kind # "account") => \A o \in admInFlight : o.kind # "account"
        BY <1>3
    <2> QED BY <1>1, <2>1, <2>2 DEF AdmInv, AdmAccount
<1> QED BY <1>5, <1>6, <1>7, <1>8, <1>9, <1>10 DEF AdmInv

\* Codex ends the login.
LEMMA AdmEnds ==
    ASSUME AdmConstants, AdmInv, NEW state \in {"completed", "failed"}, Adm!Ends(state)
    PROVE  AdmInv'
<1>1. /\ login # Adm!None /\ fate[login] = "pending"
      /\ fate' = [fate EXCEPT ![login] = state]
      /\ admHousehold' = (admHousehold \/ state = "completed")
      /\ admHistory' = IF state = "completed" /\ ~admHousehold
                       THEN [admHistory EXCEPT !.stale = TRUE] ELSE admHistory
      /\ UNCHANGED <<login, admAccount, admScreen, admInFlight, admUsed>>
    BY DEF Adm!Ends
<1>2. /\ login \in Adm!Logins /\ fate \in [Adm!Logins -> {"none", "pending"} \cup AdmEnded]
      /\ \A l \in Adm!Logins : (fate[l] = "none") = (l > admUsed.logins)
      /\ admHousehold \in BOOLEAN /\ admUsed.logins \in Nat
    BY <1>1, AdmLogins DEF AdmInv, AdmTypes
<1>3. /\ fate' \in [Adm!Logins -> {"none", "pending"} \cup AdmEnded]
      /\ \A l \in Adm!Logins : (fate'[l] = "none") = (l > admUsed.logins)
      /\ \A l \in Adm!Logins : fate[l] \in AdmEnded => fate'[l] = fate[l]
    BY <1>1, <1>2 DEF AdmEnded
<1>4. /\ admHistory' \in [own : 0..MaxLogins, stale : BOOLEAN, overtaken : BOOLEAN]
      /\ admHistory'.own = admHistory.own /\ admHistory'.overtaken = admHistory.overtaken
      /\ ~admHistory'.stale => ~admHistory.stale /\ admHousehold' = admHousehold
    BY <1>1, <1>2 DEF AdmInv, AdmTypes
<1>5. AdmTypes'
    BY <1>1, <1>2, <1>3, <1>4 DEF AdmInv, AdmTypes
<1>6. AdmTaken'
    BY <1>1, <1>2, <1>3, AdmTakenStill
<1>7. AdmShows'
    BY <1>1, <1>3, <1>4, AdmShowsOn
<1>8. AdmFollows'
    BY <1>1, <1>4 DEF AdmInv, AdmFollows
<1>9. AdmStarted'
    BY <1>1 DEF AdmInv, AdmStarted
<1>10. AdmAccount'
    BY <1>1, <1>4 DEF AdmInv, AdmAccount
<1> QED BY <1>5, <1>6, <1>7, <1>8, <1>9, <1>10 DEF AdmInv

\* The account changes from elsewhere.
LEMMA AdmOthers ==
    ASSUME AdmConstants, AdmInv, Adm!Others
    PROVE  AdmInv'
<1>1. UNCHANGED <<admAccount, admScreen, admInFlight>>
    BY DEF Adm!Others
<1>2. /\ admUsed \in [logins : 0..MaxLogins, requests : Nat, taken : Nat, opens : Nat, others : Nat,
                      faults : Nat]
      /\ login \in 0..admUsed.logins /\ admUsed.logins \in Nat /\ admHistory.own \in Nat
      /\ admHistory.own =< admUsed.logins
      /\ admHistory \in [own : 0..MaxLogins, stale : BOOLEAN, overtaken : BOOLEAN]
      /\ \A r \in admInFlight : r.of =< admUsed.logins /\ (r.kind = "start" /\ r.answer = "pending" => r.of # Adm!None)
    BY DEF AdmInv, AdmTypes, AdmTaken, AdmConstants
<1>3. /\ Adm!Cancelled \in [Adm!Logins -> {"none", "pending"} \cup AdmEnded]
      /\ \A l \in Adm!Logins : (Adm!Cancelled[l] = "none") = (l > admUsed.logins)
      /\ \A l \in Adm!Logins : fate[l] \in AdmEnded => Adm!Cancelled[l] = fate[l]
      /\ \A l \in Adm!Logins : fate[l] # "pending" => Adm!Cancelled[l] = fate[l]
    BY AdmCancelled
<1>4. CASE /\ admHousehold /\ admHousehold' = FALSE /\ fate' = Adm!Cancelled
           /\ admHistory' = [admHistory EXCEPT !.stale = TRUE]
           /\ admUsed' = [admUsed EXCEPT !.others = @ + 1] /\ UNCHANGED login
    <2>1. /\ admUsed' \in [logins : 0..MaxLogins, requests : Nat, taken : Nat, opens : Nat,
                           others : Nat, faults : Nat]
          /\ admUsed'.taken = admUsed.taken /\ admUsed'.logins = admUsed.logins
        BY <1>2, <1>4
    <2>2. /\ admHistory' \in [own : 0..MaxLogins, stale : BOOLEAN, overtaken : BOOLEAN]
          /\ admHistory'.own = admHistory.own /\ admHistory'.overtaken = admHistory.overtaken
          /\ admHistory'.stale
        BY <1>2, <1>4
    <2>3. AdmTypes'
        BY <1>1, <1>3, <1>4, <2>1, <2>2 DEF AdmInv, AdmTypes
    <2>4. AdmTaken'
        BY <1>1, <1>2, <1>3, <1>4, <2>1, AdmTakenStill
    <2>5. AdmShows'
        BY <1>1, <1>3, <1>4, <2>2, AdmShowsOn
    <2>6. AdmFollows'
        <3>1. login # Adm!None => login \in Adm!Logins
            BY AdmLogins
        <3> QED BY <1>1, <1>3, <1>4, <2>2, <3>1 DEF AdmInv, AdmFollows
    <2>7. AdmStarted' /\ AdmAccount'
        BY <1>1, <1>4, <2>2 DEF AdmInv, AdmStarted, AdmAccount
    <2> QED BY <2>3, <2>4, <2>5, <2>6, <2>7 DEF AdmInv
<1>5. CASE /\ admUsed.logins < MaxLogins
           /\ admUsed' = [admUsed EXCEPT !.others = @ + 1, !.logins = @ + 1]
           /\ login' = admUsed'.logins
           /\ fate' = [Adm!Cancelled EXCEPT ![login'] = "pending"]
           /\ UNCHANGED <<admHousehold, admHistory>>
    <2>1. admUsed.logins + 1 \in 1..MaxLogins /\ admUsed.logins + 1 \in 0..MaxLogins
        BY <1>2, <1>5 DEF AdmConstants
    <2>2. /\ admUsed' \in [logins : 0..MaxLogins, requests : Nat, taken : Nat, opens : Nat,
                           others : Nat, faults : Nat]
          /\ admUsed'.taken = admUsed.taken /\ admUsed'.logins = admUsed.logins + 1
        <3>1. admUsed.others + 1 \in Nat
            BY <1>2
        <3>2. admUsed' = [admUsed EXCEPT !.others = admUsed.others + 1, !.logins = admUsed.logins + 1]
            BY <1>5
        <3> QED BY <1>2, <2>1, <3>1, <3>2
    <2>3. login' = admUsed.logins + 1 /\ login' \in Adm!Logins
        BY <1>5, <2>1, <2>2 DEF Adm!Logins
    <2>4. /\ fate' \in [Adm!Logins -> {"none", "pending"} \cup AdmEnded]
          /\ \A l \in Adm!Logins : l # login' => fate'[l] = Adm!Cancelled[l]
          /\ fate'[login'] = "pending"
        BY <1>3, <1>5, <2>3
    <2>5. \A l \in Adm!Logins : (fate'[l] = "none") = (l > admUsed'.logins)
        BY SMTT(30), <1>2, <1>3, <2>2, <2>3, <2>4 DEF Adm!Logins
    <2>6. \A l \in Adm!Logins : fate[l] \in AdmEnded => fate'[l] = fate[l]
        <3>1. fate[login'] \notin AdmEnded
            BY <1>2, <2>3 DEF AdmInv, AdmTypes, AdmEnded
        <3> QED BY <1>3, <2>4, <3>1
    <2>7. AdmTypes'
        BY <1>1, <1>2, <1>5, <2>2, <2>3, <2>4, <2>5 DEF AdmInv, AdmTypes
    <2>8. AdmTaken'
        BY <1>1, <1>2, <2>2, <2>6, AdmTakenStill
    <2>9. AdmShows'
        BY <1>1, <1>5, <2>6, AdmShowsOn
    <2>10. AdmFollows'
        BY <1>2, <1>5, <2>3 DEF AdmFollows
    <2>11. AdmStarted'
        <3>1. \A r \in admInFlight : r.of # login'
            BY <1>2, <2>3
        <3> QED BY <1>1, <3>1 DEF AdmStarted
    <2>12. AdmAccount'
        BY <1>1, <1>5 DEF AdmInv, AdmAccount
    <2> QED BY <2>7, <2>8, <2>9, <2>10, <2>11, <2>12 DEF AdmInv
<1>6. CASE /\ login # Adm!None /\ login' = Adm!None /\ fate' = Adm!Cancelled
           /\ admUsed' = [admUsed EXCEPT !.others = @ + 1]
           /\ UNCHANGED <<admHousehold, admHistory>>
    <2>1. /\ admUsed' \in [logins : 0..MaxLogins, requests : Nat, taken : Nat, opens : Nat,
                           others : Nat, faults : Nat]
          /\ admUsed'.taken = admUsed.taken /\ admUsed'.logins = admUsed.logins
        BY <1>2, <1>6
    <2>2. AdmTypes'
        BY <1>1, <1>2, <1>3, <1>6, <2>1 DEF AdmInv, AdmTypes, Adm!None
    <2>3. AdmTaken'
        BY <1>1, <1>2, <1>3, <1>6, <2>1, AdmTakenStill
    <2>4. AdmShows'
        BY <1>1, <1>3, <1>6, AdmShowsOn
    <2>5. AdmFollows' /\ AdmStarted' /\ AdmAccount'
        BY <1>1, <1>2, <1>6 DEF AdmInv, AdmFollows, AdmStarted, AdmAccount
    <2> QED BY <2>2, <2>3, <2>4, <2>5 DEF AdmInv
<1> QED BY <1>4, <1>5, <1>6 DEF Adm!Others

\* What an answer leaves on the screen that awaits it.
LEMMA AdmMoves ==
    ASSUME AdmConstants, AdmInv, NEW r \in admInFlight, r.answer # "none",
           r.kind \in {"start", "status", "cancel"}, Adm!Awaits(r)
    PROVE  /\ Adm!Moves(admScreen, r) \in AdmScreenStates
           /\ admScreen.shown /\ Adm!Moves(admScreen, r).shown
           /\ Adm!Moves(admScreen, r).signOut = admScreen.signOut
           /\ admScreen.signOut \notin {"confirming", "busy"}
           /\ Adm!Moves(admScreen, r).login \notin {"starting", "cancelling"}
           /\ Adm!Moves(admScreen, r).login \in AdmEnded /\ Adm!Moves(admScreen, r).code # Adm!None
                => fate[Adm!Moves(admScreen, r).code] = Adm!Moves(admScreen, r).login
           /\ r.kind = "start" /\ r.answer = "pending"
                => Adm!Moves(admScreen, r).login = "waiting" /\ Adm!Moves(admScreen, r).code = r.of
           /\ r.kind # "status" /\ ~(r.kind = "start" /\ r.answer = "pending") => admHistory.own = Adm!None
           /\ r.kind = "status" =>
                /\ admScreen.login = "waiting"
                /\ \/ Adm!Moves(admScreen, r).login = admScreen.login /\ Adm!Moves(admScreen, r).code = admScreen.code
                   \/ r.answer = "not_found"
                   \/ /\ r.answer = "pending"
                      /\ Adm!Moves(admScreen, r).login = "waiting" /\ Adm!Moves(admScreen, r).code = r.of
                   \/ /\ r.answer \in AdmEnded
                      /\ Adm!Moves(admScreen, r).login = r.answer /\ Adm!Moves(admScreen, r).code = r.of
<1>1. admScreen \in AdmScreenStates /\ r \in AdmRequests /\ Adm!None \in 0..MaxLogins
    BY DEF AdmInv, AdmTypes, AdmConstants, Adm!None
<1>2. /\ r.answer \in {"in", "out"} => r.kind = "account"
      /\ r.answer = "done" => r.kind = "logout"
      /\ r.kind = "start" => r.answer \in {"none", "error", "pending"}
      /\ r.answer = "not_found" => r.of = Adm!None
      /\ r.answer \in AdmEnded => fate[r.of] = r.answer
      /\ r.of \in 0..MaxLogins
    BY <1>1 DEF AdmInv, AdmTaken, AdmRequests
<1>3. r.answer \in {"error", "pending", "not_found"} \cup AdmEnded
    BY <1>1, <1>2 DEF AdmRequests, AdmAnswers
<1>4. /\ Adm!Waiting(admScreen)
      /\ r.kind = "start" => admScreen.login = "starting"
      /\ r.kind = "status" => admScreen.login = "waiting"
      /\ r.kind = "cancel" => admScreen.login = "cancelling"
    BY DEF Adm!Awaits, Adm!Waiting
<1>5. admScreen.shown /\ admScreen.signOut \notin {"confirming", "busy"}
    BY <1>4 DEF AdmInv, AdmShows, Adm!Closed, Adm!Waiting
<1>6. /\ admScreen.login = "starting" => admScreen.code = Adm!None
      /\ admHistory.own # Adm!None => admScreen.login \notin {"starting", "cancelling"}
    BY DEF AdmInv, AdmShows
<1>7. CASE r.answer = "error"
    <2>1. CASE r.kind = "start"
        <3>1. Adm!Moves(admScreen, r) = [admScreen EXCEPT !.login = "failed"]
            BY <1>7, <2>1 DEF Adm!Moves
        <3> QED BY <1>1, <1>4, <1>5, <1>6, <1>7, <2>1, <3>1 DEF AdmScreenStates, AdmEnded
    <2>2. CASE r.kind = "status"
        <3>1. Adm!Moves(admScreen, r) = [admScreen EXCEPT !.polling = FALSE]
            BY <1>7, <2>2 DEF Adm!Moves
        <3> QED BY <1>1, <1>4, <1>5, <1>7, <2>2, <3>1 DEF AdmScreenStates, AdmEnded
    <2>3. CASE r.kind = "cancel"
        <3>1. Adm!Moves(admScreen, r) = [admScreen EXCEPT !.login = "waiting", !.polling = FALSE]
            BY <1>7, <2>3 DEF Adm!Moves
        <3> QED BY <1>1, <1>4, <1>5, <1>6, <1>7, <2>3, <3>1 DEF AdmScreenStates, AdmEnded
    <2> QED BY <2>1, <2>2, <2>3
<1>8. CASE r.answer = "not_found"
    <2>1. CASE r.kind = "status"
        <3>1. Adm!Moves(admScreen, r) = [admScreen EXCEPT !.login = "lost", !.code = Adm!None, !.polling = FALSE]
            BY <1>8, <2>1 DEF Adm!Moves
        <3> QED BY <1>1, <1>4, <1>5, <1>8, <2>1, <3>1 DEF AdmScreenStates, AdmEnded
    <2>2. CASE r.kind = "cancel"
        <3>1. Adm!Moves(admScreen, r) = [admScreen EXCEPT !.login = "cancelled", !.code = Adm!None]
            BY <1>8, <2>2 DEF Adm!Moves
        <3> QED BY <1>1, <1>4, <1>5, <1>6, <1>8, <2>2, <3>1 DEF AdmScreenStates, AdmEnded
    <2> QED BY <1>2, <1>8, <2>1, <2>2
<1>9. CASE r.answer = "pending"
    <2>1. Adm!Moves(admScreen, r) = [admScreen EXCEPT !.login = "waiting", !.code = r.of, !.polling = FALSE]
        BY <1>9 DEF Adm!Moves, Adm!Following
    <2> QED BY <1>1, <1>2, <1>4, <1>5, <1>6, <1>9, <2>1 DEF AdmScreenStates, AdmEnded
<1>10. CASE r.answer \in AdmEnded
    <2>1. Adm!Moves(admScreen, r) = [admScreen EXCEPT !.login = r.answer, !.code = r.of, !.polling = FALSE]
        BY <1>10 DEF Adm!Moves, Adm!Following, AdmEnded
    <2> QED BY <1>1, <1>2, <1>4, <1>5, <1>6, <1>10, <2>1 DEF AdmScreenStates, AdmEnded
<1> QED BY <1>3, <1>7, <1>8, <1>9, <1>10

\* What hearing an answer does to the screen and to what it follows.
LEMMA AdmHearsScreen ==
    ASSUME AdmConstants, AdmInv, NEW r \in admInFlight, Adm!Answer(r)
    PROVE  /\ admScreen' \in AdmScreenStates /\ AdmShows'
           /\ admHistory' \in [own : 0..MaxLogins, stale : BOOLEAN, overtaken : BOOLEAN]
           /\ admHistory'.own =< admUsed.logins
           /\ admHistory'.stale = (admHistory.stale /\ ~Adm!Tells(r))
           /\ ~admHistory'.overtaken => ~admHistory.overtaken /\ ~Adm!Overtakes(r)
           /\ \/ /\ r.kind = "start" /\ r.answer = "pending" /\ admHistory'.own = r.of
                 /\ admScreen'.login = "waiting" /\ admScreen'.code = r.of
              \/ admHistory'.own = Adm!None
              \/ /\ admHistory'.own = admHistory.own
                 /\ admScreen'.login = admScreen.login /\ admScreen'.code = admScreen.code
              \/ /\ admHistory'.own = admHistory.own /\ r.kind = "status" /\ admScreen.login = "waiting"
                 /\ \/ r.answer = "not_found"
                    \/ r.answer = "pending" /\ admScreen'.login = "waiting" /\ admScreen'.code = r.of
                    \/ r.answer \in AdmEnded /\ admScreen'.login = r.answer /\ admScreen'.code = r.of
<1>1. /\ admScreen \in AdmScreenStates /\ r \in AdmRequests /\ admUsed.logins \in Nat
      /\ admHistory \in [own : 0..MaxLogins, stale : BOOLEAN, overtaken : BOOLEAN]
      /\ admHistory.own =< admUsed.logins /\ r.of =< admUsed.logins /\ Adm!None =< admUsed.logins
      /\ Adm!None \in 0..MaxLogins /\ r.of \in 0..MaxLogins
      /\ r.kind = "logout" => r.answer \in {"none", "error", "done"}
      /\ r.kind \in AdmKinds
      /\ \A q \in admInFlight : q.took \in Nat
    BY DEF AdmInv, AdmTypes, AdmTaken, AdmConstants, Adm!None, AdmRequests
<1>2. PICK own \in 0..MaxLogins :
          /\ own = CASE r.kind = "start" /\ Adm!Awaits(r) /\ r.answer = "pending" -> r.of
                     [] r.kind = "logout" /\ Adm!Awaits(r) -> Adm!None
                     [] OTHER -> admHistory.own
          /\ own =< admUsed.logins
    BY <1>1
<1>3. PICK over \in BOOLEAN, stale \in BOOLEAN :
          /\ over = (admHistory.overtaken \/ Adm!Overtakes(r))
          /\ stale = (admHistory.stale /\ ~Adm!Tells(r))
    OBVIOUS
<1>4. admHistory' = [admHistory EXCEPT !.own = own, !.stale = stale, !.overtaken = over]
    BY <1>2, <1>3 DEF Adm!Answer
<1>5. /\ admHistory' \in [own : 0..MaxLogins, stale : BOOLEAN, overtaken : BOOLEAN]
      /\ admHistory'.own = own /\ admHistory'.overtaken = over /\ admHistory'.stale = stale
    BY <1>1, <1>4
<1>6. /\ admHistory'.stale = (admHistory.stale /\ ~Adm!Tells(r))
      /\ ~admHistory'.overtaken => ~admHistory.overtaken /\ ~Adm!Overtakes(r)
    BY <1>3, <1>5
<1>7. UNCHANGED <<admHousehold, login, fate>> /\ r.answer # "none"
    BY DEF Adm!Answer
<1>8. CASE ~Adm!Awaits(r) \/ r.kind = "account"
    <2>1. admScreen' = admScreen /\ own = admHistory.own
        BY <1>2, <1>8 DEF Adm!Answer
    <2>2. AdmShows'
        BY <1>5, <1>7, <2>1 DEF AdmInv, AdmShows, Adm!Waiting
    <2> QED BY <1>1, <1>2, <1>5, <1>6, <2>1, <2>2
<1>9. CASE Adm!Awaits(r) /\ r.kind = "logout"
    <2>1. /\ own = Adm!None /\ admScreen.signOut = "busy"
          /\ \/ admScreen' = [admScreen EXCEPT !.signOut = "failed"]
             \/ admScreen' = [admScreen EXCEPT !.signOut = "idle", !.login = "idle"]
        BY <1>2, <1>9 DEF Adm!Answer, Adm!Awaits
    <2>2. /\ admScreen' \in AdmScreenStates /\ admScreen'.code = admScreen.code
          /\ admScreen'.shown = admScreen.shown
          /\ admScreen'.signOut \in {"failed", "idle"}
          /\ admScreen'.login \in {admScreen.login, "idle"}
        BY <1>1, <2>1 DEF AdmScreenStates
    <2>3. admScreen.shown
        BY <2>1 DEF AdmInv, AdmShows, Adm!Closed
    <2>4. AdmShows'
        BY <1>5, <1>7, <2>1, <2>2, <2>3 DEF AdmInv, AdmShows, AdmEnded
    <2> QED BY <1>2, <1>5, <1>6, <2>1, <2>2, <2>4
<1>10. CASE Adm!Awaits(r) /\ r.kind \in {"start", "status", "cancel"}
    <2>1. admScreen' = Adm!Moves(admScreen, r)
        BY <1>10 DEF Adm!Answer
    <2>2. /\ admScreen' \in AdmScreenStates /\ admScreen.shown /\ admScreen'.shown
          /\ admScreen'.signOut = admScreen.signOut /\ admScreen.signOut \notin {"confirming", "busy"}
          /\ admScreen'.login \notin {"starting", "cancelling"}
          /\ admScreen'.login \in AdmEnded /\ admScreen'.code # Adm!None =>
                 fate[admScreen'.code] = admScreen'.login
          /\ r.kind = "start" /\ r.answer = "pending" => admScreen'.login = "waiting" /\ admScreen'.code = r.of
          /\ r.kind # "status" /\ ~(r.kind = "start" /\ r.answer = "pending") => admHistory.own = Adm!None
          /\ r.kind = "status" =>
                /\ admScreen.login = "waiting"
                /\ \/ admScreen'.login = admScreen.login /\ admScreen'.code = admScreen.code
                   \/ r.answer = "not_found"
                   \/ r.answer = "pending" /\ admScreen'.login = "waiting" /\ admScreen'.code = r.of
                   \/ r.answer \in AdmEnded /\ admScreen'.login = r.answer /\ admScreen'.code = r.of
        BY <1>7, <1>10, <2>1, AdmMoves
    <2>3. own = IF r.kind = "start" /\ r.answer = "pending" THEN r.of ELSE admHistory.own
        BY <1>2, <1>10
    <2>4. AdmShows'
        BY <1>5, <1>7, <2>2 DEF AdmShows
    <2> QED BY <1>2, <1>5, <1>6, <2>2, <2>3, <2>4
<1> QED BY <1>1, <1>8, <1>9, <1>10 DEF AdmKinds

\* What hearing an answer does to the requests and to the account.
LEMMA AdmHearsRequests ==
    ASSUME AdmConstants, AdmInv, NEW r \in admInFlight, Adm!Answer(r)
    PROVE  \E asked \in SUBSET AdmRequests :
              /\ admInFlight' = (admInFlight \ {r}) \cup asked
              /\ \A q \in asked : /\ q.took = 0 /\ q.answer = "none" /\ q.of = Adm!None
                                  /\ q.kind = "account"
              /\ admUsed' \in [logins : 0..MaxLogins, requests : Nat, taken : Nat, opens : Nat,
                               others : Nat, faults : Nat]
              /\ admUsed'.taken = admUsed.taken /\ admUsed'.logins = admUsed.logins
              /\ admAccount' \in {"checking", "in", "out", "failed"}
              /\ \/ /\ r.kind = "account" /\ asked = {} /\ ~Adm!Tells(r)
                    /\ admAccount' = IF r.answer = "error" THEN "failed" ELSE r.answer
                 \/ r.kind # "account" /\ asked # {}
                 \/ /\ r.kind # "account" /\ asked = {} /\ ~Adm!Tells(r)
                    /\ admAccount' = admAccount
<1>1. /\ r \in AdmRequests
      /\ admUsed \in [logins : 0..MaxLogins, requests : Nat, taken : Nat, opens : Nat, others : Nat,
                      faults : Nat]
      /\ r.answer = "done" => r.kind = "logout"
      /\ r.kind = "account" => r.answer \in {"none", "error", "in", "out"}
      /\ admAccount \in {"checking", "in", "out", "failed"}
    BY DEF AdmInv, AdmTypes, AdmTaken
<1>2. r.answer # "none"
    BY DEF Adm!Answer
<1>3. CASE r.kind = "account"
    <2>1. ~(r.answer = "completed") /\ ~(r.answer = "done")
        BY <1>1, <1>3
    <2>2. /\ admAccount' = IF r.answer = "error" THEN "failed" ELSE r.answer
          /\ admUsed' = admUsed /\ admInFlight' = (admInFlight \ {r}) \cup {} /\ ~Adm!Tells(r)
        BY <1>3, <2>1 DEF Adm!Answer, Adm!AsksAgain, Adm!Tells
    <2> DEFINE none == {}
    <2>3. none \in SUBSET AdmRequests /\ admInFlight' = (admInFlight \ {r}) \cup none /\ none = {}
        BY <2>2
    <2> HIDE DEF none
    <2> QED BY <1>1, <1>2, <1>3, <2>2, <2>3
<1>4. CASE r.kind # "account" /\ Adm!Awaits(r) /\ r.answer \in {"completed", "done"}
    <2>1. /\ admAccount' \in {"checking", "out"}
          /\ admUsed' = [admUsed EXCEPT !.requests = @ + 1]
          /\ admInFlight' = (admInFlight \ {r}) \cup {Adm!Asked(admUsed'.requests, "account")}
        BY <1>4 DEF Adm!Answer, Adm!AsksAgain
    <2>2. /\ admUsed' \in [logins : 0..MaxLogins, requests : Nat, taken : Nat, opens : Nat,
                           others : Nat, faults : Nat]
          /\ admUsed'.taken = admUsed.taken /\ admUsed'.logins = admUsed.logins
        BY <1>1, <2>1
    <2> DEFINE new == {Adm!Asked(admUsed'.requests, "account")}
    <2>3. /\ new \in SUBSET AdmRequests /\ admInFlight' = (admInFlight \ {r}) \cup new /\ new # {}
          /\ \A q \in new : /\ q.took = 0 /\ q.answer = "none" /\ q.of = Adm!None
                            /\ q.kind = "account"
        BY <2>1, <2>2, AdmAsked DEF AdmKinds
    <2> HIDE DEF new
    <2> QED BY <1>4, <2>1, <2>2, <2>3
<1>5. CASE r.kind # "account" /\ ~(Adm!Awaits(r) /\ r.answer \in {"completed", "done"})
    <2>1. /\ admAccount' = admAccount /\ admUsed' = admUsed /\ ~Adm!Tells(r)
          /\ admInFlight' = (admInFlight \ {r}) \cup {}
        BY <1>5 DEF Adm!Answer, Adm!AsksAgain, Adm!Tells
    <2> DEFINE none == {}
    <2>2. none \in SUBSET AdmRequests /\ admInFlight' = (admInFlight \ {r}) \cup none /\ none = {}
        BY <2>1
    <2> HIDE DEF none
    <2> QED BY <1>1, <1>5, <2>1, <2>2
<1> QED BY <1>3, <1>4, <1>5

\* The page hears an answer.
LEMMA AdmHears ==
    ASSUME AdmConstants, AdmInv, NEW r \in admInFlight, Adm!Answer(r)
    PROVE  AdmInv'
<1>1. /\ admScreen' \in AdmScreenStates /\ AdmShows'
      /\ admHistory' \in [own : 0..MaxLogins, stale : BOOLEAN, overtaken : BOOLEAN]
      /\ admHistory'.own =< admUsed.logins
      /\ admHistory'.stale = (admHistory.stale /\ ~Adm!Tells(r))
      /\ ~admHistory'.overtaken => ~admHistory.overtaken /\ ~Adm!Overtakes(r)
    BY AdmHearsScreen
<1>2. \/ /\ r.kind = "start" /\ r.answer = "pending" /\ admHistory'.own = r.of
         /\ admScreen'.login = "waiting" /\ admScreen'.code = r.of
      \/ admHistory'.own = Adm!None
      \/ /\ admHistory'.own = admHistory.own
         /\ admScreen'.login = admScreen.login /\ admScreen'.code = admScreen.code
      \/ /\ admHistory'.own = admHistory.own /\ r.kind = "status" /\ admScreen.login = "waiting"
         /\ \/ r.answer = "not_found"
            \/ r.answer = "pending" /\ admScreen'.login = "waiting" /\ admScreen'.code = r.of
            \/ r.answer \in AdmEnded /\ admScreen'.login = r.answer /\ admScreen'.code = r.of
    BY AdmHearsScreen
<1>3. PICK asked \in SUBSET AdmRequests :
              /\ admInFlight' = (admInFlight \ {r}) \cup asked
              /\ \A q \in asked : /\ q.took = 0 /\ q.answer = "none" /\ q.of = Adm!None
                                  /\ q.kind = "account"
              /\ admUsed' \in [logins : 0..MaxLogins, requests : Nat, taken : Nat, opens : Nat,
                               others : Nat, faults : Nat]
              /\ admUsed'.taken = admUsed.taken /\ admUsed'.logins = admUsed.logins
              /\ admAccount' \in {"checking", "in", "out", "failed"}
              /\ \/ /\ r.kind = "account" /\ asked = {} /\ ~Adm!Tells(r)
                    /\ admAccount' = IF r.answer = "error" THEN "failed" ELSE r.answer
                 \/ r.kind # "account" /\ asked # {}
                 \/ /\ r.kind # "account" /\ asked = {} /\ ~Adm!Tells(r)
                    /\ admAccount' = admAccount
    BY AdmHearsRequests
<1>4. UNCHANGED <<admHousehold, login, fate>> /\ r.answer # "none"
    BY DEF Adm!Answer
<1>5. /\ admInFlight \subseteq AdmRequests /\ admUsed.taken \in Nat /\ admUsed.logins \in Nat
      /\ \A q \in admInFlight : q.took \in Nat
    BY DEF AdmInv, AdmTypes, AdmRequests
<1>6. /\ r.took = 0 => r.answer \in {"none", "error"}
      /\ r.answer = "not_found" => r.of = Adm!None
      /\ r.answer \in AdmEnded => fate[r.of] = r.answer
      /\ \A q \in admInFlight : r.took = q.took /\ r.took # 0 => r = q
    BY DEF AdmInv, AdmTaken
<1>7. AdmTypes'
    BY <1>1, <1>3, <1>4, <1>5 DEF AdmInv, AdmTypes
<1>8. AdmTaken'
    <2>1. ASSUME NEW q \in admInFlight'
          PROVE  /\ q.took =< admUsed'.taken /\ q.of =< admUsed'.logins
                 /\ q.took = 0 => q.answer \in {"none", "error"}
                 /\ q.answer \in {"in", "out"} => q.kind = "account"
                 /\ q.answer = "done" => q.kind = "logout"
                 /\ q.kind = "account" => q.answer \in {"none", "error", "in", "out"}
                 /\ q.kind = "start" => q.answer \in {"none", "error", "pending"}
                 /\ q.kind = "start" /\ q.answer = "pending" => q.of # Adm!None
                 /\ q.kind = "logout" => q.answer \in {"none", "error", "done"}
                 /\ q.answer = "not_found" => q.of = Adm!None
                 /\ q.answer \in {"pending"} \cup AdmEnded => q.of # Adm!None
                 /\ q.answer \in AdmEnded => fate'[q.of] = q.answer
        <3>1. CASE q \in admInFlight
            BY <1>3, <1>4, <3>1 DEF AdmInv, AdmTaken
        <3>2. CASE q \in asked
            BY <1>3, <1>5, <3>2 DEF Adm!None, AdmEnded
        <3> QED BY <1>3, <2>1, <3>1, <3>2
    <2>2. \A p, q \in admInFlight' : p.took = q.took /\ p.took # 0 => p = q
        BY <1>3 DEF AdmInv, AdmTaken
    <2> QED BY <2>1, <2>2 DEF AdmTaken
<1>9. AdmFollows'
    <2> SUFFICES ASSUME ~admHistory'.overtaken, admHistory'.own # Adm!None, login = admHistory'.own
                 PROVE  /\ \/ admScreen'.login = "waiting" /\ admScreen'.code = login
                           \/ admScreen'.code = login /\ admScreen'.login = fate[login] /\ fate[login] # "pending"
                        /\ \A q \in admInFlight' : q.kind = "status" /\ q.answer \notin {"none", "error"}
                                                     => q.of = login
        BY <1>4 DEF AdmFollows
    <2>1. CASE /\ r.kind = "start" /\ r.answer = "pending" /\ admHistory'.own = r.of
               /\ admScreen'.login = "waiting" /\ admScreen'.code = r.of
        <3>1. ASSUME NEW q \in admInFlight', q.kind = "status", q.answer \notin {"none", "error"}
              PROVE  q.of = login
            <4>1. q \in admInFlight /\ q # r
                BY <1>3, <2>1, <3>1
            <4>2. q.took # 0
                BY <3>1, <4>1 DEF AdmInv, AdmTaken
            <4>4. ~(q.took < r.took) /\ q.took # r.took
                BY <1>1, <1>6, <2>1, <3>1, <4>1, <4>2 DEF Adm!Overtakes
            <4>3. q.took > r.took
                BY <1>5, <4>1, <4>4
            <4> QED BY <2>1, <3>1, <4>1, <4>3 DEF AdmInv, AdmStarted
        <3> QED BY <2>1, <3>1
    <2>2. CASE admHistory'.own = admHistory.own
        <3>1. /\ \/ admScreen.login = "waiting" /\ admScreen.code = login
                 \/ admScreen.code = login /\ admScreen.login = fate[login] /\ fate[login] # "pending"
              /\ \A q \in admInFlight : q.kind = "status" /\ q.answer \notin {"none", "error"} => q.of = login
            BY <1>1, <2>2 DEF AdmInv, AdmFollows
        <3>2. \A q \in admInFlight' : q.kind = "status" /\ q.answer \notin {"none", "error"} => q.of = login
            BY <1>3, <3>1
        <3>3. CASE admScreen'.login = admScreen.login /\ admScreen'.code = admScreen.code
            BY <3>1, <3>2, <3>3
        <3>4. CASE /\ r.kind = "status"
                   /\ \/ r.answer = "not_found"
                      \/ r.answer = "pending" /\ admScreen'.login = "waiting" /\ admScreen'.code = r.of
                      \/ r.answer \in AdmEnded /\ admScreen'.login = r.answer /\ admScreen'.code = r.of
            <4>1. r.of = login
                BY <3>1, <3>4 DEF AdmEnded
            <4> QED BY <1>6, <2>2, <3>2, <3>4, <4>1 DEF AdmEnded
        <3> QED BY <1>2, <2>1, <3>3, <3>4
    <2> QED BY <1>2, <2>1, <2>2
<1>10. AdmStarted'
    BY <1>3, <1>4 DEF AdmInv, AdmStarted
<1>11. AdmAccount'
    <2>1. CASE asked # {}
        <3>1. PICK q \in admInFlight' : q.took = 0 /\ q.kind = "account"
            BY <1>3, <2>1
        <3> QED BY <3>1 DEF AdmAccount
    <2>2. CASE asked = {} /\ r.kind # "account"
        <3>1. ~Adm!Tells(r) /\ admAccount' = admAccount
            BY <1>3, <2>2
        <3>2. /\ admHistory'.stale = admHistory.stale
              /\ ~admHistory'.overtaken => ~admHistory.overtaken
            BY <1>1, <3>1 DEF AdmInv, AdmTypes
        <3>3. \A q : q.kind = "account" => (q \in admInFlight' <=> q \in admInFlight)
            BY <1>3, <2>2
        <3>4. (\A q \in admInFlight' : q.kind # "account") => \A q \in admInFlight : q.kind # "account"
            BY <3>3
        <3>5. ASSUME NEW o \in admInFlight', o.kind = "account", o.answer \in {"in", "out"},
                     \A q \in admInFlight' : q.kind = "account" => q.took # 0 /\ q.took =< o.took,
                     ~admHistory'.overtaken, ~admHistory'.stale
              PROVE  (o.answer = "in") = admHousehold
            <4>1. /\ o \in admInFlight
                  /\ \A q \in admInFlight : q.kind = "account" => q.took # 0 /\ q.took =< o.took
                BY <3>3, <3>5
            <4> QED BY <3>2, <3>5, <4>1 DEF AdmInv, AdmAccount
        <3> QED BY <1>4, <3>1, <3>2, <3>4, <3>5 DEF AdmInv, AdmAccount
    <2>3. CASE asked = {} /\ r.kind = "account"
        <3>1. /\ ~Adm!Tells(r) /\ r.answer \in {"error", "in", "out"}
              /\ admAccount' = IF r.answer = "error" THEN "failed" ELSE r.answer
              /\ admInFlight' = admInFlight \ {r}
            BY <1>3, <1>4, <2>3 DEF AdmInv, AdmTaken
        <3>2. admHistory'.stale = admHistory.stale
            BY <1>1, <3>1 DEF AdmInv, AdmTypes
        <3>3. ASSUME ~admHistory'.overtaken
              PROVE  /\ ~admHistory.overtaken
                     /\ r.took = 0 => \A q \in admInFlight' : q.kind = "account" => q.took = 0
                     /\ \A q \in admInFlight' : q.kind = "account" /\ q.took # 0 => r.took =< q.took
            <4>1. ~admHistory.overtaken /\ ~Adm!Overtakes(r)
                BY <1>1, <3>3
            <4> QED BY <1>5, <2>3, <3>1, <4>1 DEF Adm!Overtakes
        <3>4. ASSUME NEW o \in admInFlight', o.kind = "account", o.answer \in {"in", "out"},
                     \A q \in admInFlight' : q.kind = "account" => q.took # 0 /\ q.took =< o.took,
                     ~admHistory'.overtaken, ~admHistory'.stale
              PROVE  (o.answer = "in") = admHousehold
            <4>1. r.took # 0 /\ r.took =< o.took
                BY <3>3, <3>4
            <4>2. /\ o \in admInFlight
                  /\ \A q \in admInFlight : q.kind = "account" => q.took # 0 /\ q.took =< o.took
                BY <3>1, <3>4, <4>1
            <4> QED BY <3>2, <3>3, <3>4, <4>2 DEF AdmInv, AdmAccount
        <3>5. ASSUME \A o \in admInFlight' : o.kind # "account", admAccount' \in {"in", "out"},
                     ~admHistory'.overtaken, ~admHistory'.stale
              PROVE  (admAccount' = "in") = admHousehold
            <4>1. r.answer \in {"in", "out"} /\ admAccount' = r.answer /\ r.took # 0 /\ r.took =< r.took
                BY <1>5, <1>6, <3>1, <3>5
            <4>2. \A q \in admInFlight : q.kind = "account" => q = r
                BY <3>1, <3>5
            <4> QED BY <2>3, <3>2, <3>3, <3>5, <4>1, <4>2 DEF AdmInv, AdmAccount
        <3>6. admAccount' # "checking"
            BY <3>1
        <3> QED BY <1>4, <3>4, <3>5, <3>6 DEF AdmAccount
    <2> QED BY <2>1, <2>2, <2>3
<1> QED BY <1>1, <1>7, <1>8, <1>9, <1>10, <1>11 DEF AdmInv

\* A step that changes nothing.
LEMMA AdmStill ==
    ASSUME AdmInv, UNCHANGED Adm!vars
    PROVE  AdmInv'
<1>1. UNCHANGED <<admHousehold, login, fate, admAccount, admScreen, admInFlight, admUsed, admHistory>>
    BY DEF Adm!vars
<1>2. AdmTypes' /\ AdmTaken'
    BY <1>1 DEF AdmInv, AdmTypes, AdmTaken
<1>3. AdmShows' /\ AdmFollows'
    BY <1>1 DEF AdmInv, AdmShows, AdmFollows, Adm!Waiting
<1>4. AdmStarted' /\ AdmAccount'
    BY <1>1 DEF AdmInv, AdmStarted, AdmAccount
<1> QED BY <1>2, <1>3, <1>4 DEF AdmInv

\* Every step keeps the invariant.
LEMMA AdmStep ==
    ASSUME AdmConstants, AdmInv, [Adm!Next]_Adm!vars
    PROVE  AdmInv'
<1>1. ASSUME NEW r \in admInFlight, Adm!Take(r)
      PROVE  AdmInv'
    <2>1. r.kind \in AdmKinds
        BY DEF AdmInv, AdmTypes, AdmRequests
    <2> QED BY <1>1, <2>1, AdmTakesAccount, AdmTakesStart, AdmTakesStatus, AdmTakesCancel,
               AdmTakesLogout DEF AdmKinds
<1> QED
    BY <1>1, AdmOpens, AdmBack, AdmAsksAccount, AdmStarts, AdmPolls, AdmCancels, AdmSignsOut,
       AdmConfirms, AdmEnds, AdmOthers, AdmLoses, AdmHears, AdmStill DEF Adm!Next

\* The inductive invariant holds of every reachable state of the screen.
THEOREM AdmInvariant == AdmConstants => (Adm!Spec => []AdmInv)
<1> SUFFICES ASSUME AdmConstants
             PROVE  Adm!Spec => []AdmInv
    OBVIOUS
<1>1. Adm!Init => AdmInv
    BY AdmInit
<1>2. AdmInv /\ [Adm!Next]_Adm!vars => AdmInv'
    BY AdmStep
<1> QED BY <1>1, <1>2, PTL DEF Adm!Spec

\* At rest, with no request in flight and if no answers overtook each other, the screen
\* follows the login it started and what it says of the account is so: of a login it
\* followed to its end, and of its own sign-out, the page asks again (`login_moved`).  A
\* change that nothing has told the page is excepted, as another admin's or one its next
\* poll would tell, and so is an account the page says it could not learn.  An end it shows
\* is how that login ended, and signing in and signing out never overlap
\* (`household_availability`).
THEOREM AdmReal == AdmConstants => (Adm!Spec => []Adm!ScreenIsReal)
<1> SUFFICES ASSUME AdmConstants
             PROVE  Adm!Spec => []Adm!ScreenIsReal
    OBVIOUS
<1>1. AdmInv => Adm!ScreenIsReal
    BY AdmSays
<1>2. Adm!Spec => []AdmInv
    BY AdmInvariant
<1> QED BY <1>1, <1>2, PTL

HIDE DEF admHousehold, login, fate, admAccount, admScreen, admInFlight, admUsed,
         admHistory

-----------------------------------------------------------------------------
(* The switch for notifications *)

\* The variables of Notifications, by their names.
live == x1
held == x2
cookie == x3
browser == x4
device == x5
page == x6
signed == x7
noteInFlight == x8
noteUsed == x9
noteHistory == x10
USE DEF live, held, cookie, browser, device, page, signed, noteInFlight, noteUsed,
        noteHistory

\* The sessions there can be are counted.
NoteConstants == MaxSessions \in Nat

\* What the browser is asked to do.
NoteAsked == {"none", "subscribe", "unsubscribe"}
\* What a request of the page is, and its answer.
NoteRequestSet == [id : Nat, kind : {"put", "delete"}, session : Nat, endpoint : Nat,
                   heard : BOOLEAN, answer : {"none", "ok", "unauthenticated", "error"}]
\* What the page keeps of the device (`Device`).
NoteDevices == [known : BOOLEAN, sub : Nat, busy : NoteAsked, forget : {"no", "pending", "failed"},
                held : BOOLEAN, error : BOOLEAN]
\* What it keeps of the sign-in (`Signed`).
NoteSignedSet == [sent : Nat, saving : BOOLEAN, saved : BOOLEAN, refused : BOOLEAN, error : BOOLEAN]
\* What was used of the bounds.
NoteUsed == [sessions : Nat, endpoints : Nat, requests : Nat, launches : Nat, faults : Nat]
\* What no code keeps.
NoteHistory == [chose : SUBSET (Nat \X Nat), launched : SUBSET Nat, overtaken : BOOLEAN, taken : Nat]

\* The types of the variables.
NoteTypes ==
    /\ noteUsed \in NoteUsed /\ noteUsed.sessions =< MaxSessions
    /\ live \subseteq 1..noteUsed.sessions
    /\ cookie \in 0..noteUsed.sessions
    /\ held \in [Note!Sessions -> Nat]
    /\ browser \in [sub : Nat, asked : NoteAsked]
    /\ device \in NoteDevices
    /\ page \in {"checking", "in", "out"}
    /\ signed \in NoteSignedSet
    /\ noteInFlight \subseteq NoteRequestSet
    /\ noteHistory \in NoteHistory

\* What the page has of the device is what the browser has, and it is asked one
\* thing at a time.
NoteDevice ==
    /\ device.busy = browser.asked
    /\ device.known => device.sub = browser.sub
    /\ ~device.known => /\ device.sub = Note!None /\ browser.asked = "none"
                        /\ ~device.held /\ device.forget # "failed"
    /\ page = "checking" => browser.asked = "none" /\ device.forget = "no"
    /\ page # "in" /\ browser.asked = "subscribe" => device.forget = "pending"
    /\ device.forget = "failed" => device.error \/ browser.asked = "subscribe"
    /\ device.held => device.error \/ browser.asked = "unsubscribe"

\* What was sent is what the device holds, unless nothing was sent.
NoteSent ==
    /\ page # "in" => signed = Note!NewSigned
    /\ signed.sent # Note!None =>
          /\ device.sub = signed.sent /\ device.forget = "no" /\ ~device.held
          /\ device.known /\ browser.asked = "none"
    /\ signed.saving => signed.sent # Note!None /\ ~signed.saved /\ ~signed.refused
    /\ signed.refused => signed.sent # Note!None
    /\ signed.saved => signed.sent # Note!None /\ ~signed.refused

\* Requests are told apart, and one that is heard is of this sign-in; while a
\* subscription is being saved nothing is sent after it.
NoteRequests ==
    /\ \A r \in noteInFlight : r.id =< noteUsed.requests
    /\ \A r, q \in noteInFlight : r.id = q.id => r = q
    /\ \A r \in noteInFlight : r.answer # "none" => r.heard
    /\ \A r \in noteInFlight : r.heard => page = "in" /\ r.session = cookie
    /\ \A r \in noteInFlight :
          r.heard /\ r.kind = "put" =>
              signed.saving /\ r.endpoint = signed.sent /\ r.id = noteUsed.requests

\* What was saved is held, and what is still to be taken was sent before it.
NoteHeld ==
    /\ ~noteHistory.overtaken /\ cookie \in live
    /\ signed.saved \/ \E r \in noteInFlight : r.kind = "put" /\ r.answer = "ok"
    => /\ held[cookie] = signed.sent
       /\ \A q \in noteInFlight : q.answer = "none" => q.id < noteHistory.taken

\* What the device holds is this sign-in's, if it is not to be removed.
NoteChosen ==
    page = "in" /\ device.forget = "no" =>
        \/ cookie \in noteHistory.launched
        \/ device.known /\ (device.sub = Note!None \/ <<cookie, device.sub>> \in noteHistory.chose)

\* The inductive invariant of the switch.
NoteInv ==
    NoteTypes /\ NoteDevice /\ NoteSent /\ NoteRequests /\ NoteHeld /\ NoteChosen /\ Note!NoneTakenOver

\* What the invariant says of the switch.
LEMMA NoteSays ==
    ASSUME NoteInv
    PROVE  Note!SwitchIsReal
<1>1. Note!OnIsOn
    BY DEF Note!OnIsOn, Note!Rests, Note!On, NoteInv, NoteHeld, NoteSent, NoteDevice
<1>2. Note!OffIsOff
    BY DEF Note!OffIsOff, Note!Rests, Note!On, NoteInv, NoteDevice, NoteTypes, NoteDevices
<1> QED BY <1>1, <1>2 DEF Note!SwitchIsReal, NoteInv

\* A state in which nothing is told to the page any more: what is left of the
\* requests was not taken, and is not heard.
LEMMA NoteUnheard ==
    ASSUME NoteInv, noteInFlight' = Note!Unheard, signed' = Note!NewSigned,
           noteUsed'.requests = noteUsed.requests,
           noteHistory.chose \subseteq noteHistory'.chose, noteHistory.launched \subseteq noteHistory'.launched
    PROVE  /\ signed' \in NoteSignedSet /\ noteInFlight' \subseteq NoteRequestSet
           /\ NoteSent' /\ NoteRequests' /\ NoteHeld' /\ Note!NoneTakenOver'
<1>1. /\ \A r \in noteInFlight : r \in NoteRequestSet
      /\ noteUsed.requests \in Nat
    BY DEF NoteInv, NoteTypes, NoteUsed
<1>2. \A n \in noteInFlight' :
          /\ n \in NoteRequestSet /\ ~n.heard /\ n.answer = "none"
          /\ \E r \in noteInFlight : /\ n = [r EXCEPT !.heard = FALSE] /\ r.answer = "none"
                                     /\ n.id = r.id /\ n.kind = r.kind
                                     /\ n.session = r.session /\ n.endpoint = r.endpoint
    BY <1>1 DEF Note!Unheard, NoteRequestSet
<1>3. /\ signed' \in NoteSignedSet /\ signed'.sent = Note!None /\ ~signed'.saving
      /\ ~signed'.saved /\ ~signed'.refused
    BY DEF Note!NewSigned, NoteSignedSet, Note!None
<1>4. NoteSent'
    BY <1>3 DEF NoteSent, Note!NewSigned
<1>5. NoteRequests'
    <2>1. \A r \in noteInFlight' : r.id =< noteUsed'.requests
        BY <1>2 DEF NoteInv, NoteRequests
    <2>2. ASSUME NEW m \in noteInFlight', NEW n \in noteInFlight', m.id = n.id PROVE m = n
        <3>1. PICK r \in noteInFlight : m = [r EXCEPT !.heard = FALSE] /\ m.id = r.id
            BY <1>2
        <3>2. PICK q \in noteInFlight : n = [q EXCEPT !.heard = FALSE] /\ n.id = q.id
            BY <1>2
        <3>3. r = q
            BY <2>2, <3>1, <3>2 DEF NoteInv, NoteRequests
        <3> QED BY <3>1, <3>2, <3>3
    <2> QED BY <1>2, <2>1, <2>2 DEF NoteRequests
<1>6. NoteHeld'
    BY <1>2, <1>3 DEF NoteHeld
<1>7. Note!NoneTakenOver'
    BY <1>2 DEF NoteInv, Note!NoneTakenOver
<1> QED BY <1>2, <1>3, <1>4, <1>5, <1>6, <1>7

\* Nothing that a request or an answer depends on changes.
LEMMA NoteSame ==
    ASSUME NoteInv, UNCHANGED <<noteInFlight, signed, page, cookie>>,
           noteUsed'.requests = noteUsed.requests,
           noteHistory'.overtaken = noteHistory.overtaken, noteHistory'.taken = noteHistory.taken,
           noteHistory.chose \subseteq noteHistory'.chose, noteHistory.launched \subseteq noteHistory'.launched,
           cookie \in live' => cookie \in live /\ held'[cookie] = held[cookie]
    PROVE  NoteRequests' /\ NoteHeld' /\ Note!NoneTakenOver'
<1>1. NoteRequests'
    BY DEF NoteInv, NoteRequests
<1>2. NoteHeld'
    BY DEF NoteInv, NoteHeld
<1>3. Note!NoneTakenOver'
    BY DEF NoteInv, Note!NoneTakenOver
<1> QED BY <1>1, <1>2, <1>3

\* It holds to begin with.
LEMMA NoteInit ==
    ASSUME NoteConstants, Note!Init
    PROVE  NoteInv
<1>1. /\ live = {} /\ held = [s \in Note!Sessions |-> Note!None] /\ cookie = Note!None /\ page = "checking"
      /\ noteInFlight = {} /\ device = Note!NewDevice /\ signed = Note!NewSigned
    BY DEF Note!Init
<1>2. noteUsed \in NoteUsed /\ noteUsed.sessions = 0
    BY DEF Note!Init, NoteUsed
<1>3. /\ browser \in [sub : Nat, asked : NoteAsked] /\ browser.asked = "none"
    BY DEF Note!Init, NoteAsked, Note!None
<1>4. /\ Note!NewDevice \in NoteDevices /\ ~Note!NewDevice.known /\ Note!NewDevice.sub = Note!None
      /\ Note!NewDevice.busy = "none" /\ Note!NewDevice.forget = "no" /\ ~Note!NewDevice.held
    BY DEF Note!NewDevice, NoteDevices, NoteAsked, Note!None
<1>5. /\ Note!NewSigned \in NoteSignedSet /\ Note!NewSigned.sent = Note!None /\ ~Note!NewSigned.saving
      /\ ~Note!NewSigned.saved /\ ~Note!NewSigned.refused
    BY DEF Note!NewSigned, NoteSignedSet, Note!None
<1>6. noteHistory \in NoteHistory
    BY DEF Note!Init, NoteHistory
<1>7. NoteTypes
    BY <1>1, <1>2, <1>3, <1>4, <1>5, <1>6 DEF NoteTypes, NoteConstants, Note!None, Note!Sessions
<1>8. NoteDevice /\ NoteChosen
    BY <1>1, <1>3, <1>4 DEF NoteDevice, NoteChosen
<1>9. NoteSent
    BY <1>1, <1>5 DEF NoteSent
<1>10. NoteRequests /\ NoteHeld /\ Note!NoneTakenOver
    BY <1>1 DEF NoteRequests, NoteHeld, Note!NoneTakenOver
<1> QED BY <1>7, <1>8, <1>9, <1>10 DEF NoteInv

\* What is counted of the bounds stays a record of naturals.
LEMMA NoteCounts ==
    ASSUME NoteInv
    PROVE  /\ [noteUsed EXCEPT !.faults = @ + 1] \in NoteUsed
           /\ [noteUsed EXCEPT !.faults = @ + 1].requests = noteUsed.requests
           /\ [noteUsed EXCEPT !.faults = @ + 1].sessions = noteUsed.sessions
           /\ [noteUsed EXCEPT !.launches = @ + 1] \in NoteUsed
           /\ [noteUsed EXCEPT !.launches = @ + 1].requests = noteUsed.requests
           /\ [noteUsed EXCEPT !.launches = @ + 1].sessions = noteUsed.sessions
           /\ [noteUsed EXCEPT !.endpoints = @ + 1] \in NoteUsed
           /\ [noteUsed EXCEPT !.endpoints = @ + 1].requests = noteUsed.requests
           /\ [noteUsed EXCEPT !.endpoints = @ + 1].sessions = noteUsed.sessions
<1>1. noteUsed \in NoteUsed
    BY DEF NoteInv, NoteTypes
<1>2. /\ noteUsed.faults + 1 \in Nat /\ noteUsed.launches + 1 \in Nat /\ noteUsed.endpoints + 1 \in Nat
    BY <1>1 DEF NoteUsed
<1> QED BY <1>1, <1>2 DEF NoteUsed

\* A page that leaves: its device's subscription may be to be removed.
LEMMA NoteLeaves ==
    ASSUME NoteInv, NEW ended \in BOOLEAN, Note!Leaves(ended), ~ended => page = "checking",
           UNCHANGED <<browser, noteHistory>>, noteUsed'.requests = noteUsed.requests
    PROVE  /\ device' \in NoteDevices /\ page' \in {"checking", "in", "out"}
           /\ signed' \in NoteSignedSet /\ noteInFlight' \subseteq NoteRequestSet
           /\ NoteDevice' /\ NoteSent' /\ NoteRequests' /\ NoteHeld' /\ NoteChosen' /\ Note!NoneTakenOver'
<1>1. /\ page' = "out" /\ signed' = Note!NewSigned /\ noteInFlight' = Note!Unheard
      /\ device' = IF ended THEN [device EXCEPT !.forget = "pending"] ELSE device
    BY DEF Note!Leaves
<1>2. /\ signed' \in NoteSignedSet /\ noteInFlight' \subseteq NoteRequestSet
      /\ NoteSent' /\ NoteRequests' /\ NoteHeld' /\ Note!NoneTakenOver'
    BY <1>1, NoteUnheard
<1>3. device \in NoteDevices
    BY DEF NoteInv, NoteTypes
<1>4. /\ device' \in NoteDevices /\ device'.known = device.known /\ device'.sub = device.sub
      /\ device'.busy = device.busy /\ device'.held = device.held /\ device'.error = device.error
      /\ device'.forget = IF ended THEN "pending" ELSE device.forget
    BY <1>1, <1>3 DEF NoteDevices
<1>5. NoteDevice' /\ NoteChosen'
    BY <1>1, <1>4 DEF NoteInv, NoteDevice, NoteChosen
<1> QED BY <1>1, <1>2, <1>4, <1>5

\* A page that is signed in.
LEMMA NoteSignsIn ==
    ASSUME NoteInv, NEW launched \in BOOLEAN, Note!SignsIn(launched), page # "in", UNCHANGED browser,
           noteUsed'.requests = noteUsed.requests,
           noteHistory.chose \subseteq noteHistory'.chose, noteHistory.launched \subseteq noteHistory'.launched,
           launched => page = "checking" /\ cookie' \in noteHistory'.launched
    PROVE  /\ device' \in NoteDevices /\ page' \in {"checking", "in", "out"}
           /\ signed' \in NoteSignedSet /\ noteInFlight' \subseteq NoteRequestSet
           /\ NoteDevice' /\ NoteSent' /\ NoteRequests' /\ NoteHeld' /\ NoteChosen' /\ Note!NoneTakenOver'
<1>1. /\ page' = "in" /\ signed' = Note!NewSigned /\ noteInFlight' = Note!Unheard
      /\ device' = IF launched THEN device ELSE [device EXCEPT !.forget = "pending"]
    BY DEF Note!SignsIn, Note!Forgets
<1>2. /\ signed' \in NoteSignedSet /\ noteInFlight' \subseteq NoteRequestSet
      /\ NoteSent' /\ NoteRequests' /\ NoteHeld' /\ Note!NoneTakenOver'
    BY <1>1, NoteUnheard
<1>3. device \in NoteDevices
    BY DEF NoteInv, NoteTypes
<1>4. /\ device' \in NoteDevices /\ device'.known = device.known /\ device'.sub = device.sub
      /\ device'.busy = device.busy /\ device'.held = device.held /\ device'.error = device.error
      /\ device'.forget = IF launched THEN device.forget ELSE "pending"
    BY <1>1, <1>3 DEF NoteDevices
<1>5. NoteDevice' /\ NoteChosen'
    BY <1>1, <1>4 DEF NoteInv, NoteDevice, NoteChosen
<1> QED BY <1>1, <1>2, <1>4, <1>5

\* The page is loaded anew.
LEMMA NoteLaunch ==
    ASSUME NoteConstants, NoteInv, Note!Launch
    PROVE  NoteInv'
<1>1. /\ noteUsed' = [noteUsed EXCEPT !.launches = @ + 1]
      /\ page' = "checking" /\ signed' = Note!NewSigned /\ device' = Note!NewDevice
      /\ noteInFlight' = Note!Unheard
      /\ UNCHANGED <<live, held, cookie, noteHistory>>
      /\ browser'.asked = "none" /\ browser' \in [sub : Nat, asked : NoteAsked]
    BY DEF Note!Launch, NoteInv, NoteTypes, NoteAsked, Note!None
<1>2. /\ noteUsed' \in NoteUsed /\ noteUsed'.requests = noteUsed.requests
      /\ noteUsed'.sessions = noteUsed.sessions
    BY <1>1, NoteCounts
<1>3. /\ Note!NewDevice \in NoteDevices /\ ~Note!NewDevice.known /\ Note!NewDevice.sub = Note!None
      /\ Note!NewDevice.busy = "none" /\ Note!NewDevice.forget = "no" /\ ~Note!NewDevice.held
    BY DEF Note!NewDevice, NoteDevices, NoteAsked, Note!None
<1>4. /\ signed' \in NoteSignedSet /\ noteInFlight' \subseteq NoteRequestSet
      /\ NoteSent' /\ NoteRequests' /\ NoteHeld' /\ Note!NoneTakenOver'
    BY <1>1, <1>2, NoteUnheard
<1>5. NoteDevice' /\ NoteChosen'
    BY <1>1, <1>3 DEF NoteDevice, NoteChosen
<1>6. NoteTypes'
    BY <1>1, <1>2, <1>3, <1>4 DEF NoteInv, NoteTypes
<1> QED BY <1>4, <1>5, <1>6 DEF NoteInv

\* The session check of a launch is answered.
LEMMA NoteChecked ==
    ASSUME NoteConstants, NoteInv, Note!Checked
    PROVE  NoteInv'
<1>1. page = "checking" /\ UNCHANGED <<live, held, cookie, browser>>
    BY DEF Note!Checked
<1>2. CASE /\ Note!SignsIn(TRUE) /\ UNCHANGED noteUsed
           /\ noteHistory' = [noteHistory EXCEPT !.launched = @ \cup {cookie}]
    <2>1. /\ cookie \in Nat /\ noteHistory \in NoteHistory
        BY DEF NoteInv, NoteTypes, NoteUsed
    <2>2. /\ noteHistory' \in NoteHistory /\ noteHistory'.chose = noteHistory.chose
          /\ noteHistory'.launched = noteHistory.launched \cup {cookie}
        BY <1>2, <2>1 DEF NoteHistory
    <2>3. /\ device' \in NoteDevices /\ page' \in {"checking", "in", "out"}
          /\ signed' \in NoteSignedSet /\ noteInFlight' \subseteq NoteRequestSet
          /\ NoteDevice' /\ NoteSent' /\ NoteRequests' /\ NoteHeld' /\ NoteChosen' /\ Note!NoneTakenOver'
        BY <1>1, <1>2, <2>2, NoteSignsIn
    <2>4. NoteTypes'
        BY <1>1, <1>2, <2>2, <2>3 DEF NoteInv, NoteTypes
    <2> QED BY <2>3, <2>4 DEF NoteInv
<1>3. ASSUME NEW ended \in BOOLEAN, Note!Leaves(ended), UNCHANGED noteUsed \/ Note!Fails, UNCHANGED noteHistory
      PROVE  NoteInv'
    <2>1. noteUsed' \in NoteUsed /\ noteUsed'.requests = noteUsed.requests /\ noteUsed'.sessions = noteUsed.sessions
        BY <1>3, NoteCounts DEF Note!Fails, NoteInv, NoteTypes
    <2>2. /\ device' \in NoteDevices /\ page' \in {"checking", "in", "out"}
          /\ signed' \in NoteSignedSet /\ noteInFlight' \subseteq NoteRequestSet
          /\ NoteDevice' /\ NoteSent' /\ NoteRequests' /\ NoteHeld' /\ NoteChosen' /\ Note!NoneTakenOver'
        BY <1>1, <1>3, <2>1, NoteLeaves
    <2>3. NoteTypes'
        BY <1>1, <1>3, <2>1, <2>2 DEF NoteInv, NoteTypes
    <2> QED BY <2>2, <2>3 DEF NoteInv
<1> QED BY <1>2, <1>3 DEF Note!Checked

\* The member signs in: a session that was none before.
LEMMA NoteSignIn ==
    ASSUME NoteConstants, NoteInv, Note!SignIn
    PROVE  NoteInv'
<1>1. /\ page = "out" /\ noteUsed.sessions < MaxSessions
      /\ noteUsed' = [noteUsed EXCEPT !.sessions = @ + 1]
      /\ live' = live \cup {noteUsed'.sessions} /\ cookie' = noteUsed'.sessions
      /\ Note!SignsIn(FALSE) /\ UNCHANGED <<held, browser, noteHistory>>
    BY DEF Note!SignIn
<1>2. noteUsed \in NoteUsed /\ noteUsed.sessions + 1 \in Nat
    BY DEF NoteInv, NoteTypes, NoteUsed
<1>3. /\ noteUsed' \in NoteUsed /\ noteUsed'.requests = noteUsed.requests
      /\ noteUsed'.sessions = noteUsed.sessions + 1
    BY <1>1, <1>2 DEF NoteUsed
<1>4. /\ device' \in NoteDevices /\ page' \in {"checking", "in", "out"}
      /\ signed' \in NoteSignedSet /\ noteInFlight' \subseteq NoteRequestSet
      /\ NoteDevice' /\ NoteSent' /\ NoteRequests' /\ NoteHeld' /\ NoteChosen' /\ Note!NoneTakenOver'
    BY <1>1, <1>3, NoteSignsIn
<1>5. /\ noteUsed'.sessions =< MaxSessions /\ live' \subseteq 1..noteUsed'.sessions
      /\ cookie' \in 0..noteUsed'.sessions
    <2>1. PICK n \in Nat : n = noteUsed.sessions
        BY <1>2 DEF NoteUsed
    <2>2. /\ live \subseteq 1..n /\ live' = live \cup {n + 1} /\ noteUsed'.sessions = n + 1
          /\ cookie' = n + 1 /\ n < MaxSessions
        BY <1>1, <1>3, <2>1 DEF NoteInv, NoteTypes
    <2>3. \A x \in live' : x \in 1..(n + 1)
        BY <2>1, <2>2
    <2>4. n + 1 =< MaxSessions /\ n + 1 \in 0..(n + 1)
        BY <2>1, <2>2 DEF NoteConstants
    <2> QED BY <2>2, <2>3, <2>4
<1>6. NoteTypes'
    BY <1>1, <1>3, <1>4, <1>5 DEF NoteInv, NoteTypes
<1> QED BY <1>4, <1>6 DEF NoteInv

\* A session that ends, and what it held.
LEMMA NoteEnds ==
    ASSUME NoteConstants, NoteInv, NEW s \in live, Note!EndSession(s), noteUsed'.sessions = noteUsed.sessions
    PROVE  /\ live' \subseteq 1..noteUsed'.sessions /\ held' \in [Note!Sessions -> Nat]
           /\ cookie \in live' => cookie \in live /\ held'[cookie] = held[cookie]
<1>1. /\ held \in [Note!Sessions -> Nat] /\ live \subseteq 1..noteUsed.sessions
      /\ noteUsed.sessions \in Nat /\ noteUsed.sessions =< MaxSessions
    BY DEF NoteInv, NoteTypes, NoteUsed
<1>2. live' = live \ {s} /\ held' = [held EXCEPT ![s] = Note!None]
    BY DEF Note!EndSession
<1>3. live \subseteq Note!Sessions
    BY <1>1 DEF Note!Sessions, NoteConstants
<1> QED BY <1>1, <1>2, <1>3 DEF Note!None

\* The member signs out, which ends the session.
LEMMA NoteSignOut ==
    ASSUME NoteConstants, NoteInv, Note!SignOut
    PROVE  NoteInv'
<1>1. /\ cookie \in live /\ Note!EndSession(cookie) /\ cookie' = Note!None /\ Note!Leaves(TRUE)
      /\ UNCHANGED <<browser, noteUsed, noteHistory>>
    BY DEF Note!SignOut
<1>2. live' \subseteq 1..noteUsed'.sessions /\ held' \in [Note!Sessions -> Nat]
    BY <1>1, NoteEnds
<1>3. /\ device' \in NoteDevices /\ page' \in {"checking", "in", "out"}
      /\ signed' \in NoteSignedSet /\ noteInFlight' \subseteq NoteRequestSet
      /\ NoteDevice' /\ NoteSent' /\ NoteRequests' /\ NoteHeld' /\ NoteChosen' /\ Note!NoneTakenOver'
    BY <1>1, NoteLeaves
<1>4. NoteTypes'
    BY <1>1, <1>2, <1>3 DEF NoteInv, NoteTypes, NoteUsed, Note!None
<1> QED BY <1>3, <1>4 DEF NoteInv

\* A session is revoked from elsewhere.
LEMMA NoteRevoke ==
    ASSUME NoteConstants, NoteInv, Note!Revoke
    PROVE  NoteInv'
<1>1. PICK s \in live : Note!EndSession(s)
    BY DEF Note!Revoke
<1>2. /\ noteUsed' = [noteUsed EXCEPT !.faults = @ + 1]
      /\ UNCHANGED <<cookie, browser, device, page, signed, noteInFlight, noteHistory>>
    BY DEF Note!Revoke, Note!Fails
<1>3. noteUsed' \in NoteUsed /\ noteUsed'.requests = noteUsed.requests /\ noteUsed'.sessions = noteUsed.sessions
    BY <1>2, NoteCounts
<1>4. /\ live' \subseteq 1..noteUsed'.sessions /\ held' \in [Note!Sessions -> Nat]
      /\ cookie \in live' => cookie \in live /\ held'[cookie] = held[cookie]
    BY <1>1, <1>3, NoteEnds
<1>5. NoteRequests' /\ NoteHeld' /\ Note!NoneTakenOver'
    BY <1>2, <1>3, <1>4, NoteSame
<1>6. NoteDevice' /\ NoteSent' /\ NoteChosen'
    BY <1>2 DEF NoteInv, NoteDevice, NoteSent, NoteChosen
<1>7. NoteTypes'
    BY <1>2, <1>3, <1>4 DEF NoteInv, NoteTypes
<1> QED BY <1>5, <1>6, <1>7 DEF NoteInv

\* The page learns that its session has ended.
LEMMA NoteSessionEnded ==
    ASSUME NoteConstants, NoteInv, Note!SessionEnded
    PROVE  NoteInv'
<1>1. Note!Leaves(TRUE) /\ UNCHANGED <<live, held, cookie, browser, noteUsed, noteHistory>>
    BY DEF Note!SessionEnded
<1>2. /\ device' \in NoteDevices /\ page' \in {"checking", "in", "out"}
      /\ signed' \in NoteSignedSet /\ noteInFlight' \subseteq NoteRequestSet
      /\ NoteDevice' /\ NoteSent' /\ NoteRequests' /\ NoteHeld' /\ NoteChosen' /\ Note!NoneTakenOver'
    BY <1>1, NoteLeaves
<1>3. NoteTypes'
    BY <1>1, <1>2 DEF NoteInv, NoteTypes
<1> QED BY <1>2, <1>3 DEF NoteInv

\* The browser says what it holds.
LEMMA NoteReported ==
    ASSUME NoteConstants, NoteInv, Note!Reported
    PROVE  NoteInv'
<1>1. /\ ~device.known
      /\ device' = [device EXCEPT !.known = TRUE, !.sub = browser.sub,
                                  !.forget = IF browser.sub = Note!None THEN "no" ELSE @]
      /\ UNCHANGED <<live, held, cookie, browser, page, signed, noteInFlight, noteUsed, noteHistory>>
    BY DEF Note!Reported
<1>2. device \in NoteDevices /\ browser.sub \in Nat
    BY DEF NoteInv, NoteTypes
<1>3. /\ device' \in NoteDevices /\ device'.known /\ device'.sub = browser.sub
      /\ device'.busy = device.busy /\ device'.held = device.held /\ device'.error = device.error
      /\ device'.forget = IF browser.sub = Note!None THEN "no" ELSE device.forget
    BY <1>1, <1>2 DEF NoteDevices
<1>4. NoteRequests' /\ NoteHeld' /\ Note!NoneTakenOver'
    BY <1>1, NoteSame
<1>5. NoteTypes'
    BY <1>1, <1>3 DEF NoteInv, NoteTypes
<1>6. NoteDevice'
    BY <1>1, <1>3 DEF NoteInv, NoteDevice
<1>7. NoteSent' /\ NoteChosen'
    BY <1>1, <1>3 DEF NoteInv, NoteSent, NoteChosen, NoteDevice
<1> QED BY <1>4, <1>5, <1>6, <1>7 DEF NoteInv

\* A request that is sent is the last one, and is not taken yet.
LEMMA NoteSends ==
    ASSUME NoteConstants, NoteInv, page = "in", ~signed.saving,
           NEW kind \in {"put", "delete"}, NEW endpoint \in Nat, Note!Sends(kind, endpoint)
    PROVE  /\ noteUsed' \in NoteUsed /\ noteUsed'.sessions = noteUsed.sessions
           /\ noteUsed'.requests = noteUsed.requests + 1
           /\ noteInFlight' \subseteq NoteRequestSet
           /\ \A r \in noteInFlight' : r.id =< noteUsed'.requests
           /\ \A r, q \in noteInFlight' : r.id = q.id => r = q
           /\ \A r \in noteInFlight' : r.answer # "none" => r.heard
           /\ \A r \in noteInFlight' : r.heard => r.session = cookie
           /\ \A r \in noteInFlight' : r.heard /\ r.kind = "put" =>
                  /\ kind = "put" /\ r.id = noteUsed'.requests /\ r.endpoint = endpoint
                  /\ r.answer = "none"
           /\ \A r \in noteInFlight' : 
                  r \in noteInFlight \/ (r.kind = kind /\ r.session = cookie /\ r.endpoint = endpoint)
<1>1. PICK n \in Nat : n = noteUsed.requests
    BY DEF NoteInv, NoteTypes, NoteUsed
<1>2. noteUsed' = [noteUsed EXCEPT !.requests = n + 1] /\ noteUsed \in NoteUsed
    BY <1>1 DEF Note!Sends, NoteInv, NoteTypes
<1>3. noteUsed' \in NoteUsed /\ noteUsed'.sessions = noteUsed.sessions /\ noteUsed'.requests = n + 1
    BY <1>2 DEF NoteUsed
<1> DEFINE new == [id |-> n + 1, kind |-> kind, session |-> cookie, endpoint |-> endpoint,
                   heard |-> TRUE, answer |-> "none"]
<1>4. cookie \in Nat
    BY DEF NoteInv, NoteTypes, NoteUsed
<1>5. /\ new \in NoteRequestSet /\ new.id = n + 1 /\ new.kind = kind /\ new.session = cookie
      /\ new.endpoint = endpoint /\ new.heard /\ new.answer = "none"
    BY <1>4 DEF NoteRequestSet
<1>6. noteInFlight' = noteInFlight \cup {new}
    BY <1>3 DEF Note!Sends
<1> HIDE DEF new
<1>7. /\ \A r \in noteInFlight : r \in NoteRequestSet /\ r.id \in Nat /\ r.id =< n
      /\ \A r \in noteInFlight : ~(r.heard /\ r.kind = "put")
    BY <1>1 DEF NoteInv, NoteTypes, NoteRequests, NoteRequestSet
<1>8. /\ \A r \in noteInFlight' : r.id =< noteUsed'.requests
      /\ \A r, q \in noteInFlight' : r.id = q.id => r = q
    BY <1>3, <1>5, <1>6, <1>7 DEF NoteInv, NoteRequests
<1>9. /\ \A r \in noteInFlight' : r.answer # "none" => r.heard
      /\ \A r \in noteInFlight' : r.heard => r.session = cookie
    BY <1>5, <1>6 DEF NoteInv, NoteRequests
<1>10. \A r \in noteInFlight' : r.heard /\ r.kind = "put" => r = new
    BY <1>6, <1>7
<1> QED BY <1>1, <1>3, <1>5, <1>6, <1>7, <1>8, <1>9, <1>10

\* The switch is turned off: the gateway and the browser are told, and what was saved is no
\* longer said to be.
LEMMA NoteSwitchOff ==
    ASSUME NoteConstants, NoteInv, Note!SwitchOff
    PROVE  NoteInv'
<1>1. /\ page = "in" /\ device.known /\ device.busy = "none" /\ device.forget = "no" /\ ~signed.saving
      /\ device' = [device EXCEPT !.busy = "unsubscribe", !.error = FALSE, !.held = TRUE]
      /\ signed' = Note!NewSigned /\ Note!Sends("delete", Note!None)
      /\ browser' = [browser EXCEPT !.asked = "unsubscribe"]
      /\ UNCHANGED <<live, held, cookie, page, noteHistory>>
    BY DEF Note!SwitchOff, Note!Available, Note!On
<1>2. device \in NoteDevices /\ browser \in [sub : Nat, asked : NoteAsked]
    BY DEF NoteInv, NoteTypes
<1>3. /\ device' \in NoteDevices /\ device'.known = device.known /\ device'.sub = device.sub
      /\ device'.busy = "unsubscribe" /\ device'.held /\ device'.forget = device.forget
    BY <1>1, <1>2 DEF NoteDevices, NoteAsked
<1>4. /\ browser' \in [sub : Nat, asked : NoteAsked] /\ browser'.sub = browser.sub
      /\ browser'.asked = "unsubscribe"
    BY <1>1, <1>2 DEF NoteAsked
<1>5. /\ noteUsed' \in NoteUsed /\ noteUsed'.sessions = noteUsed.sessions
      /\ noteInFlight' \subseteq NoteRequestSet
      /\ \A r \in noteInFlight' : r.id =< noteUsed'.requests
      /\ \A r, q \in noteInFlight' : r.id = q.id => r = q
      /\ \A r \in noteInFlight' : r.answer # "none" => r.heard
      /\ \A r \in noteInFlight' : r.heard => r.session = cookie
      /\ \A r \in noteInFlight' : ~(r.heard /\ r.kind = "put")
      /\ \A r \in noteInFlight' : r.kind = "put" => r \in noteInFlight
    BY <1>1, NoteSends DEF Note!None
<1>6. /\ signed' \in NoteSignedSet /\ signed'.sent = Note!None /\ ~signed'.saving
      /\ ~signed'.saved /\ ~signed'.refused
    BY <1>1 DEF Note!NewSigned, NoteSignedSet, Note!None
<1>7. NoteTypes'
    BY <1>1, <1>3, <1>4, <1>5, <1>6 DEF NoteInv, NoteTypes
<1>8. NoteDevice' /\ NoteChosen'
    BY <1>1, <1>3, <1>4 DEF NoteInv, NoteDevice, NoteChosen
<1>9. NoteSent' /\ NoteRequests' /\ NoteHeld'
    BY <1>1, <1>5, <1>6 DEF NoteSent, NoteRequests, NoteHeld
<1>10. Note!NoneTakenOver'
    BY <1>1, <1>5 DEF NoteInv, Note!NoneTakenOver
<1> QED BY <1>7, <1>8, <1>9, <1>10 DEF NoteInv

\* The switch is turned on: nothing was sent, for it was off.
LEMMA NoteSwitchOn ==
    ASSUME NoteConstants, NoteInv, Note!SwitchOn
    PROVE  NoteInv'
<1>1. /\ page = "in" /\ device.known /\ device.busy = "none" /\ ~Note!On /\ ~signed.saving
      /\ device' = [device EXCEPT !.busy = "subscribe", !.error = FALSE, !.held = FALSE]
      /\ signed' = [signed EXCEPT !.error = FALSE, !.refused = FALSE]
      /\ browser' = [browser EXCEPT !.asked = "subscribe"]
      /\ UNCHANGED <<live, held, cookie, page, noteInFlight, noteUsed, noteHistory>>
    BY DEF Note!SwitchOn, Note!Available
<1>2. /\ device \in NoteDevices /\ browser \in [sub : Nat, asked : NoteAsked]
      /\ signed \in NoteSignedSet
    BY DEF NoteInv, NoteTypes
<1>3. /\ device' \in NoteDevices /\ device'.known = device.known /\ device'.sub = device.sub
      /\ device'.busy = "subscribe" /\ ~device'.held /\ device'.forget = device.forget
    BY <1>1, <1>2 DEF NoteDevices, NoteAsked
<1>4. /\ browser' \in [sub : Nat, asked : NoteAsked] /\ browser'.sub = browser.sub
      /\ browser'.asked = "subscribe"
    BY <1>1, <1>2 DEF NoteAsked
<1>5. signed.sent = Note!None /\ ~signed.saved
    BY <1>1 DEF Note!On, NoteInv, NoteSent
<1>6. /\ signed' \in NoteSignedSet /\ signed'.sent = Note!None /\ ~signed'.saving /\ ~signed'.refused
      /\ ~signed'.saved
    BY <1>1, <1>2, <1>5 DEF NoteSignedSet
<1>7. \A r \in noteInFlight : ~(r.heard /\ r.kind = "put")
    BY <1>1 DEF NoteInv, NoteRequests
<1>8. NoteTypes'
    BY <1>1, <1>3, <1>4, <1>6 DEF NoteInv, NoteTypes
<1>9. NoteDevice' /\ NoteChosen'
    BY <1>1, <1>3, <1>4 DEF NoteInv, NoteDevice, NoteChosen
<1>10. NoteSent'
    BY <1>1, <1>6 DEF NoteSent
<1>11. NoteRequests' /\ NoteHeld' /\ Note!NoneTakenOver'
    BY <1>1, <1>6, <1>7 DEF NoteInv, NoteRequests, NoteHeld, Note!NoneTakenOver
<1> QED BY <1>8, <1>9, <1>10, <1>11 DEF NoteInv

\* The browser subscribed: what it holds is chosen in this sign-in, if there is one.
LEMMA NoteSubscribed ==
    ASSUME NoteConstants, NoteInv, Note!Subscribed
    PROVE  NoteInv'
<1>1. /\ browser.asked = "subscribe" /\ UNCHANGED <<live, held, cookie, page, signed, noteInFlight>>
      /\ noteUsed' = [noteUsed EXCEPT !.endpoints = IF browser.sub = Note!None THEN @ + 1 ELSE @]
    BY DEF Note!Subscribed
<1>2. /\ noteUsed' \in NoteUsed /\ noteUsed'.requests = noteUsed.requests
      /\ noteUsed'.sessions = noteUsed.sessions
    <2>1. CASE browser.sub = Note!None
        BY <1>1, <2>1, NoteCounts
    <2>2. CASE browser.sub # Note!None
        BY <1>1, <2>2 DEF NoteInv, NoteTypes, NoteUsed
    <2> QED BY <2>1, <2>2
<1>3. browser'.asked = "none" /\ browser' \in [sub : Nat, asked : NoteAsked]
    BY <1>2 DEF Note!Subscribed, NoteInv, NoteTypes, NoteUsed, NoteAsked
<1>4. PICK x \in Nat : x = browser'.sub
    BY <1>3
<1>5. device \in NoteDevices /\ device.busy = "subscribe" /\ device.known
    BY <1>1 DEF NoteInv, NoteTypes, NoteDevice
<1>6. device' = [device EXCEPT !.busy = "none", !.forget = IF page = "in" THEN "no" ELSE device.forget,
                               !.held = FALSE, !.sub = x]
    BY <1>4, <1>5 DEF Note!Subscribed
<1>7. /\ device' \in NoteDevices /\ device'.known = device.known /\ device'.sub = x
      /\ device'.busy = "none" /\ ~device'.held
      /\ device'.forget = IF page = "in" THEN "no" ELSE device.forget
    BY <1>5, <1>6 DEF NoteDevices, NoteAsked
<1>8. /\ noteHistory' \in NoteHistory /\ noteHistory'.launched = noteHistory.launched
      /\ noteHistory'.overtaken = noteHistory.overtaken /\ noteHistory'.taken = noteHistory.taken
      /\ noteHistory.chose \subseteq noteHistory'.chose
      /\ page = "in" => <<cookie, x>> \in noteHistory'.chose
    <2>1. noteHistory \in NoteHistory /\ cookie \in Nat
        BY DEF NoteInv, NoteTypes, NoteUsed
    <2>2. noteHistory' = IF page = "in" THEN [noteHistory EXCEPT !.chose = @ \cup {<<cookie, x>>}] ELSE noteHistory
        BY <1>4 DEF Note!Subscribed
    <2> QED BY <1>4, <2>1, <2>2 DEF NoteHistory
<1>9. NoteRequests' /\ NoteHeld' /\ Note!NoneTakenOver'
    BY <1>1, <1>2, <1>8, NoteSame
<1>10. NoteTypes'
    BY <1>1, <1>2, <1>3, <1>7, <1>8 DEF NoteInv, NoteTypes
<1>11. NoteDevice'
    BY <1>1, <1>3, <1>4, <1>5, <1>7 DEF NoteInv, NoteDevice
<1>12. NoteSent' /\ NoteChosen'
    BY <1>1, <1>5, <1>7, <1>8 DEF NoteInv, NoteSent, NoteChosen
<1> QED BY <1>9, <1>10, <1>11, <1>12 DEF NoteInv

\* The browser holds no subscription any more.
LEMMA NoteUnsubscribed ==
    ASSUME NoteConstants, NoteInv, Note!Unsubscribed
    PROVE  NoteInv'
<1>1. /\ browser.asked = "unsubscribe" /\ browser' = [sub |-> Note!None, asked |-> "none"]
      /\ UNCHANGED <<live, held, cookie, page, signed, noteInFlight, noteUsed, noteHistory>>
    BY DEF Note!Unsubscribed
<1>2. device \in NoteDevices /\ device.busy = "unsubscribe" /\ device.known
    BY <1>1 DEF NoteInv, NoteTypes, NoteDevice
<1>3. device' = [device EXCEPT !.busy = "none", !.forget = "no", !.held = FALSE, !.sub = Note!None]
    BY <1>2 DEF Note!Unsubscribed
<1>4. /\ device' \in NoteDevices /\ device'.known = device.known /\ device'.sub = Note!None
      /\ device'.busy = "none" /\ ~device'.held /\ device'.forget = "no"
    BY <1>2, <1>3 DEF NoteDevices, NoteAsked, Note!None
<1>5. NoteRequests' /\ NoteHeld' /\ Note!NoneTakenOver'
    BY <1>1, NoteSame
<1>6. NoteTypes'
    BY <1>1, <1>4 DEF NoteInv, NoteTypes, NoteAsked, Note!None
<1>7. NoteDevice' /\ NoteSent' /\ NoteChosen'
    BY <1>1, <1>2, <1>4 DEF NoteInv, NoteDevice, NoteSent, NoteChosen
<1> QED BY <1>5, <1>6, <1>7 DEF NoteInv

\* What the browser was asked failed, and an error says so.
LEMMA NoteBrowserFails ==
    ASSUME NoteConstants, NoteInv, Note!BrowserFails
    PROVE  NoteInv'
<1>1. /\ browser.asked # "none" /\ browser' = [browser EXCEPT !.asked = "none"]
      /\ noteUsed' = [noteUsed EXCEPT !.faults = @ + 1]
      /\ UNCHANGED <<live, held, cookie, page, signed, noteInFlight, noteHistory>>
    BY DEF Note!BrowserFails, Note!Fails
<1>2. device \in NoteDevices /\ device.known /\ browser \in [sub : Nat, asked : NoteAsked]
    BY <1>1 DEF NoteInv, NoteTypes, NoteDevice
<1>3. device' = [device EXCEPT !.busy = "none", !.error = TRUE,
                     !.forget = IF browser.asked = "unsubscribe" /\ @ = "pending" THEN "failed" ELSE @]
    BY DEF Note!BrowserFails, Note!Failed
<1>4. /\ device' \in NoteDevices /\ device'.known = device.known /\ device'.sub = device.sub
      /\ device'.busy = "none" /\ device'.held = device.held /\ device'.error
      /\ device'.forget = IF browser.asked = "unsubscribe" /\ device.forget = "pending" THEN "failed"
                          ELSE device.forget
    BY <1>2, <1>3 DEF NoteDevices, NoteAsked
<1>5. /\ browser' \in [sub : Nat, asked : NoteAsked] /\ browser'.sub = browser.sub
      /\ browser'.asked = "none"
    BY <1>1, <1>2 DEF NoteAsked
<1>6. noteUsed' \in NoteUsed /\ noteUsed'.requests = noteUsed.requests /\ noteUsed'.sessions = noteUsed.sessions
    BY <1>1, NoteCounts
<1>7. NoteRequests' /\ NoteHeld' /\ Note!NoneTakenOver'
    BY <1>1, <1>6, NoteSame
<1>8. NoteTypes'
    BY <1>1, <1>4, <1>5, <1>6 DEF NoteInv, NoteTypes
<1>9. NoteDevice' /\ NoteSent' /\ NoteChosen'
    BY <1>1, <1>2, <1>4, <1>5 DEF NoteInv, NoteDevice, NoteSent, NoteChosen
<1> QED BY <1>7, <1>8, <1>9 DEF NoteInv

\* What a pass brings in line (`sync_subscription`): the device forgets at once,
\* or asks the browser to, or what it holds is sent.
LEMMA NoteSync ==
    ASSUME NoteConstants, NoteInv, Note!Sync
    PROVE  NoteInv'
<1>1. /\ device.known /\ device.busy = "none" /\ browser.asked = "none"
      /\ UNCHANGED <<live, held, cookie, page, noteHistory>>
      /\ device \in NoteDevices /\ browser \in [sub : Nat, asked : NoteAsked]
      /\ signed \in NoteSignedSet
    BY DEF Note!Sync, NoteInv, NoteDevice, NoteTypes
<1>2. ASSUME device.sub = Note!None, device' = [device EXCEPT !.forget = "no"],
             UNCHANGED <<browser, signed, noteInFlight, noteUsed>>
      PROVE  NoteInv'
    <2>1. /\ device' \in NoteDevices /\ device'.known = device.known /\ device'.sub = device.sub
          /\ device'.busy = device.busy /\ device'.held = device.held /\ device'.error = device.error
          /\ device'.forget = "no"
        BY <1>1, <1>2 DEF NoteDevices
    <2>2. NoteRequests' /\ NoteHeld' /\ Note!NoneTakenOver'
        BY <1>1, <1>2, NoteSame
    <2>3. NoteTypes'
        BY <1>1, <1>2, <2>1 DEF NoteInv, NoteTypes
    <2>4. NoteDevice' /\ NoteSent' /\ NoteChosen'
        BY <1>1, <1>2, <2>1 DEF NoteInv, NoteDevice, NoteSent, NoteChosen
    <2> QED BY <2>2, <2>3, <2>4 DEF NoteInv
<1>3. ASSUME device.forget = "pending", device' = [device EXCEPT !.busy = "unsubscribe"],
             browser' = [browser EXCEPT !.asked = "unsubscribe"], UNCHANGED <<signed, noteInFlight, noteUsed>>
      PROVE  NoteInv'
    <2>1. /\ device' \in NoteDevices /\ device'.known = device.known /\ device'.sub = device.sub
          /\ device'.busy = "unsubscribe" /\ device'.held = device.held
          /\ device'.error = device.error /\ device'.forget = "pending"
          /\ browser' \in [sub : Nat, asked : NoteAsked] /\ browser'.sub = browser.sub
          /\ browser'.asked = "unsubscribe"
        BY <1>1, <1>3 DEF NoteDevices, NoteAsked
    <2>2. NoteRequests' /\ NoteHeld' /\ Note!NoneTakenOver'
        BY <1>1, <1>3, NoteSame
    <2>3. NoteTypes'
        BY <1>1, <1>3, <2>1 DEF NoteInv, NoteTypes
    <2>4. page # "checking"
        BY <1>3 DEF NoteInv, NoteDevice
    <2>5. NoteDevice' /\ NoteSent' /\ NoteChosen'
        BY <1>1, <1>3, <2>1, <2>4 DEF NoteInv, NoteDevice, NoteSent, NoteChosen
    <2> QED BY <2>2, <2>3, <2>5 DEF NoteInv
<1>4. ASSUME page = "in", Note!On, ~signed.saving, signed.sent # device.sub,
             signed' = [signed EXCEPT !.sent = device.sub, !.saving = TRUE],
             Note!Sends("put", device.sub), UNCHANGED <<device, browser>>
      PROVE  NoteInv'
    <2>1. device.sub \in Nat /\ device.sub # Note!None /\ device.forget = "no" /\ ~device.held
        BY <1>1, <1>4 DEF Note!On, NoteDevices
    <2>2. signed.sent = Note!None /\ ~signed.saved /\ ~signed.refused
        BY <1>4 DEF NoteInv, NoteSent
    <2>3. /\ signed' \in NoteSignedSet /\ signed'.sent = device.sub /\ signed'.saving
          /\ ~signed'.saved /\ ~signed'.refused
        BY <1>1, <1>4, <2>1, <2>2 DEF NoteSignedSet
    <2>4. /\ noteUsed' \in NoteUsed /\ noteUsed'.sessions = noteUsed.sessions
          /\ noteInFlight' \subseteq NoteRequestSet
          /\ \A r \in noteInFlight' : r.id =< noteUsed'.requests
          /\ \A r, q \in noteInFlight' : r.id = q.id => r = q
          /\ \A r \in noteInFlight' : r.answer # "none" => r.heard
          /\ \A r \in noteInFlight' : r.heard => r.session = cookie
          /\ \A r \in noteInFlight' : r.heard /\ r.kind = "put" =>
                 r.id = noteUsed'.requests /\ r.endpoint = device.sub /\ r.answer = "none"
          /\ \A r \in noteInFlight' : r \in noteInFlight \/ (r.session = cookie /\ r.endpoint = device.sub)
        BY <1>4, <2>1, NoteSends
    <2>5. NoteTypes'
        BY <1>1, <1>4, <2>3, <2>4 DEF NoteInv, NoteTypes
    <2>6. NoteDevice' /\ NoteChosen'
        BY <1>1, <1>4 DEF NoteInv, NoteDevice, NoteChosen
    <2>7. NoteSent'
        BY <1>1, <1>4, <2>1, <2>3 DEF NoteSent
    <2>8. NoteRequests'
        BY <1>1, <1>4, <2>3, <2>4 DEF NoteRequests
    <2>9. NoteHeld'
        BY <2>3, <2>4 DEF NoteHeld
    <2>10. Note!NoneTakenOver'
        BY <1>1, <1>4, <2>1, <2>4 DEF NoteInv, Note!NoneTakenOver, NoteChosen
    <2> QED BY <2>5, <2>6, <2>7, <2>8, <2>9, <2>10 DEF NoteInv
<1> QED BY <1>2, <1>3, <1>4 DEF Note!Sync

\* A refused subscription is to be sent once more.
LEMMA NoteRetries ==
    ASSUME NoteConstants, NoteInv, Note!RetryPush
    PROVE  NoteInv'
<1>1. /\ page = "in" /\ signed.refused /\ ~signed.saving
      /\ signed' = [signed EXCEPT !.refused = FALSE, !.sent = Note!None, !.error = FALSE]
      /\ UNCHANGED <<live, held, cookie, browser, device, page, noteInFlight, noteUsed, noteHistory>>
    BY DEF Note!RetryPush
<1>2. signed \in NoteSignedSet /\ ~signed.saved
    BY <1>1 DEF NoteInv, NoteTypes, NoteSent
<1>3. /\ signed' \in NoteSignedSet /\ signed'.sent = Note!None /\ ~signed'.saving /\ ~signed'.refused
      /\ ~signed'.saved
    BY <1>1, <1>2 DEF NoteSignedSet, Note!None
<1>4. \A r \in noteInFlight : ~(r.heard /\ r.kind = "put")
    BY <1>1 DEF NoteInv, NoteRequests
<1>5. NoteTypes'
    BY <1>1, <1>3 DEF NoteInv, NoteTypes
<1>6. NoteDevice' /\ NoteChosen'
    BY <1>1 DEF NoteInv, NoteDevice, NoteChosen
<1>7. NoteSent'
    BY <1>1, <1>3 DEF NoteSent
<1>8. NoteRequests' /\ NoteHeld' /\ Note!NoneTakenOver'
    BY <1>1, <1>3, <1>4 DEF NoteInv, NoteRequests, NoteHeld, Note!NoneTakenOver
<1> QED BY <1>5, <1>6, <1>7, <1>8 DEF NoteInv

\* A request that changes is still told apart from the others.
LEMMA NoteAnswered ==
    ASSUME NoteConstants, NoteInv, NEW r \in noteInFlight, NEW answer \in {"ok", "unauthenticated", "error"},
           noteInFlight' = (noteInFlight \ {r}) \cup (IF r.heard THEN {[r EXCEPT !.answer = answer]} ELSE {}),
           noteUsed'.requests = noteUsed.requests, UNCHANGED <<page, cookie, signed>>,
           UNCHANGED <<noteHistory.chose, noteHistory.launched>>
    PROVE  /\ noteInFlight' \subseteq NoteRequestSet /\ NoteRequests' /\ Note!NoneTakenOver'
           /\ \A q \in noteInFlight' : \/ q \in noteInFlight /\ q # r
                                       \/ r.heard /\ q = [r EXCEPT !.answer = answer] /\ q.answer = answer /\ q.kind = r.kind
<1> DEFINE n == [r EXCEPT !.answer = answer]
<1>1. r \in NoteRequestSet
    BY DEF NoteInv, NoteTypes
<1>2. /\ n \in NoteRequestSet /\ n.id = r.id /\ n.kind = r.kind /\ n.session = r.session
      /\ n.endpoint = r.endpoint /\ n.heard = r.heard /\ n.answer = answer
    BY <1>1 DEF NoteRequestSet
<1>3. noteInFlight' = (noteInFlight \ {r}) \cup (IF r.heard THEN {n} ELSE {})
    OBVIOUS
<1>4. n = [r EXCEPT !.answer = answer]
    OBVIOUS
<1> HIDE DEF n
<1>5. \A q \in noteInFlight' : (q \in noteInFlight /\ q # r) \/ (r.heard /\ q = n)
    BY <1>3
<1>6. noteInFlight' \subseteq NoteRequestSet
    BY <1>2, <1>5 DEF NoteInv, NoteTypes
<1>7. NoteRequests'
    BY <1>2, <1>5 DEF NoteInv, NoteRequests
<1>8. Note!NoneTakenOver'
    BY <1>2, <1>5 DEF NoteInv, Note!NoneTakenOver
<1> QED BY <1>2, <1>4, <1>5, <1>6, <1>7, <1>8

\* A request that is taken: a subscription sent last is held once it is, and any
\* other is taken after one that was sent later.
LEMMA NoteTake ==
    ASSUME NoteConstants, NoteInv, NEW r \in noteInFlight, Note!Take(r)
    PROVE  NoteInv'
<1>1. /\ r.answer = "none" /\ UNCHANGED <<live, cookie, browser, device, page, signed, noteUsed>>
      /\ noteHistory' = [noteHistory EXCEPT !.overtaken = @ \/ r.id < noteHistory.taken,
                                            !.taken = IF r.id < @ THEN @ ELSE r.id]
    BY DEF Note!Take
<1>2. PICK answer \in {"ok", "unauthenticated"} :
        /\ answer = IF r.session \in live THEN "ok" ELSE "unauthenticated"
        /\ noteInFlight' = (noteInFlight \ {r}) \cup (IF r.heard THEN {[r EXCEPT !.answer = answer]} ELSE {})
    BY DEF Note!Take
<1>3. r \in NoteRequestSet /\ noteHistory \in NoteHistory
    BY DEF NoteInv, NoteTypes
<1>4. /\ noteHistory' \in NoteHistory /\ noteHistory'.chose = noteHistory.chose
      /\ noteHistory'.launched = noteHistory.launched
    <2>1. PICK b \in BOOLEAN : b = (noteHistory.overtaken \/ r.id < noteHistory.taken)
        OBVIOUS
    <2>2. PICK t \in Nat : t = IF r.id < noteHistory.taken THEN noteHistory.taken ELSE r.id
        BY <1>3 DEF NoteRequestSet, NoteHistory
    <2>3. noteHistory' = [noteHistory EXCEPT !.overtaken = b, !.taken = t]
        BY <1>1, <2>1, <2>2
    <2> QED BY <1>3, <2>3 DEF NoteHistory
<1>5. /\ noteHistory'.overtaken <=> (noteHistory.overtaken \/ r.id < noteHistory.taken)
    BY <1>1, <1>3 DEF NoteHistory
<1>6. noteHistory'.taken = IF r.id < noteHistory.taken THEN noteHistory.taken ELSE r.id
    BY <1>1, <1>3 DEF NoteHistory
<1>7. /\ noteInFlight' \subseteq NoteRequestSet /\ NoteRequests' /\ Note!NoneTakenOver'
      /\ \A q \in noteInFlight' : \/ q \in noteInFlight /\ q # r
                                  \/ r.heard /\ q.answer = answer /\ q.kind = r.kind
    BY <1>1, <1>2, <1>4, NoteAnswered
<1>8. cookie \in live => cookie \in Note!Sessions
    BY DEF NoteInv, NoteTypes, NoteUsed, NoteConstants, Note!Sessions
<1>9. held' \in [Note!Sessions -> Nat]
    BY <1>3 DEF Note!Take, Note!Put, NoteInv, NoteTypes, NoteRequestSet, Note!None
<1>10. NoteHeld'
    <2>1. SUFFICES ASSUME ~noteHistory'.overtaken, cookie \in live,
                          signed.saved \/ \E q \in noteInFlight' : q.kind = "put" /\ q.answer = "ok"
                   PROVE  /\ held'[cookie] = signed.sent
                          /\ \A q \in noteInFlight' : q.answer = "none" => q.id < noteHistory'.taken
        BY <1>1 DEF NoteHeld
    <2>2. ~(signed.saved \/ \E q \in noteInFlight : q.kind = "put" /\ q.answer = "ok")
        BY <1>1, <1>5, <2>1 DEF NoteInv, NoteHeld
    <2>3. r.heard /\ r.kind = "put"
        BY <1>7, <2>1, <2>2
    <2>4. r.session = cookie /\ r.endpoint = signed.sent /\ r.id = noteUsed.requests
        BY <2>3 DEF NoteInv, NoteRequests
    <2>5. held'[cookie] = signed.sent
        BY <1>8, <2>1, <2>3, <2>4 DEF Note!Take, Note!Put
    <2>6. ASSUME NEW q \in noteInFlight', q.answer = "none" PROVE q.id < noteHistory'.taken
        <3>1. q \in noteInFlight /\ q # r
            BY <1>2, <1>7, <2>6
        <3>2. q.id =< noteUsed.requests /\ q.id # r.id
            BY <3>1 DEF NoteInv, NoteRequests
        <3>3. q.id \in Nat /\ r.id \in Nat /\ noteHistory.taken \in Nat
            BY <1>3, <3>1 DEF NoteInv, NoteTypes, NoteRequestSet, NoteHistory
        <3> QED BY <1>6, <2>4, <3>2, <3>3
    <2> QED BY <2>5, <2>6
<1>11. NoteTypes'
    BY <1>1, <1>4, <1>7, <1>9 DEF NoteInv, NoteTypes
<1>12. NoteDevice' /\ NoteSent' /\ NoteChosen'
    BY <1>1, <1>4 DEF NoteInv, NoteDevice, NoteSent, NoteChosen
<1> QED BY <1>7, <1>10, <1>11, <1>12 DEF NoteInv

\* A request or its answer is lost.
LEMMA NoteLose ==
    ASSUME NoteConstants, NoteInv, NEW r \in noteInFlight, Note!Lose(r)
    PROVE  NoteInv'
<1>1. /\ noteUsed' = [noteUsed EXCEPT !.faults = @ + 1]
      /\ noteInFlight' = (noteInFlight \ {r}) \cup (IF r.heard THEN {[r EXCEPT !.answer = "error"]} ELSE {})
      /\ UNCHANGED <<live, held, cookie, browser, device, page, signed, noteHistory>>
    BY DEF Note!Lose, Note!Fails
<1>2. noteUsed' \in NoteUsed /\ noteUsed'.requests = noteUsed.requests /\ noteUsed'.sessions = noteUsed.sessions
    BY <1>1, NoteCounts
<1>3. /\ noteInFlight' \subseteq NoteRequestSet /\ NoteRequests' /\ Note!NoneTakenOver'
      /\ \A q \in noteInFlight' : q \in noteInFlight \/ q.answer = "error"
    BY <1>1, <1>2, NoteAnswered
<1>4. NoteHeld'
    BY <1>1, <1>3 DEF NoteInv, NoteHeld
<1>5. NoteTypes'
    BY <1>1, <1>2, <1>3 DEF NoteInv, NoteTypes
<1>6. NoteDevice' /\ NoteSent' /\ NoteChosen'
    BY <1>1 DEF NoteInv, NoteDevice, NoteSent, NoteChosen
<1> QED BY <1>3, <1>4, <1>5, <1>6 DEF NoteInv

\* The page hears an answer; an answered subscription was the one being saved.
LEMMA NoteAnswer ==
    ASSUME NoteConstants, NoteInv, NEW r \in noteInFlight, Note!Answer(r)
    PROVE  NoteInv'
<1>1. r.answer # "none" /\ UNCHANGED <<live, held, cookie, browser, noteUsed, noteHistory>>
    BY DEF Note!Answer
<1>2. CASE r.answer = "unauthenticated"
    <2>1. Note!Leaves(TRUE)
        BY <1>2 DEF Note!Answer
    <2>2. /\ device' \in NoteDevices /\ page' \in {"checking", "in", "out"}
          /\ signed' \in NoteSignedSet /\ noteInFlight' \subseteq NoteRequestSet
          /\ NoteDevice' /\ NoteSent' /\ NoteRequests' /\ NoteHeld' /\ NoteChosen' /\ Note!NoneTakenOver'
        BY <1>1, <2>1, NoteLeaves
    <2>3. NoteTypes'
        BY <1>1, <2>2 DEF NoteInv, NoteTypes
    <2> QED BY <2>2, <2>3 DEF NoteInv
<1>3. CASE r.answer # "unauthenticated"
    <2>1. /\ noteInFlight' = noteInFlight \ {r} /\ UNCHANGED <<device, page>>
          /\ \/ /\ r.kind = "put" /\ r.answer = "ok"
                /\ signed' = [signed EXCEPT !.saving = FALSE, !.saved = TRUE]
             \/ /\ r.kind = "put" /\ r.answer = "error"
                /\ signed' = [signed EXCEPT !.saving = FALSE, !.error = TRUE, !.refused = TRUE]
             \/ r.kind = "delete" /\ signed' = [signed EXCEPT !.error = TRUE]
             \/ r.kind = "delete" /\ signed' = signed
        BY <1>1, <1>3 DEF Note!Answer, NoteInv, NoteTypes, NoteRequestSet
    <2>2. signed \in NoteSignedSet
        BY DEF NoteInv, NoteTypes
    <2>3. r.heard /\ page = "in"
        BY <1>1 DEF NoteInv, NoteRequests
    <2>4. r.kind = "put" => /\ signed.saving /\ signed.sent # Note!None /\ ~signed.saved
                            /\ \A q \in noteInFlight' : ~(q.heard /\ q.kind = "put")
        BY <2>1, <2>3 DEF NoteInv, NoteRequests, NoteSent
    <2>5. /\ signed' \in NoteSignedSet /\ signed'.sent = signed.sent
          /\ r.kind = "put" => ~signed'.saving
          /\ r.kind = "delete" => /\ signed'.saving = signed.saving /\ signed'.saved = signed.saved
                                  /\ signed'.refused = signed.refused
          /\ r.kind = "put" /\ r.answer = "error" => ~signed'.saved /\ signed'.refused
          /\ r.kind = "put" /\ r.answer = "ok" => signed'.saved /\ ~signed'.refused
        BY <2>1, <2>2, <2>4 DEF NoteSignedSet, NoteInv, NoteSent
    <2>6. NoteTypes'
        BY <1>1, <2>1, <2>5 DEF NoteInv, NoteTypes
    <2>7. NoteDevice' /\ NoteChosen' /\ Note!NoneTakenOver'
        BY <1>1, <2>1 DEF NoteInv, NoteDevice, NoteChosen, Note!NoneTakenOver
    <2>8. NoteSent'
        BY <1>1, <2>1, <2>3, <2>4, <2>5 DEF NoteInv, NoteSent
    <2>9. NoteRequests'
        BY <1>1, <2>1, <2>4, <2>5 DEF NoteInv, NoteRequests
    <2>10. NoteHeld'
        BY <1>1, <2>1, <2>4, <2>5 DEF NoteInv, NoteHeld
    <2> QED BY <2>6, <2>7, <2>8, <2>9, <2>10 DEF NoteInv
<1> QED BY <1>2, <1>3

\* Every step keeps the invariant.
LEMMA NoteSteps ==
    ASSUME NoteConstants, NoteInv, [Note!Next]_Note!vars
    PROVE  NoteInv'
<1>1. CASE UNCHANGED Note!vars
    BY <1>1 DEF Note!vars, NoteInv, NoteTypes, NoteDevice, NoteSent, NoteRequests, NoteHeld, NoteChosen,
                Note!NoneTakenOver
<1>2. CASE Note!Next
    <2>1. CASE \E r \in noteInFlight : Note!Take(r) \/ Note!Lose(r) \/ Note!Answer(r)
        BY <2>1, NoteTake, NoteLose, NoteAnswer
    <2> QED
        BY <1>2, <2>1, NoteLaunch, NoteChecked, NoteSignIn, NoteSignOut, NoteRevoke, NoteSessionEnded,
           NoteReported, NoteSwitchOff, NoteSwitchOn, NoteSubscribed, NoteUnsubscribed,
           NoteBrowserFails, NoteSync, NoteRetries
        DEF Note!Next
<1> QED BY <1>1, <1>2

\* The inductive invariant holds of every reachable state of the switch.
THEOREM NoteInvariant ==
    ASSUME NoteConstants
    PROVE  Note!Spec => []NoteInv
<1>1. Note!Init => NoteInv
    BY NoteInit
<1>2. NoteInv /\ [Note!Next]_Note!vars => NoteInv'
    BY NoteSteps
<1> QED BY <1>1, <1>2, PTL DEF Note!Spec

\* At rest, a switch that is on and saved is on at the gateway, unless requests were taken
\* out of their order; one that is off without an error is off at the browser; and no
\* subscription is sent for a sign-in that did not ask for it (`notifications_on`,
\* `toggle_notifications`, `sync_subscription`).
THEOREM NoteReal ==
    ASSUME NoteConstants
    PROVE  Note!Spec => []Note!SwitchIsReal
<1>1. NoteInv => Note!SwitchIsReal
    BY NoteSays
<1> QED BY <1>1, NoteInvariant, PTL

HIDE DEF live, held, cookie, browser, device, page, signed, noteInFlight, noteUsed,
         noteHistory

-----------------------------------------------------------------------------
(* What follows of MCPages. *)

\* For any Bots, texts, requests and failures, what the user wrote is before them, on its
\* way or taken.  The exceptions: what they replaced or gave up; a text in the composer as
\* one was being sent, and an edit as it was being saved, of a conversation they then left;
\* and a draft or an edit that the answer to another request of its conversation settled,
\* as that to a pin or to an agent's message.  What an agent gave to send is not the user's.
\* None is taken twice but the latter exception and those whose answer was lost; and no
\* control stays disabled without a request under way (`reply`, `take_open`).
THEOREM CommandsAreKept ==
    ASSUME CmdConstants
    PROVE  PagesSpec => []CommandsKept
<1>1. PagesInit => (part = "commands" => CmdInv)
    BY CmdInit DEF PagesInit
<1>2. [PagesNext]_all => (part' = part /\ (part = "commands" => [Cmd!Next]_Cmd!vars))
    BY DEF PagesNext, all, Cmd!vars
<1>3. (part = "commands" => CmdInv) /\ [PagesNext]_all => (part = "commands" => CmdInv)'
    BY <1>2, CmdStep
<1>4. (part = "commands" => CmdInv) => (part = "commands" => Cmd!CommandsKept)
    BY CmdSays
<1> QED BY <1>1, <1>3, <1>4, PTL DEF PagesSpec, CommandsKept

\* At rest the switch for notifications is what the gateway and the browser hold
\* (`notifications_on`), for any sessions, subscriptions, requests and failures.
LEMMA SwitchIsReal ==
    ASSUME NoteConstants
    PROVE  PagesSpec => [](part = "notifications" => Note!SwitchIsReal)
<1>1. PagesInit => (part = "notifications" => NoteInv)
    BY NoteInit DEF PagesInit
<1>2. [PagesNext]_all => (part' = part /\ (part = "notifications" => [Note!Next]_Note!vars))
    BY DEF PagesNext, all, Note!vars
<1>3. (part = "notifications" => NoteInv) /\ [PagesNext]_all => (part = "notifications" => NoteInv)'
    BY <1>2, NoteSteps
<1>4. (part = "notifications" => NoteInv) => (part = "notifications" => Note!SwitchIsReal)
    BY NoteSays
<1> QED BY <1>1, <1>3, <1>4, PTL DEF PagesSpec

\* At rest the screen of the household's sign-in is what the gateway holds, as far as the
\* page was told of it (`login_moved`, `following`), for any sign-ins, requests and failures.
LEMMA ScreenIsReal ==
    ASSUME AdmConstants
    PROVE  PagesSpec => [](part = "household" => Adm!ScreenIsReal)
<1>1. PagesInit => (part = "household" => AdmInv)
    BY AdmInit DEF PagesInit
<1>2. [PagesNext]_all => (part' = part /\ (part = "household" => [Adm!Next]_Adm!vars))
    BY DEF PagesNext, all, Adm!vars
<1>3. (part = "household" => AdmInv) /\ [PagesNext]_all => (part = "household" => AdmInv)'
    BY <1>2, AdmStep
<1>4. (part = "household" => AdmInv) => (part = "household" => Adm!ScreenIsReal)
    BY AdmSays
<1> QED BY <1>1, <1>3, <1>4, PTL DEF PagesSpec

\* Once nothing is under way, the switch for notifications shows what the gateway and the
\* browser hold, and the screen of the household's sign-in follows the sign-in it started
\* and shows the account as it is.  Both except answers that overtook each other; the
\* switch, an error that it shows; the account, a request for it that failed and a change
\* of which nothing has told the page since, neither an answer it awaits nor an account
\* request.  A sign-in that the page followed to its end and its own sign-out are no such
\* change: it asks again (`login_moved`, `toggle_notifications`, `signed_in`).
THEOREM ControlsReal ==
    ASSUME NoteConstants, AdmConstants
    PROVE  PagesSpec => []ControlsAreReal
BY SwitchIsReal, ScreenIsReal, PTL DEF ControlsAreReal

=============================================================================
