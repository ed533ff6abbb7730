------------------------------ MODULE EventFeed ------------------------------
(***************************************************************************)
(* What the event log and its socket promise the application of one page:  *)
(* it is given every event after its position, one at a time and in order, *)
(* or is told to reload everything at a position it has not passed.        *)
(***************************************************************************)
EXTENDS Integers

CONSTANTS
    LogNumbers,    \* the numbers the log can hold
    Nowhere     \* the position of a page that has not synchronised

VARIABLES
    newest,     \* the last number committed
    contents,   \* what was committed under each number
    position,   \* the page's position in the log
    command     \* what its application was last told: [op, seq, by]

vars == <<newest, contents, position, command>>

Init ==
    /\ newest = 0
    /\ position = Nowhere
    /\ command.op = "none"

\* The log grows; what it holds does not change.
Grow ==
    /\ newest' > newest
    /\ \A n \in LogNumbers : n <= newest => contents'[n] = contents[n]
    /\ UNCHANGED <<position, command>>

\* The next event, as it was committed.
Deliver ==
    /\ position # Nowhere
    /\ position + 1 <= newest
    /\ position' = position + 1
    /\ command' = [op |-> "apply", seq |-> position + 1, by |-> contents[position + 1]]
    /\ UNCHANGED <<newest, contents>>

\* Everything is read again, at the end of the log or short of it by what is
\* still to be delivered; never behind the page's position.
Rebase ==
    /\ position' <= newest
    /\ position # Nowhere => position' >= position
    /\ position' # Nowhere
    /\ command'.op = "reload" /\ command'.seq = position'
    /\ UNCHANGED <<newest, contents>>

\* The page signs out: the next sign-in starts from nothing.
Leave ==
    /\ position' = Nowhere
    /\ UNCHANGED <<newest, contents, command>>

Next == Grow \/ Deliver \/ Rebase \/ Leave

Spec == Init /\ [][Next]_vars

=============================================================================
