---------------------------- MODULE MCEventStream ----------------------------
(* One page and one appending task; every event is pruned as soon as the    *)
(* retention allows, a page of the replay is one row, and a receiver that   *)
(* has one unread event falls behind with the next.                         *)
EXTENDS EventStream, TLC

=============================================================================
