----------------------------- MODULE MCTableSync -----------------------------
(***************************************************************************)
(* One browser at a table for TLC: without a companion, while hints exceed *)
(* the rate, with a second ticket while the first socket is still counted, *)
(* with a command of its own beside its socket, and with tickets enough    *)
(* for two sockets that were asked for at once.                            *)
(***************************************************************************)
EXTENDS TableSync

Connections ==
  {[revisions |-> 3, tickets |-> 0, moves |-> 2],
   [revisions |-> 4, tickets |-> 1, moves |-> 0],
   [revisions |-> 2, tickets |-> 2, moves |-> 0],
   [revisions |-> 2, tickets |-> 1, moves |-> 1],
   [revisions |-> 1, tickets |-> 3, moves |-> 0]}
=============================================================================
