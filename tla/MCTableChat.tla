---------------------------- MODULE MCTableChat ----------------------------
(***************************************************************************)
(* A table of two: a reads what b writes, and once writes too.  What       *)
(* happens beside the talk is one of five sets of occasions, because none  *)
(* of the properties is about two of them at once.                         *)
(***************************************************************************)
EXTENDS TableChat

CONSTANTS a, b

Talks == {
  [may |-> {"text", "room", "publish"}, writers |-> {b}, messages |-> 2, time |-> 3],
  [may |-> {"phrase", "room", "game"}, writers |-> {b}, messages |-> 2, time |-> 3],
  [may |-> {"phrase", "mute", "block"}, writers |-> {a, b}, messages |-> 2, time |-> 3],
  [may |-> {"phrase", "room", "report"}, writers |-> {b}, messages |-> 1, time |-> 2],
  [may |-> {"phrase", "report", "purge"}, writers |-> {b}, messages |-> 1, time |-> 5]}
=============================================================================
