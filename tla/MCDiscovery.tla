------------------------------ MODULE MCDiscovery ------------------------------
(***************************************************************************)
(* Three users at two tables, and the mixtures of what may happen there.   *)
(***************************************************************************)
EXTENDS Discovery, TLC

Mix(what, howMany) == [may |-> what, commands |-> howMany]

Mixtures ==
  {Mix({"code", "leave", "claim", "start", "close"}, [publish |-> 1, withdraw |-> 1]),
   Mix({"leave", "retry"}, [publish |-> 2, quick |-> 1]),
   Mix({"leave"}, [publish |-> 2, withdraw |-> 1, join |-> 1]),
   Mix({"block"}, [publish |-> 1, join |-> 1, look |-> 1]),
   Mix({"create", "code"}, [look |-> 1, invite |-> 1, accept |-> 1]),
   Mix({"lapse", "block"}, [look |-> 2, invite |-> 1, accept |-> 1]),
   Mix({"hide", "decline", "block", "retry"}, [look |-> 1, invite |-> 1, accept |-> 1]),
   Mix({}, [publish |-> 1, look |-> 1, invite |-> 1, accept |-> 1]),
   Mix({}, [look |-> 2, invite |-> 2, accept |-> 2])}

Alike == Permutations(Users) \cup Permutations(Tables) \cup Permutations(Requests)
=============================================================================
