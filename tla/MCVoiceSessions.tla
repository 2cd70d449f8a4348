--------------------------- MODULE MCVoiceSessions ---------------------------
(***************************************************************************)
(* A table of two, one of whom speaks.  What is done about one job does    *)
(* not touch another, so two requests sweep only where a job may be asked  *)
(* for again and again; the evenings that go on past the retention of a    *)
(* job have one.                                                           *)
(***************************************************************************)
EXTENDS VoiceSessions, TLC

CONSTANTS a, b, s1, s2

Evening(may, sweepers, until) == [may |-> may, sweepers |-> sweepers, time |-> until]
Week == {Evening({"block"}, {s1, s2}, 3)} \cup
        UNION {{Evening({"leave"}, {s}, 4), Evening({"close", "publish"}, {s}, 4),
                Evening({"purge", "accept"}, {s}, 5)} : s \in {s1, s2}}

Sweeping == Permutations({s1, s2})
=============================================================================
