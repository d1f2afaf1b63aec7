---------------------------- MODULE MCRateLimit ----------------------------
(* Instances of RateLimit for TLC.                                           *)
EXTENDS RateLimit

Rule(algorithm, a, b) == [algorithm |-> algorithm, p1 |-> a, p2 |-> b]

\* A window of 1.5 s, a bucket of two and a half tokens, one each second.
MCConfig ==
  [k \in {"bucket", "fixed", "log", "counter"} |->
     CASE k = "bucket"  -> Rule("token-bucket", 5, 1)
       [] k = "fixed"   -> Rule("fixed-window", 2, 3)
       [] k = "log"     -> Rule("sliding-window-log", 2, 3)
       [] k = "counter" -> Rule("sliding-window-counter", 2, 3)]

MCLists == {<<"bucket", "fixed">>, <<"log", "bucket">>, <<"counter", "log">>}
=============================================================================
