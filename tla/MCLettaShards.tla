---------------------------- MODULE MCLettaShards ----------------------------
(* Two shards whose cases have the turn "x" in common, and a query each.      *)
EXTENDS LettaShards, TLC

CONSTANTS s1, s2

MCTextOf == (s1 :> <<"x", "q">>) @@ (s2 :> <<"x", "x">>)
=============================================================================
