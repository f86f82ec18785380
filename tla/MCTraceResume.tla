---------------------------- MODULE MCTraceResume ----------------------------
(* Three cases of two, one and two queries; the whole split or its beginning. *)
EXTENDS TraceResume

MCLastQuery == [c \in 0..3 |-> CASE c = 0 -> 0 [] c = 1 -> 2 [] c = 2 -> 3 [] c = 3 -> 5]
FullScope == {{1, 2, 3}}
AnyScope  == {{1, 2, 3}, {1}, {2, 3}}
=============================================================================
