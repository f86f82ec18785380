----------------------------- MODULE MCReleaseRun -----------------------------
(* Instances of ReleaseRun for TLC: three cases, the first with three queries,*)
(* the first two in one shard.                                                *)
EXTENDS ReleaseRun

MCLastQuery == [c \in 0..3 |-> IF c = 0 THEN 0 ELSE c + 2]
MCShardOf == <<1, 1, 2>>

\* the whole split, as when neither case_ids nor domains is given
FullScope == {{1, 2, 3}}
\* the whole split or a selection from it
AnyScope == {{1, 2, 3}, {2}}
=============================================================================
