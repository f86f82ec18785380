---------------------------- MODULE MCResumableRun ----------------------------
(* The instance of MCReleaseRun for runs that are always resumed.             *)
EXTENDS ResumableRun

MCLastQuery == [c \in 0..3 |-> IF c = 0 THEN 0 ELSE c + 2]
MCShardOf == <<1, 1, 2>>
FullScope == {{1, 2, 3}}

ASSUME ResumableInstance == Resumable
=============================================================================
