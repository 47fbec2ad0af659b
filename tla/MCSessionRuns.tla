---------------------------- MODULE MCSessionRuns ----------------------------
(***************************************************************************)
(* SessionRuns on small sets of processes, runs and schedules.             *)
(***************************************************************************)
EXTENDS SessionRuns, TLC

Overlap == [hazards |-> {"remote", "unwinding", "archive", "unchecked"}, limit |-> 3]

AllSchedules == {Overlap, [hazards |-> {}, limit |-> 3], [hazards |-> {"race"}, limit |-> 3],
                 [hazards |-> HazardKinds \ {"race"}, limit |-> 2]}

OverlapOfTwo == {[Overlap EXCEPT !.limit = 2]}

ArchiveActive == {[hazards |-> {"archive"}, limit |-> 2]}

Symmetry == Permutations(Procs) \cup Permutations(Runs)
=============================================================================
