---------------------------- MODULE MCRunRecords ----------------------------
(***************************************************************************)
(* Instances of RunRecords for TLC.                                        *)
(***************************************************************************)
EXTENDS RunRecords, TLC

Plain == [elsewhere |-> FALSE, fails |-> FALSE, crash |-> FALSE, api |-> FALSE,
          files |-> FALSE, limit |-> 3]

Two == [Plain EXCEPT !.api = TRUE, !.limit = 2]

SomeConfs == {Plain, [Two EXCEPT !.elsewhere = TRUE, !.files = TRUE],
              [Two EXCEPT !.fails = TRUE], [Two EXCEPT !.crash = TRUE],
              [Plain EXCEPT !.files = TRUE, !.limit = 1]}

Symmetry == Permutations(Runs)
=============================================================================
