--------------------------- MODULE MCPeriodicJobs ---------------------------
(***************************************************************************)
(* Small instances of PeriodicJobs.                                        *)
(***************************************************************************)
EXTENDS PeriodicJobs, TLC

CONSTANTS w1, w2, i1, i2

Settings(lock, period, attempt, silence, on) ==
    [lock |-> lock, period |-> period, attempt |-> attempt,
     silence |-> silence, enabled |-> on]

MCDue == [i \in Items |-> IF i = i1 THEN 0 ELSE 1]

MCSteady == {Settings("main", 1, 1, 1, TRUE)}

\* The lock is renamed under running processes.
MCRenamed == MCSteady \cup {Settings("other", 1, 1, 1, TRUE)}

Processes == Permutations(Workers)
=============================================================================
