----------------------------- MODULE EffectsOnce -----------------------------
(***************************************************************************)
(* What the ledger of periodic jobs promises about each effect (contract/  *)
(* jobs/contract.hpp, WorkItem and PeriodicJob::Perform): it is taken by   *)
(* at most one process, then performed once or lost with its taker, and    *)
(* never taken again.                                                      *)
(***************************************************************************)
CONSTANT Items
VARIABLE effect

Init == effect = [i \in Items |-> "open"]

Move(i, from, to) ==
    /\ effect[i] = from
    /\ effect' = [effect EXCEPT ![i] = to]

Take(i) == Move(i, "open", "taken")
Do(i)   == Move(i, "taken", "done")
Lose(i) == Move(i, "taken", "lost")

Next == \E i \in Items : Take(i) \/ Do(i) \/ Lose(i)

Spec == Init /\ [][Next]_effect
=============================================================================
