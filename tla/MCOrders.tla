------------------------------ MODULE MCOrders ------------------------------
(* Small instances of Orders for TLC.                                      *)
EXTENDS Orders, TLC

(* Identities are interchangeable: no property names one.                  *)
Symmetry == Permutations(Ids) \cup Permutations(Commands) \cup Permutations(Keys)

(* One order per slot, or no limit.                                        *)
TightCaps == {1, NoCap}

(* Wall times, instants and zones are 0 .. n - 1; each zone is one pickup  *)
(* interval ahead of the one before.                                       *)
Shifted == [zone \in Zones |-> [wall \in Walls |-> (wall + zone) % Cardinality(Slots)]]

(* A restaurant open for business, with and without a cap of one.          *)
OpenForBusiness ==
    /\ shop.entitled /\ shop.pickup /\ shop.asap /\ ~shop.paused
    /\ shop.zone = 0 /\ shop.hours = Walls

MCInit == Init /\ OpenForBusiness

MCSpec == MCInit /\ [][Next]_vars
MCFairSpec == MCSpec /\ Fairness
=============================================================================
