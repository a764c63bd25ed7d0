------------------------ MODULE MCMachineController ------------------------
(***************************************************************************)
(* Values for the constants of MachineController that a configuration      *)
(* cannot write down, and the symmetries TLC may use.                      *)
(***************************************************************************)
EXTENDS ClaimsRefinement, TLC

\* No Machine names its host, or all of them name the same one.
Untargeted == [m \in Machines |-> None]
SameTarget == [m \in Machines |-> CHOOSE h \in Hosts : TRUE]

AllValid   == [m \in Machines |-> "valid"]
AllInvalid == [m \in Machines |-> "invalid"]
AllMissing == [m \in Machines |-> "missing"]

\* What an older release accepted is refused today.
LegacyInvalid == [m \in Machines |-> IF m \in Legacy THEN "invalid" ELSE "valid"]

\* Ids, processes and hosts nobody names are interchangeable in safety runs.
Interchangeable == Permutations(Instances) \cup Permutations(Managers)
UntargetedInterchangeable == Interchangeable \cup Permutations(Hosts)

============================================================================
