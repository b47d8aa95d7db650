--------------------------- MODULE MCPlantGroups ---------------------------
(***************************************************************************)
(* The instance of PlantGroups that TLC checks.  Groups, plants and slots  *)
(* are interchangeable: no action or property names one of them.           *)
(***************************************************************************)
EXTENDS PlantGroups, TLC

Interchangeable ==
    Permutations(Groups) \cup Permutations(Plants) \cup Permutations(Requests)
=============================================================================
