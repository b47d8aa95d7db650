--------------------------- MODULE MCPlantClaims ---------------------------
(***************************************************************************)
(* The instance of PlantClaims that TLC checks.  Devices, plants,          *)
(* facilities and slots are interchangeable; users are not, one of them is *)
(* external.                                                               *)
(***************************************************************************)
EXTENDS PlantClaims, TLC

Interchangeable ==
    Permutations(Devices) \cup Permutations(Plants)
        \cup Permutations(Facilities) \cup Permutations(Requests)
=============================================================================
