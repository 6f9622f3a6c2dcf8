---------------------------- MODULE MCConfigStore ----------------------------
(* ConfigStore with the PUT /settings bodies the runs enumerate.           *)
EXTENDS ConfigStore, TLC

(* Bodies that name Wi-Fi alone, Wi-Fi and behavior, and a whole backup.   *)
SomePuts ==
    {[b \in {"wifi"} |-> 1], [b \in {"wifi", "behavior"} |-> 0], [b \in Blocks |-> 1]}

WorkerSymmetry == Permutations(Workers)
=============================================================================
