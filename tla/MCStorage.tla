----------------------------- MODULE MCStorage ------------------------------
(* Instances of Storage for TLC.                                           *)
EXTENDS Storage

OneHash  == [j \in Jobs |-> CHOOSE h \in Hashes : TRUE]
OneStuck == {CHOOSE j \in Jobs : TRUE}
=============================================================================
