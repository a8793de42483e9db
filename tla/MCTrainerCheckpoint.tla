------------------------ MODULE MCTrainerCheckpoint ------------------------
(* Instances of TrainerCheckpoint for TLC; the values are in the .cfg      *)
(* files.                                                                  *)
EXTENDS TrainerCheckpoint
=============================================================================
