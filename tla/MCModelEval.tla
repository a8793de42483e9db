----------------------------- MODULE MCModelEval -----------------------------
(* Model checking of ModelEval: the instance is given by the .cfg file.    *)
EXTENDS ModelEval
=============================================================================
