------------------------- MODULE MCCheckpointEval -------------------------
(* Small instances of CheckpointEval.                                      *)
EXTENDS CheckpointEval

Config(schedule, ersr, initial, other) ==
    [schedule |-> schedule, ersr |-> ersr, initial |-> initial, other |-> other]

\* The default schedule with everything on and with nothing on, and the others.
AllConfigs ==
    {Config("per_checkpoint", TRUE, TRUE, "a"), Config("per_checkpoint", FALSE, FALSE, "b"),
     Config("shared_teacher", TRUE, TRUE, "a"), Config("single_run", FALSE, FALSE, "a")}
OneConfig == {Config("per_checkpoint", TRUE, FALSE, "a")}
=============================================================================
