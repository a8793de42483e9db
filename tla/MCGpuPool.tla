----------------------------- MODULE MCGpuPool -----------------------------
(* Model checking of GpuPool: every instance is given by the cfg files.    *)
EXTENDS GpuPool
=============================================================================
