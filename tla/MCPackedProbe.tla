--------------------------- MODULE MCPackedProbe ---------------------------
(* A small instance of PackedProbe.                                        *)
EXTENDS PackedProbe
=============================================================================
