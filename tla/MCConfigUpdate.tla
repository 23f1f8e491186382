--------------------------- MODULE MCConfigUpdate ---------------------------
(* Instances of ConfigUpdate for TLC. *)
EXTENDS ConfigUpdate

Both == {TRUE, FALSE}
=============================================================================
