--------------------------- MODULE MCHelperControl ---------------------------
(* Small instances of the Helper's process control for TLC. *)
EXTENDS HelperControlProps
=============================================================================
