------------------------------ MODULE MCMapHub ------------------------------
(* Small instances of MapHub for TLC. *)
EXTENDS MapHub, TLC

CONSTANTS p1, p2, c1, c2

=============================================================================
