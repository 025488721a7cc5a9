------------------------------ MODULE MCRooms ------------------------------
(* Small instances of Rooms for TLC: one player connects twice. *)
EXTENDS Rooms, TLC

CONSTANTS ann, bob, k1, k2

MCOwner == k1 :> ann @@ k2 :> ann

=============================================================================
