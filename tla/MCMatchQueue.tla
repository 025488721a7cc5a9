---------------------------- MODULE MCMatchQueue ----------------------------
(* Small instances of MatchQueue for TLC. *)
EXTENDS MatchQueue, TLC

CONSTANTS u1, u2, u3, u4, duel, quad, unknown

\* A mode of two players with a chunk, one of three without, and one that the
\* program does not know.
Counts == [mo \in Modes |-> CASE mo = duel -> 2 [] mo = quad -> 3 [] OTHER -> 0]

=============================================================================
