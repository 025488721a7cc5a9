-------------------------- MODULE MCRankSettlement --------------------------
(* Small instances of RankSettlement for TLC. *)
EXTENDS RankSettlement, TLC

CONSTANTS m1, m2, u1, u2, u3

Team(a, b) == [u \in Users |-> CASE u = a -> 0 [] u = b -> 1 [] OTHER -> NoTeam]

\* Two matches that share the player u2.
SharedPlayer == (m1 :> Team(u1, u2)) @@ (m2 :> Team(u2, u3))

\* A single match.
OneMatch == m1 :> Team(u1, u2)

\* The first match is submitted twice, the second once.
TwiceAndOnce == (m1 :> 2) @@ (m2 :> 1)

Once == m1 :> 1

=============================================================================
