---------------------------- MODULE MCMineMatch ----------------------------
(* Small instances of MineMatch for TLC. *)
EXTENDS MineMatch, TLC

CONSTANTS m1, m2, c1, c2, x, y, k, u1, u2, u3, u4, r1

Team(a, b) == [u \in Users |-> CASE u = a -> 0 [] u = b -> 1 [] OTHER -> NoTeam]

\* Two matches of different players.
TwoPairs == (m1 :> Team(u1, u2)) @@ (m2 :> Team(u3, u4))

\* Two safe cells and a mine in every chunk.
MineK == [c \in Chunks |-> {k}]

\* The safe cells are alike, and so are the two pairs with their matches.
PairSwap == (u1 :> u3) @@ (u3 :> u1) @@ (u2 :> u4) @@ (u4 :> u2) @@ (m1 :> m2) @@ (m2 :> m1)
CellSymmetry == Permutations({x, y})
Symmetry == CellSymmetry \union {PairSwap}

\* Bound: in one behaviour both matches are assigned, or a reader is at work, or a
\* result is posted, and not two of these.
Both     == \A m \in Matches : apc[m] # "none"
Reading  == (\E r \in Readers : copy[r] # NoCopy) \/ (\E c \in Chunks : raced[c] # 0)
Posting  == \E m \in Matches : posted[m] # 0
OneThing == ~(Both /\ Reading) /\ ~(Both /\ Posting) /\ ~(Reading /\ Posting)

=============================================================================
