----------------------------- MODULE MCMapView -----------------------------
(* Small instances of MapView for TLC. *)
EXTENDS MapView, TLC

CONSTANTS a, b, first, second

\* Cells differ in nothing else.
Symmetry == Permutations({a, b})

\* Bound: while a reader holds a closed board, and once it has stored an old one,
\* less is on its way to the page; only then is there a last version, the first at
\* which the reader's board is old enough to close a cell.
FewMessages ==
    LET Read == copies # {} \/ raced IN
    /\ Read => Cardinality(late) <= 1 /\ \A f \in Fetches \ {First} : fetch[f] = None
    /\ board.version = MaxVersion => Read

=============================================================================
