---------------------------- MODULE MCAlgorithms ----------------------------
(***************************************************************************)
(* FloodFill, WinnerLoop and ChunkMap share no state; a behaviour of this  *)
(* module runs one of them, on every small input listed here.              *)
(***************************************************************************)
EXTENDS FloodFill, WinnerLoop, ChunkMap

VARIABLE algorithm

vars == <<algorithm, floodVars, winnerVars, mapVars>>

-----------------------------------------------------------------------------
(* Inputs *)

\* The cells of a chunk and those that its border cells count as neighbours.
CellsNear(k) == {c \in World \X World : \A i \in 1 .. 2 :
              c[i] \in k[i] * ChunkSize - 1 .. (k[i] + 1) * ChunkSize}

Few(S, n) == UNION {kSubset(i, S) : i \in 0 .. n}

BoardsOf(k, ms, fs, bs) ==
    [chunk : {k}, mines : Few(CellsNear(k), ms), flagged : Few(ChunkCells, fs),
     before : Few(ChunkCells, bs), start : ChunkCells]

\* In a corner of the world: two mines, or one and a cell flagged or opened before.
MCBoards == LET k == <<0, 0>>
            IN BoardsOf(k, 2, 0, 0) \union BoardsOf(k, 1, 1, 0) \union BoardsOf(k, 1, 0, 1)

\* Three teams, one of two users.
MCMembers == <<{"ann", "bob"}, {"cyd"}, {"dan"}>>
MCScores  == {[score |-> 0, last |-> 0]} \union [score : 1 .. 2, last : 1 .. 2]

\* Every pair of bounds on one axis, and a range on the other that touches three
\* rows of leaves, the last by less than the tolerance.
MCBoxes == {b \in [minX : 0 .. Unit, maxX : 0 .. Unit, minY : {3}, maxY : {9}] : b.minX < b.maxX}
\* The leaves of one chunk of the level above: it may close as a whole.
MCClosable == {[z |-> MaxLevel, x |-> i, y |-> j] : i \in 2 .. 3, j \in 0 .. 1}
MCPlayed   == {[z |-> MaxLevel, x |-> i, y |-> 0] : i \in 2 .. 3}

-----------------------------------------------------------------------------
FloodIdle ==
    /\ chunk = <<0, 0>> /\ mines = {} /\ flagged = {} /\ before = {} /\ start = <<0, 0>>
    /\ fresh = {} /\ visited = {} /\ queue = <<start>>

WinnerIdle ==
    /\ player = [u \in Listed |-> [score |-> 0, last |-> 0]]
    /\ unseen = Teams
    /\ winner = 0 /\ winnerScore = 0 /\ winnerLast = 0

MapIdle == MapInit /\ closed = {}

Init ==
    \/ algorithm = "flood"  /\ FloodInit  /\ WinnerIdle /\ MapIdle
    \/ algorithm = "winner" /\ WinnerInit /\ FloodIdle  /\ MapIdle
    \/ algorithm = "map"    /\ MapInit    /\ FloodIdle  /\ WinnerIdle

Next ==
    /\ UNCHANGED algorithm
    /\ \/ algorithm = "flood"  /\ FloodNext  /\ UNCHANGED <<winnerVars, mapVars>>
       \/ algorithm = "winner" /\ WinnerNext /\ UNCHANGED <<floodVars, mapVars>>
       \/ algorithm = "map"    /\ MapNext    /\ UNCHANGED <<floodVars, winnerVars>>

Spec == Init /\ [][Next]_vars

=============================================================================
