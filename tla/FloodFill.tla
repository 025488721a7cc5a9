----------------------------- MODULE FloodFill -----------------------------
(***************************************************************************)
(* The loop of openZeroArea (internal/service/chunk_service.go) with the   *)
(* mines around a cell as internal/model/mine.go and mine_state.go count   *)
(* them, across the borders of the chunk and of the world.                 *)
(*                                                                         *)
(* The loop takes cells from a queue and opens them breadth first, from a  *)
(* hidden cell without mines around it.  MineChunk uses its result as the  *)
(* least set closed under opening the neighbours of such cells; FloodExact *)
(* shows that this is what the loop computes, on every board given.        *)
(***************************************************************************)
EXTENDS Integers, Sequences, FiniteSets

CONSTANTS
    ChunkSize,      \* cells of a chunk in a row (128 in the program)
    WorldGrid,      \* chunks of the world in a row
    FloodBoards     \* where to start: records of chunk, mines, flagged, before, start

ASSUME SizeAssumption == ChunkSize \in Nat \ {0} /\ WorldGrid \in Nat \ {0}

VARIABLES
    chunk,          \* the coordinates of the chunk
    mines,          \* the mines of the world, in coordinates of the world
    flagged,        \* state.FlaggedBy, in coordinates of the chunk, as all that follow
    before,         \* state.OpenedCells before the call
    start,          \* the cell that was clicked
    fresh,          \* what the call opened so far
    queue, visited  \* of the loop

boardVars == <<chunk, mines, flagged, before, start>>
floodVars == <<boardVars, fresh, queue, visited>>

-----------------------------------------------------------------------------
(* Cells *)

Local == 0 .. ChunkSize - 1
ChunkCells == Local \X Local
World == 0 .. ChunkSize * WorldGrid - 1

Offsets == {d \in (-1 .. 1) \X (-1 .. 1) : d # <<0, 0>>}
Neighbours(c) == {<<c[1] + d[1], c[2] + d[2]>> : d \in Offsets}

\* Fault: coordinates outside the chunk are taken modulo its size.
WorldCellWrapped(c) ==
    <<chunk[1] * ChunkSize + (c[1] % ChunkSize), chunk[2] * ChunkSize + (c[2] % ChunkSize)>>

\* NormalizeChunkCell: a cell of this chunk, or one beyond its border, in
\* coordinates of the world.
WorldCell(c) == <<chunk[1] * ChunkSize + c[1], chunk[2] * ChunkSize + c[2]>>

\* IsMine; outside the world there is none (ErrChunkCellOutOfWorld).
IsMine(c) == WorldCell(c) \in (World \X World) /\ WorldCell(c) \in mines

AdjacentMineCount(c) == Cardinality({n \in Neighbours(c) : IsMine(n)})

\* The neighbours in the order in which the loop appends them.
Around(c) ==
    [i \in 1 .. 8 |-> LET k == IF i <= 4 THEN i - 1 ELSE i
                      IN <<c[1] + (k % 3) - 1, c[2] + (k \div 3) - 1>>]

\* The boards lie in the world, and the cells are of the chunk.
ASSUME FloodAssumption ==
    \A b \in FloodBoards :
        /\ b.chunk \in (0 .. WorldGrid - 1) \X (0 .. WorldGrid - 1)
        /\ b.mines \subseteq World \X World
        /\ b.flagged \subseteq ChunkCells /\ b.before \subseteq ChunkCells /\ b.start \in ChunkCells

\* The shape of every variable.
FloodTypeOK ==
    /\ chunk \in (0 .. WorldGrid - 1) \X (0 .. WorldGrid - 1)
    /\ mines \subseteq World \X World
    /\ flagged \subseteq ChunkCells /\ before \subseteq ChunkCells /\ start \in ChunkCells
    /\ fresh \subseteq ChunkCells /\ visited \subseteq ChunkCells
    /\ \A i \in DOMAIN queue : queue[i] \in ChunkCells \union UNION {Neighbours(c) : c \in ChunkCells}

-----------------------------------------------------------------------------
(* The loop *)

\* openCellInWorker calls it for a hidden cell, neither flagged nor a mine, that
\* has no mine around it.
FloodInit ==
    /\ \E b \in FloodBoards :
        /\ chunk = b.chunk /\ mines = b.mines /\ flagged = b.flagged
        /\ before = b.before /\ start = b.start
    /\ start \notin flagged \union before
    /\ ~IsMine(start) /\ AdjacentMineCount(start) = 0
    /\ \A c \in before : ~IsMine(c) /\ c \notin flagged
    /\ fresh = {}
    /\ queue = <<start>>
    /\ visited = {}

\* A cell beyond the border, or one seen before.
SkipCell(c) ==
    /\ c \notin ChunkCells \/ c \in visited
    /\ queue' = Tail(queue)
    /\ UNCHANGED <<fresh, visited>>

Seen(c) == c \in ChunkCells \ visited /\ visited' = visited \union {c}

Hidden(c) == c \notin flagged \union before \union fresh /\ ~IsMine(c)

\* A flagged cell, an opened one or a mine stays as it is.
LeaveCell(c) ==
    /\ Seen(c) /\ ~Hidden(c)
    /\ queue' = Tail(queue)
    /\ UNCHANGED fresh

\* openCellInState of a cell with mines around it.
OpenNumber(c) ==
    /\ Seen(c) /\ Hidden(c)
    /\ AdjacentMineCount(c) # 0
    /\ fresh' = fresh \union {c}
    /\ queue' = Tail(queue)

\* Fault: the four cells at the corners are forgotten.
OpenZeroByEdges(c) ==
    /\ Seen(c) /\ Hidden(c)
    /\ AdjacentMineCount(c) = 0
    /\ fresh' = fresh \union {c}
    /\ queue' = Tail(queue) \o SelectSeq(Around(c), LAMBDA n : n[1] = c[1] \/ n[2] = c[2])

\* openCellInState of a cell without; its neighbours are next.
OpenZero(c) ==
    /\ Seen(c) /\ Hidden(c)
    /\ AdjacentMineCount(c) = 0
    /\ fresh' = fresh \union {c}
    /\ queue' = Tail(queue) \o Around(c)

FloodNext ==
    /\ queue # <<>>
    /\ \/ SkipCell(Head(queue))
       \/ LeaveCell(Head(queue))
       \/ OpenNumber(Head(queue))
       \/ OpenZero(Head(queue))
    /\ UNCHANGED boardVars

-----------------------------------------------------------------------------
(* Properties *)

\* The cells that an open may reveal, and those without a mine around them, seen
\* from the world: a mine at (i, j) is near a cell of the chunk if neither
\* coordinate is more than one off.
Revealable == {c \in ChunkCells \ (flagged \union before) : ~IsMine(c)}
Near(c, m) == \A i \in 1 .. 2 : m[i] - chunk[i] * ChunkSize - c[i] \in -1 .. 1
Clear(c)   == \A m \in mines : ~Near(c, m)

\* X holds what is to be opened around its clear cells.
Closed(X) == \A c \in X : Clear(c) => Neighbours(c) \intersect Revealable \subseteq X

\* When the loop ends it has opened the least closed set that holds the start,
\* each number by the mines of its own and of the neighbouring chunks: no cell too
\* few at borders and corners, none behind a flag, a number or a cell opened
\* before (chunk_service.go 412-473, mine.go 36-77).
FloodExact ==
    queue = <<>> =>
        /\ start \in fresh /\ fresh \subseteq Revealable /\ Closed(fresh)
        /\ \A X \in SUBSET fresh : start \in X /\ Closed(X) => X = fresh

=============================================================================
