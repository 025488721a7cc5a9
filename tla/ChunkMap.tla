------------------------------ MODULE ChunkMap ------------------------------
(***************************************************************************)
(* The map that ListChunks and GetChunkSummary draw (internal/service/     *)
(* chunk_service.go, internal/model/chunk.go): which chunks of a level a   *)
(* box shows, and what the closed leaves below a chunk make of it.         *)
(*                                                                         *)
(* The levels halve the unit square; the leaves, on the last level, are    *)
(* the chunks that are played.  A coordinate n stands for n / Unit.  The   *)
(* call loads the states of the leaves one by one, and then the set of     *)
(* closed leaves, while leaves are closed and reopened.                    *)
(***************************************************************************)
EXTENDS Integers, Sequences, FiniteSets, FiniteSetsExt

CONSTANTS
    MaxLevel,       \* the level of the leaves (6 in the program)
    Unit,           \* of coordinates
    Epsilon,        \* what VisibleChunkRange takes off the upper bounds
    Boxes,          \* the boxes asked for: records of minX, minY, maxX, maxY
    Closable,       \* the leaves that are closed and reopened
    Played          \* the leaves with opened cells

\* 1 << n
Shifted[n \in 0 .. MaxLevel] == IF n = 0 THEN 1 ELSE 2 * Shifted[n - 1]

GridSize(z) == Shifted[z]
Width(z)    == Unit \div GridSize(z)
Chunks(z)   == {[z |-> z, x |-> i, y |-> j] : i, j \in 0 .. GridSize(z) - 1}
Leaves      == Chunks(MaxLevel)

\* Every leaf is wider than the tolerance, and bounds are whole units.
ASSUME LevelAssumption ==
    /\ MaxLevel \in Nat /\ Unit \in Nat /\ Epsilon \in Nat \ {0}
    /\ Unit % GridSize(MaxLevel) = 0 /\ Epsilon < Width(MaxLevel)
ASSUME LeafAssumption == Closable \subseteq Leaves /\ Played \subseteq Leaves
\* What VisibleChunkRange accepts.
ASSUME BoxAssumption ==
    \A b \in Boxes : /\ {b.minX, b.maxX, b.minY, b.maxY} \subseteq 0 .. Unit
                     /\ b.minX < b.maxX /\ b.minY < b.maxY

VARIABLES
    closed,         \* the leaves whose state is closed: also the closed set
    phase,          \* of the call: "idle", "loading" (or listing), "answered"
    level, box,     \* what it was asked; a box may be NoBox
    shown,          \* the chunks it is about, in the order of its loops
    unread,         \* those whose state is not loaded yet
    found,          \* those whose loaded state was closed
    always, ever,   \* history: leaves closed all through the call, and at some time
    answer          \* the summary of each chunk shown

callVars == <<phase, level, box, shown, unread, found, answer>>
mapVars  == <<closed, always, ever, callVars>>

NoBox == [minX |-> 0, minY |-> 0, maxX |-> 0, maxY |-> 0]

-----------------------------------------------------------------------------
(* Chunks of a box: VisibleChunkRange *)

Clamp(v, z) == IF v < 0 THEN 0 ELSE IF v >= GridSize(z) THEN GridSize(z) - 1 ELSE v

\* Fault: a chunk that the box only touches is visible.
LastTouched(n, z) == Clamp((n * GridSize(z)) \div Unit, z)

FirstVisible(n, z) == Clamp((n * GridSize(z)) \div Unit, z)
LastVisible(n, z)  == Clamp(((n - Epsilon) * GridSize(z)) \div Unit, z)

\* The chunks in the order of ListChunks: row by row.
VisibleChunks(z, b) ==
    LET x0 == FirstVisible(b.minX, z)
        y0 == FirstVisible(b.minY, z)
        columns == LastVisible(b.maxX, z) - x0 + 1
        rows    == LastVisible(b.maxY, z) - y0 + 1
    IN [i \in 1 .. columns * rows |->
            [z |-> z, x |-> x0 + ((i - 1) % columns), y |-> y0 + ((i - 1) \div columns)]]

-----------------------------------------------------------------------------
(* Summaries *)

Scale(z)          == Shifted[MaxLevel - z]
TotalLeafCount(z) == Scale(z) * Scale(z)

\* Fault: the range of leaves includes its upper ends.
CountWithEnds(c, S) ==
    Cardinality({l \in S : /\ l.x \in c.x * Scale(c.z) .. (c.x + 1) * Scale(c.z)
                           /\ l.y \in c.y * Scale(c.z) .. (c.y + 1) * Scale(c.z)})

\* countClosedLeaves, with leafRangeForChunk.
CountClosedLeaves(c, S) ==
    Cardinality({l \in S : /\ l.x \in c.x * Scale(c.z) .. (c.x + 1) * Scale(c.z) - 1
                           /\ l.y \in c.y * Scale(c.z) .. (c.y + 1) * Scale(c.z) - 1})

State(c, count) ==
    CASE count = TotalLeafCount(c.z)         -> "closed"
      [] count \in 1 .. TotalLeafCount(c.z) - 1 -> "closing"
      [] count = 0 /\ c \in Played           -> "opening"
      [] OTHER                               -> "normal"

\* Fault: one closed leaf closes a chunk of any level.
SummaryOfAny(c, S) ==
    LET count == CountClosedLeaves(c, S) IN
    [count |-> count, state |-> State(c, count), closed |-> c \in found \/ count = 1]

\* applyMineStateToSummary of the loaded state, for a leaf, and then
\* applyClosedLeafAggregate of the set of closed leaves.
Summary(c, S) ==
    LET count == CountClosedLeaves(c, S) IN
    [count  |-> count,
     state  |-> State(c, count),
     closed |-> c \in found \/ (c.z = MaxLevel /\ count = 1)]

\* The shape of every variable.
MapTypeOK ==
    /\ closed \subseteq Closable /\ always \subseteq closed /\ ever \subseteq Closable
    /\ phase \in {"idle", "loading", "answered"}
    /\ level \in 0 .. MaxLevel
    /\ box \in Boxes \union {NoBox}
    /\ \A i \in DOMAIN shown : shown[i] \in Chunks(level)
    /\ \A i \in DOMAIN unread : unread[i] \in Leaves
    /\ found \subseteq Leaves
    /\ \A c \in DOMAIN answer :
        /\ answer[c].count \in 0 .. TotalLeafCount(level)
        /\ answer[c].state \in {"closed", "closing", "opening", "normal"}
        /\ answer[c].closed \in BOOLEAN

-----------------------------------------------------------------------------
(* The call *)

MapInit ==
    /\ closed \in SUBSET Closable
    /\ always = {} /\ ever = {}
    /\ phase = "idle"
    /\ level = 0 /\ box = NoBox
    /\ shown = <<>> /\ unread = <<>> /\ found = {}
    /\ answer = <<>>

Start(z, chunks) ==
    /\ phase = "idle"
    /\ phase' = "loading"
    /\ level' = z
    /\ shown' = chunks
    /\ unread' = IF z = MaxLevel THEN chunks ELSE <<>>
    /\ always' = closed /\ ever' = closed
    /\ UNCHANGED <<closed, found, answer>>

\* ListChunks of a box.
StartList(z, b) == Start(z, VisibleChunks(z, b)) /\ box' = b

\* GetChunkSummary of one chunk.
StartSummary(c) == Start(c.z, <<c>>) /\ box' = NoBox

\* loadChunkState of the next leaf; a lapsed closure is lifted first
\* (LiftLeaf).
LoadLeaf ==
    /\ phase = "loading" /\ unread # <<>>
    /\ unread' = Tail(unread)
    /\ found' = IF Head(unread) \in closed THEN found \union {Head(unread)} ELSE found
    /\ UNCHANGED <<closed, always, ever, phase, level, box, shown, answer>>

\* ListClosedLeafChunkIDs, and the summaries.
Finish ==
    /\ phase = "loading" /\ unread = <<>>
    /\ phase' = "answered"
    /\ answer' = [c \in {shown[i] : i \in DOMAIN shown} |-> Summary(c, closed)]
    /\ UNCHANGED <<closed, always, ever, level, box, shown, unread, found>>

\* A player hits a mine (the worker saves the state and the set together).
\* Bound: a behaviour ends with the answer.
CloseLeaf(l) ==
    /\ phase # "answered" /\ l \notin closed
    /\ closed' = closed \union {l}
    /\ ever' = IF phase = "loading" THEN ever \union {l} ELSE ever
    /\ UNCHANGED <<always, callVars>>

\* A lapsed closure is lifted, by this reader or by somebody else.
LiftLeaf(l) ==
    /\ phase # "answered" /\ l \in closed
    /\ closed' = closed \ {l}
    /\ always' = always \ {l}
    /\ UNCHANGED <<ever, callVars>>

MapNext ==
    \/ \E z \in 0 .. MaxLevel, b \in Boxes : StartList(z, b)
    \/ \E z \in 0 .. MaxLevel : \E c \in Chunks(z) : StartSummary(c)
    \/ LoadLeaf \/ Finish
    \/ \E l \in Closable : CloseLeaf(l) \/ LiftLeaf(l)

-----------------------------------------------------------------------------
(* Properties *)

\* How far the box and the chunk overlap on an axis, negative if they do not.
OverlapX(c) == Min({box.maxX, (c.x + 1) * Width(c.z)}) - Max({box.minX, c.x * Width(c.z)})
OverlapY(c) == Min({box.maxY, (c.y + 1) * Width(c.z)}) - Max({box.minY, c.y * Width(c.z)})

\* A listing holds every chunk that the box overlaps by more than the tolerance
\* and none that it does not overlap, at borders and corners too: floor, the
\* tolerance and the clamp work together (model/chunk.go 86-106).
VisibleExact ==
    phase # "idle" /\ box # NoBox =>
        \A c \in Chunks(level) :
            /\ OverlapX(c) > Epsilon /\ OverlapY(c) > Epsilon => \E i \in DOMAIN shown : shown[i] = c
            /\ (\E i \in DOMAIN shown : shown[i] = c) => OverlapX(c) > 0 /\ OverlapY(c) > 0

\* The part of the unit square that ChunkBoundsFor gives a leaf lies in that of
\* a chunk.
Within(l, c) ==
    /\ c.x * Width(c.z) <= l.x * Width(l.z) /\ (l.x + 1) * Width(l.z) <= (c.x + 1) * Width(c.z)
    /\ c.y * Width(c.z) <= l.y * Width(l.z) /\ (l.y + 1) * Width(l.z) <= (c.y + 1) * Width(c.z)

\* A chunk counts exactly the closed leaves in its bounds, and is shown closed
\* exactly if all leaves in its bounds are: the leaf ranges of the aggregates
\* agree with the bounds that the map draws (chunk_service.go 782-833).
CountsExact ==
    \A c \in DOMAIN answer :
        /\ answer[c].count = Cardinality({l \in closed : Within(l, c)})
        /\ answer[c].state = "closed" <=> \A l \in Leaves : Within(l, c) => l \in closed

\* Leaf states and closed set are read at different moments, yet no summary says
\* what never was: a chunk marked closed had all its leaves closed at some time
\* of the call, and a leaf closed all the time is shown so in both ways
\* (chunk_service.go 111-143, 193-262).  In between, mark and state may differ.
SummaryHonest ==
    \A c \in DOMAIN answer :
        /\ answer[c].closed => \A l \in Leaves : Within(l, c) => l \in ever
        /\ c \in always => answer[c].closed /\ answer[c].state = "closed"

=============================================================================
