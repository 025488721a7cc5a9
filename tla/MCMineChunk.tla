---------------------------- MODULE MCMineChunk ----------------------------
(* Small instances of MineChunk for TLC. *)
EXTENDS MineChunk

CONSTANTS c1, c2, a, b, m, u1, u2

\* Two chunks.  c1 is a row of a zero cell a, a numbered cell b and a mine m;
\* c2 is never played, but is listed with c1.
RowMines     == [c \in {c1, c2} |-> IF c = c1 THEN {m} ELSE {}]
RowZeros     == [c \in {c1, c2} |-> IF c = c1 THEN {a} ELSE {a, b, m}]
RowNeighbors == [x \in {a, b, m} |-> CASE x = a -> {b} [] x = b -> {a, m} [] x = m -> {b}]
RowVersions  == [c \in {c1, c2} |-> IF c = c1 THEN 3 ELSE 0]

\* A row of a mine m between two numbered cells, which are opened one by one.
SplitZeros     == [c \in {c1, c2} |-> IF c = c1 THEN {} ELSE {a, b, m}]
SplitNeighbors == [x \in {a, b, m} |-> IF x = m THEN {a, b} ELSE {m}]
SplitVersions  == [c \in {c1, c2} |-> IF c = c1 THEN 4 ELSE 0]

=============================================================================
