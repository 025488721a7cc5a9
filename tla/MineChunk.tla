------------------------------ MODULE MineChunk ------------------------------
(***************************************************************************)
(* The stored state of the playable chunks: opening, flagging, closing and *)
(* lazily reopening them (internal/service/chunk_service.go, internal/     *)
(* repository/mine_chunk_state_repository.go).                             *)
(*                                                                         *)
(* An open or flag operation runs inside its chunk's worker, one at a time *)
(* per chunk: that is what ChunkSerial promises and ChunkWorkers delivers. *)
(* It loads the chunk's state from Redis, works on its copy and stores the *)
(* whole copy back.  The read endpoints do the same outside the worker:    *)
(* GetChunkSummary, GetChunkSnapshot and ListChunks load the state and, if *)
(* they find an expired closure, store the reopened copy.                  *)
(*                                                                         *)
(* Time is a count of ticks.  The board is abstracted to the cells of a    *)
(* chunk, which of them are mines, which have no mine around them (counted *)
(* across chunk boundaries), and which touch inside the chunk.             *)
(***************************************************************************)
EXTENDS Naturals, FiniteSets

CONSTANTS
    Chunks, Cells, Users,
    Readers,     \* slots for concurrent read requests
    Mines,       \* the mines of each chunk
    Zeros,       \* the cells of each chunk with no mine around them
    Neighbors,   \* the in-chunk neighbours of a cell
    Closure,     \* how long a closure lasts (five minutes in the program)
    MaxTime,     \* bound on the clock
    MaxVersion,  \* bound on the version of each chunk an operation starts from
    Nobody, NoState, NoOp, NoTime

ASSUME BoardAssumption ==
    /\ Mines \in [Chunks -> SUBSET Cells]
    /\ Zeros \in [Chunks -> SUBSET Cells]
    /\ Neighbors \in [Cells -> SUBSET Cells]
    /\ \A c \in Chunks : \A z \in Zeros[c] : ({z} \union Neighbors[z]) \cap Mines[c] = {}

ASSUME TimeAssumption ==
    /\ Closure \in Nat \ {0}
    /\ MaxTime \in Nat
    /\ Closure <= MaxTime
    /\ MaxVersion \in [Chunks -> Nat]

ASSUME NullAssumption ==
    /\ Nobody \notin Users
    /\ NoTime \notin Nat

VARIABLES
    now,        \* the clock
    store,      \* Redis: the state stored for each chunk
    closedSet,  \* Redis: the set of closed chunks
    wpc, wop, wst,          \* each worker: control, operation, its copy
    rpc, rchunk, rst, rtime,\* each reader: control, chunk, its copy, its clock
    rtodo,                  \* each reader: the chunks left to list
    raced       \* history: the chunks a reader stored a stale copy of

storeVars  == <<store, closedSet>>
workerVars == <<wpc, wop, wst>>
readerVars == <<rpc, rchunk, rst, rtime, rtodo>>
vars == <<now, storeVars, workerVars, readerVars, raced>>

-----------------------------------------------------------------------------
(* Types *)

Times == 0 .. MaxTime

States ==
    [ opened   : [Cells -> Users \union {Nobody}],  \* who opened each cell
      flagged  : SUBSET Cells,
      closed   : BOOLEAN,
      closedBy : Users \union {Nobody},
      until    : Times \union {NoTime},
      version  : Nat ]

ASSUME NoStateAssumption == NoState \notin States

Operations == [kind : {"open", "flag", "unflag"}, user : Users, cell : Cells]

\* The shape of every variable.
TypeOK ==
    /\ now \in Times
    /\ store \in [Chunks -> States \union {NoState}]
    /\ closedSet \subseteq Chunks
    /\ wpc \in [Chunks -> {"idle", "loaded", "ready"}]
    /\ wop \in [Chunks -> Operations \union {NoOp}]
    /\ wst \in [Chunks -> States \union {NoState}]
    /\ rpc \in [Readers -> {"idle", "listing", "loaded"}]
    /\ rchunk \in [Readers -> Chunks]
    /\ rst \in [Readers -> States \union {NoState}]
    /\ rtime \in [Readers -> Times \union {NoTime}]
    /\ rtodo \in [Readers -> SUBSET Chunks]
    /\ raced \subseteq Chunks

-----------------------------------------------------------------------------
(* Chunk states *)

\* NewMineChunkState
NewState ==
    [ opened   |-> [x \in Cells |-> Nobody],
      flagged  |-> {},
      closed   |-> FALSE,
      closedBy |-> Nobody,
      until    |-> NoTime,
      version  |-> 1 ]

Opened(st) == {x \in Cells : st.opened[x] # Nobody}

\* The closure of st is over at time t: reopenExpiredChunk will lift it.
Expired(st, t) == st # NoState /\ st.closed /\ t >= st.until

\* Fault: reopening gives the players a fresh board.
ReopenedAfresh(st) == [NewState EXCEPT !.version = st.version + 1]

\* What reopenExpiredChunk makes of a state whose closure is over.
Reopened(st) ==
    [st EXCEPT !.closed = FALSE, !.closedBy = Nobody, !.until = NoTime,
               !.version = @ + 1]

\* Fault: the player's first open is not protected.
Unprotected(st, u) == TRUE

\* playerHasOpenedCell
HasOpened(st, u) == \E x \in Cells : st.opened[x] = u

\* Cells openZeroArea may open: not flagged, not opened, not a mine.
Openable(c, st) == Cells \ (st.flagged \union Opened(st) \union Mines[c])

\* A set of cells that the flood does not leave: from every zero cell in it
\* the flood enters the openable neighbours.
Flooded(c, st, S) ==
    \A z \in S \cap Zeros[c] : Neighbors[z] \cap Openable(c, st) \subseteq S

\* openZeroArea from x: the least set of cells the flood does not leave.
ZeroArea(c, st, x) ==
    {y \in Cells : \A S \in SUBSET Cells : x \in S /\ Flooded(c, st, S) => y \in S}

\* The cells that opening the safe, closed cell x opens.
Area(c, st, x) == IF x \in Zeros[c] THEN ZeroArea(c, st, x) ELSE {x}

\* openCellInState for every cell of S.
WithOpened(st, S, u) ==
    [st EXCEPT !.opened = [x \in Cells |-> IF x \in S THEN u ELSE @[x]],
               !.flagged = @ \ S,
               !.version = st.version + 1]

\* The open of mine x by u closes the chunk.
WithClosure(st, u) ==
    [st EXCEPT !.closed = TRUE, !.closedBy = u, !.until = now + Closure,
               !.version = @ + 1]

Init ==
    /\ now = 0
    /\ store = [c \in Chunks |-> NoState]
    /\ closedSet = {}
    /\ wpc = [c \in Chunks |-> "idle"]
    /\ wop = [c \in Chunks |-> NoOp]
    /\ wst = [c \in Chunks |-> NoState]
    /\ rpc = [r \in Readers |-> "idle"]
    /\ rchunk \in [Readers -> Chunks]
    /\ rst = [r \in Readers |-> NoState]
    /\ rtime = [r \in Readers |-> NoTime]
    /\ rtodo = [r \in Readers |-> {}]
    /\ raced = {}

\* Bound: no operation starts, and none runs on, after the horizon, so every
\* closure can expire on the bounded clock.
Horizon == MaxTime - Closure

Tick ==
    /\ now < MaxTime
    /\ now >= Horizon => \A c \in Chunks : wpc[c] = "idle"
    /\ now' = now + 1
    /\ UNCHANGED <<storeVars, workerVars, readerVars, raced>>

-----------------------------------------------------------------------------
(* MineChunkStateRepository *)

\* Fault: a state that is not closed is stored without SRem.
SaveWithoutRemove(c, st) ==
    /\ store' = [store EXCEPT ![c] = st]
    /\ closedSet' = IF st.closed THEN closedSet \union {c} ELSE closedSet

\* SaveState: the state and the closed set change in one transaction.
Save(c, st) ==
    /\ store' = [store EXCEPT ![c] = st]
    /\ closedSet' = IF st.closed THEN closedSet \union {c} ELSE closedSet \ {c}

\* SaveState fails: the transaction was not executed, or it was and the reply
\* was lost.
SaveFails(c, st) == UNCHANGED storeVars \/ Save(c, st)

-----------------------------------------------------------------------------
(* Operations of a chunk's worker: openCellInWorker and flagCellInWorker *)

\* The operation ends, with a response or an error.
EndOperation(c) ==
    /\ wpc' = [wpc EXCEPT ![c] = "idle"]
    /\ wop' = [wop EXCEPT ![c] = NoOp]
    /\ wst' = [wst EXCEPT ![c] = NoState]

\* The version an operation on c would start from.
Version(c) == IF store[c] = NoState THEN 1 ELSE store[c].version

\* loadOrNewChunkState
LoadOperation(c, op) ==
    /\ wpc[c] = "idle"
    /\ now <= Horizon
    /\ Version(c) <= MaxVersion[c]
    /\ wop' = [wop EXCEPT ![c] = op]
    /\ wst' = [wst EXCEPT ![c] = IF store[c] = NoState THEN NewState ELSE store[c]]
    /\ wpc' = [wpc EXCEPT ![c] = "loaded"]
    /\ UNCHANGED <<now, storeVars, readerVars, raced>>

\* reopenExpiredChunk has nothing to do.
NothingToReopen(c) ==
    /\ wpc[c] = "loaded"
    /\ ~Expired(wst[c], now)
    /\ wpc' = [wpc EXCEPT ![c] = "ready"]
    /\ UNCHANGED <<now, storeVars, wop, wst, readerVars, raced>>

\* reopenExpiredChunk lifts the closure and stores the state.
ReopenInWorker(c) ==
    /\ wpc[c] = "loaded"
    /\ Expired(wst[c], now)
    /\ Save(c, Reopened(wst[c]))
    /\ wst' = [wst EXCEPT ![c] = Reopened(@)]
    /\ wpc' = [wpc EXCEPT ![c] = "ready"]
    /\ UNCHANGED <<now, wop, readerVars, raced>>

\* The store reports an error, and so does the operation.
ReopenInWorkerFails(c) ==
    /\ wpc[c] = "loaded"
    /\ Expired(wst[c], now)
    /\ SaveFails(c, Reopened(wst[c]))
    /\ EndOperation(c)
    /\ UNCHANGED <<now, readerVars, raced>>

\* Fault: a flag may be put on an opened cell.
OnlyOpensChecked(c) ==
    LET st == wst[c]
        op == wop[c] IN
    \/ st.closed
    \/ /\ op.kind = "open"
       /\ \/ st.opened[op.cell] # Nobody
          \/ op.cell \in st.flagged
          \/ op.cell \in Mines[c] /\ ~HasOpened(st, op.user)

\* Returns that store nothing: ErrChunkClosed; a cell opened before (for a
\* flag, ErrCellAlreadyOpen); ErrCellFlagged; a mine on a first open.
NothingToStore(c) ==
    LET st == wst[c]
        op == wop[c] IN
    \/ st.closed
    \/ st.opened[op.cell] # Nobody
    \/ /\ op.kind = "open"
       /\ \/ op.cell \in st.flagged
          \/ op.cell \in Mines[c] /\ ~HasOpened(st, op.user)

ReturnUnchanged(c) ==
    /\ wpc[c] = "ready"
    /\ NothingToStore(c)
    /\ EndOperation(c)
    /\ UNCHANGED <<now, storeVars, readerVars, raced>>

\* The state an operation stores.  Both reads of the clock and the store are
\* one step: only the worker's own copy is used between them.
Result(c) ==
    LET st == wst[c]
        op == wop[c] IN
    CASE op.kind = "flag"   -> [st EXCEPT !.flagged = @ \union {op.cell}, !.version = @ + 1]
      [] op.kind = "unflag" -> [st EXCEPT !.flagged = @ \ {op.cell}, !.version = @ + 1]
      [] op.kind = "open" /\ op.cell \in Mines[c] -> WithClosure(st, op.user)
      [] OTHER -> WithOpened(st, Area(c, st, op.cell), op.user)

StoreResult(c) ==
    /\ wpc[c] = "ready"
    /\ ~NothingToStore(c)
    /\ Save(c, Result(c)) \/ SaveFails(c, Result(c))
    /\ EndOperation(c)
    /\ UNCHANGED <<now, readerVars, raced>>

WorkerStep(c) ==
    \/ NothingToReopen(c) \/ ReopenInWorker(c) \/ ReopenInWorkerFails(c)
    \/ ReturnUnchanged(c) \/ StoreResult(c)

-----------------------------------------------------------------------------
(* Read requests, outside the workers *)

\* GetChunkSummary of a leaf and GetChunkSnapshot load the state.
LoadForRead(r, c) ==
    /\ rpc[r] = "idle"
    /\ rpc' = [rpc EXCEPT ![r] = "loaded"]
    /\ rchunk' = [rchunk EXCEPT ![r] = c]
    /\ rst' = [rst EXCEPT ![r] = store[c]]
    /\ UNCHANGED <<now, storeVars, workerVars, rtime, rtodo, raced>>

\* ListChunks of the leaf level reads the clock once, before it loads anything.
StartList(r) ==
    /\ rpc[r] = "idle"
    /\ rpc' = [rpc EXCEPT ![r] = "listing"]
    /\ rtime' = [rtime EXCEPT ![r] = now]
    /\ rtodo' = [rtodo EXCEPT ![r] = Chunks]
    /\ UNCHANGED <<now, storeVars, workerVars, rchunk, rst, raced>>

LoadForList(r) ==
    /\ rpc[r] = "listing"
    /\ \E c \in rtodo[r] :
        /\ rchunk' = [rchunk EXCEPT ![r] = c]
        /\ rst' = [rst EXCEPT ![r] = store[c]]
        /\ rtodo' = [rtodo EXCEPT ![r] = @ \ {c}]
    /\ rpc' = [rpc EXCEPT ![r] = "loaded"]
    /\ UNCHANGED <<now, storeVars, workerVars, rtime, raced>>

Listing(r)  == rtime[r] # NoTime
ClockOf(r)  == IF Listing(r) THEN rtime[r] ELSE now

EndRead(r) ==
    /\ rpc' = [rpc EXCEPT ![r] = "idle"]
    /\ rst' = [rst EXCEPT ![r] = NoState]
    /\ rtime' = [rtime EXCEPT ![r] = NoTime]
    /\ rtodo' = [rtodo EXCEPT ![r] = {}]
    /\ UNCHANGED rchunk

\* The request goes on with the next chunk to list, or responds.
ContinueRead(r) ==
    IF rtodo[r] # {}
    THEN /\ rpc' = [rpc EXCEPT ![r] = "listing"]
         /\ rst' = [rst EXCEPT ![r] = NoState]
         /\ UNCHANGED <<rchunk, rtime, rtodo>>
    ELSE EndRead(r)

\* reopenExpiredChunk has nothing to do for the copy at hand.
ReadUnchanged(r) ==
    /\ rpc[r] = "loaded"
    /\ ~Expired(rst[r], ClockOf(r))
    /\ ContinueRead(r)
    /\ UNCHANGED <<now, storeVars, workerVars, raced>>

\* The reader's copy is not what is stored, and neither is what it makes of it.
Stale(r) ==
    LET c == rchunk[r] IN store[c] # rst[r] /\ store[c] # Reopened(rst[r])

\* The history of stale stores.
NoteStore(r) ==
    raced' = IF Stale(r) /\ store' # store THEN raced \union {rchunk[r]} ELSE raced

\* reopenExpiredChunk stores the reopened copy, whatever was stored since it
\* was loaded.
ReopenInRead(r) ==
    /\ rpc[r] = "loaded"
    /\ Expired(rst[r], ClockOf(r))
    /\ Save(rchunk[r], Reopened(rst[r]))
    /\ ContinueRead(r)
    /\ NoteStore(r)
    /\ UNCHANGED <<now, workerVars>>

\* The store reports an error, and so does the request.
ReopenInReadFails(r) ==
    /\ rpc[r] = "loaded"
    /\ Expired(rst[r], ClockOf(r))
    /\ SaveFails(rchunk[r], Reopened(rst[r]))
    /\ EndRead(r)
    /\ NoteStore(r)
    /\ UNCHANGED <<now, workerVars>>

ReaderStep(r) ==
    \/ LoadForList(r) \/ ReadUnchanged(r)
    \/ ReopenInRead(r) \/ ReopenInReadFails(r)

-----------------------------------------------------------------------------
(* The system *)

Next ==
    \/ Tick
    \/ \E c \in Chunks, op \in Operations : LoadOperation(c, op)
    \/ \E c \in Chunks : WorkerStep(c)
    \/ \E r \in Readers, c \in Chunks : LoadForRead(r, c)
    \/ \E r \in Readers : StartList(r) \/ ReaderStep(r)

Spec == Init /\ [][Next]_vars

\* The clock advances, goroutines run, Redis does not fail a reader for ever,
\* and the chunks go on being read (players look at the map), so that lazy
\* reopening has its chance.
Fairness ==
    /\ SF_vars(Tick)
    /\ \A c \in Chunks : WF_vars(WorkerStep(c))
    /\ \A r \in Readers : WF_vars(ReaderStep(r)) /\ SF_vars(ReopenInRead(r))
    /\ \A r \in Readers, c \in Chunks : SF_vars(LoadForRead(r, c))

FairSpec == Spec /\ Fairness

-----------------------------------------------------------------------------
(* Safety *)

\* What is stored is a legal board: no mine and no flagged cell is open, and
\* the closed set names exactly the closed chunks, through floods, flags,
\* closures, and whole-state overwrites by readers (lines 340-375, 412-485,
\* 540-546, 746-751; SaveState 49-63).
BoardSound ==
    \A c \in Chunks :
        /\ store[c] # NoState =>
            /\ Opened(store[c]) \cap (Mines[c] \union store[c].flagged) = {}
            /\ store[c].closed <=> store[c].until # NoTime
        /\ c \in closedSet <=> store[c] # NoState /\ store[c].closed

\* A closed chunk was closed by a player who had opened one of its cells: the
\* protection of a first open (lines 337-355) is never bypassed.
ClosedByExperienced ==
    \A c \in Chunks :
        store[c] # NoState /\ store[c].closed =>
            \E x \in Cells : store[c].opened[x] = store[c].closedBy

\* Something stored for c is forgotten: who opened a cell, or a version.
Loses(c) ==
    /\ store[c] # NoState
    /\ \/ \E x \in Opened(store[c]) : store'[c].opened[x] # store[c].opened[x]
       \/ store'[c].version < store[c].version

\* The closure of c is lifted before its time.
LiftsEarly(c) ==
    /\ store[c] # NoState
    /\ store[c].closed
    /\ now < store[c].until
    /\ store'[c] # store[c]

\* The workers alone never lose an opened cell or a version, nor lift a closure
\* early, and neither do readers whose copies are up to date: before that happens
\* a reader has stored a stale copy of the chunk (reopenExpiredChunk 726-752).
LossNeedsStaleReader ==
    [][\A c \in Chunks : Loses(c) \/ LiftsEarly(c) => c \in raced']_vars

\* What the tests of concurrent opens expect of the stored state (mine_chunk_
\* service_test.go 477, 516): a cell that is opened stays so, and is opened once.
ProgressKept ==
    [][\A c \in Chunks : store[c] # NoState =>
        \A x \in Opened(store[c]) : store'[c].opened[x] = store[c].opened[x]]_vars

-----------------------------------------------------------------------------
(* Liveness *)

\* A closure that goes on being looked at is lifted.
ClosuresLift ==
    \A c \in Chunks : c \in closedSet ~> c \notin closedSet

=============================================================================
