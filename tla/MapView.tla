------------------------------ MODULE MapView ------------------------------
(***************************************************************************)
(* One page's copy of one chunk: the events that the HTTP handlers         *)
(* broadcast (internal/handler/chunk_handler.go), the snapshots that       *)
(* GetChunkSnapshot serves (internal/service/chunk_service.go), and the    *)
(* page that puts both together (static/app.js).                           *)
(*                                                                         *)
(* The chunk's worker executes operations one at a time: it loads the      *)
(* board and stores it, changed, with the next version.  Any read of a     *)
(* closed chunk may store, reopened, the board that it has loaded, which   *)
(* may be old by then.  The event of an operation is broadcast later, by   *)
(* the handler of its request, so events of two operations may change      *)
(* places; an operation that fails at its last step, or whose caller gave  *)
(* up meanwhile, is stored and has no event.                               *)
(* The page fetches snapshots, subscribes afterwards, and applies events;  *)
(* an event more than one version ahead of its copy makes it fetch a       *)
(* snapshot instead.  Snapshots are answered in any order.                 *)
(*                                                                         *)
(* Cells have no mines here: an open reveals any set of hidden cells (the  *)
(* flood is the subject of MineChunk), or hits a mine and closes the       *)
(* chunk, or is cancelled by the first-open protection.                    *)
(***************************************************************************)
EXTENDS Naturals, Sequences, FiniteSets

CONSTANTS
    Cells,
    Fetches,        \* places for snapshot requests on their way
    First,          \* the one that loadVisibleSnapshots uses
    None, Asked,    \* no value; a request without an answer yet
    MaxVersion,     \* bound: versions of the chunk
    MaxReads,       \* bound: closed boards that readers have loaded
    MaxLate,        \* bound: operations whose event is not broadcast yet
    MaxInbox        \* bound: messages on the page's connection

ASSUME FetchAssumption == First \in Fetches
ASSUME BoundAssumption ==
    MaxVersion \in Nat \ {0} /\ MaxReads \in Nat /\ MaxLate \in Nat /\ MaxInbox \in Nat

VARIABLES
    board,      \* the chunk as stored
    held,       \* the board that the worker has loaded, or None
    copies,     \* the closed boards that readers have loaded
    late,       \* the results whose handlers have not broadcast them yet
    ws,         \* the page's connection: "none", "on" (subscribed) or "lost"
    inbox,      \* the events on their way to the page
    fetch,      \* what is asked of the server, or its answer on the way
    view,       \* chunkDemo.snapshots: the page's copy, or None
    flags,      \* chunkDemo.flags: the flags it draws
    acting,     \* chunkDemo.actionPending
    reply,      \* the answer to the page's own operation on its way, or None
    slipped,    \* history: since the last snapshot something went wrong that the
                \* version does not show
    wasOpen,    \* history: the cells that were open once
    raced       \* history: a reader has stored an old board over a newer one

boardVars == <<board, held, copies, wasOpen, raced>>
pageVars == <<ws, inbox, fetch, view, flags, acting, reply, slipped>>
vars == <<boardVars, late, pageVars>>

-----------------------------------------------------------------------------
(* Types *)

Versions  == 1 .. MaxVersion
Boards    == [version : Versions, opened : SUBSET Cells, flagged : SUBSET Cells, closed : BOOLEAN]
Snapshots == [version : Versions, opened : SUBSET Cells, closed : BOOLEAN]

ASSUME NoneAssumption == None \notin Boards /\ Asked \notin Boards

Kinds     == {"opened", "again", "flagged", "unflagged", "closed"}
Results   == [kind : Kinds, version : Versions, cells : SUBSET Cells, own : BOOLEAN]

\* The shape of every variable.
TypeOK ==
    /\ board \in Boards
    /\ held \in Boards \union {None}
    /\ copies \subseteq Boards
    /\ late \subseteq Results
    /\ ws \in {"none", "on", "lost"}
    /\ inbox \in Seq(Results)
    /\ fetch \in [Fetches -> Boards \union {None, Asked}]
    /\ view \in Snapshots \union {None}
    /\ flags \subseteq Cells
    /\ acting \in BOOLEAN
    /\ reply \in Results \union {None}
    /\ slipped \in BOOLEAN
    /\ wasOpen \subseteq Cells
    /\ raced \in BOOLEAN

\* A chunk nobody has touched, and a page that has not shown it yet.
Init ==
    /\ board = [version |-> 1, opened |-> {}, flagged |-> {}, closed |-> FALSE]
    /\ held = None
    /\ copies = {}
    /\ late = {}
    /\ ws = "none"
    /\ inbox = <<>>
    /\ fetch = [f \in Fetches |-> None]
    /\ view = None
    /\ flags = {}
    /\ acting = FALSE
    /\ reply = None
    /\ slipped = FALSE
    /\ wasOpen = {}
    /\ raced = FALSE

-----------------------------------------------------------------------------
(* The chunk's worker *)

\* loadOrNewChunkState, when an operation starts.
Load ==
    /\ held = None
    /\ held' = board
    /\ UNCHANGED <<board, copies, wasOpen, raced, late, pageVars>>

\* ErrChunkClosed, nothing to do, or a call that fails: nothing is stored.
Refused ==
    /\ held # None
    /\ held' = None
    /\ UNCHANGED <<board, copies, wasOpen, raced, late, pageVars>>

\* reopenExpiredChunk: the closure is over, and nobody is told.
Reopened(b) == [b EXCEPT !.version = @ + 1, !.closed = FALSE]

Reopen ==
    /\ held # None /\ held.closed
    /\ held.version < MaxVersion
    /\ held' = Reopened(held)
    /\ board' = held'
    /\ UNCHANGED <<copies, wasOpen, raced, late, pageVars>>

\* A request may be the page's own, one at a time (canActOnHit).  What the page
\* showed when it was sent need not be true any more when it is executed.
Requested(own) ==
    /\ held # None /\ ~held.closed
    /\ held' = None
    /\ own => ~acting
    /\ acting' = (acting \/ own)
    /\ Cardinality(late) < MaxLate
    /\ UNCHANGED <<copies, raced, ws, inbox, fetch, view, flags, reply, slipped>>

\* SaveState of the loaded board with the next version, and these changes.
Store(opened, flagged, closed) ==
    /\ held.version < MaxVersion
    /\ board' = [version |-> held.version + 1, opened |-> opened, flagged |-> flagged, closed |-> closed]
    /\ wasOpen' = wasOpen \union opened

Answered(kind, version, cells, own) ==
    late' = late \union {[kind |-> kind, version |-> version, cells |-> cells, own |-> own]}

Hidden == Cells \ (held.opened \union held.flagged)

\* openCellInWorker opens hidden cells; the result carries all opened cells.
Open(X, own) ==
    /\ Requested(own)
    /\ X # {} /\ X \subseteq Hidden
    /\ Store(held.opened \union X, held.flagged, FALSE)
    /\ Answered("opened", held.version + 1, held.opened \union X, own)

\* openCellInWorker of a cell that is open: nothing is stored, the result
\* carries that cell and the version it found.
OpenAgain(x, own) ==
    /\ Requested(own)
    /\ x \in held.opened
    /\ UNCHANGED <<board, wasOpen>>
    /\ Answered("again", held.version, {x}, own)

\* openCellInWorker hits a mine.
HitMine(own) ==
    /\ Requested(own)
    /\ held.opened # {}
    /\ Store(held.opened, held.flagged, TRUE)
    /\ Answered("closed", held.version + 1, {}, own)

\* Fault: the cancelled open is broadcast like any other result.
CancelledTold(x) ==
    late' = late \union {[kind |-> "opened", version |-> held.version, cells |-> {x}, own |-> FALSE]}

\* broadcastOpenCell keeps a cancelled open to the player who made it.
CancelledUntold(x) == UNCHANGED late

\* openCellInWorker hits a mine with a player's first open: nothing is stored.
Cancelled(x) ==
    /\ Requested(FALSE)
    /\ x \in Hidden
    /\ UNCHANGED <<board, wasOpen>>
    /\ CancelledUntold(x)

\* flagCellInWorker.
Flagged(x, on) == IF on THEN held.flagged \union {x} ELSE held.flagged \ {x}

Flag(x, on, own) ==
    /\ Requested(own)
    /\ x \notin held.opened
    /\ Store(held.opened, Flagged(x, on), FALSE)
    /\ Answered(IF on THEN "flagged" ELSE "unflagged", held.version + 1, {x}, own)

\* An operation is stored and has no result: SaveState loses its answer,
\* ApplyOpenResult fails, or the caller gave up meanwhile.
OpenUntold(X) ==
    /\ Requested(FALSE)
    /\ X # {} /\ X \subseteq Hidden
    /\ Store(held.opened \union X, held.flagged, FALSE)
    /\ UNCHANGED late

HitMineUntold ==
    /\ Requested(FALSE)
    /\ held.opened # {}
    /\ Store(held.opened, held.flagged, TRUE)
    /\ UNCHANGED late

FlagUntold(x, on) ==
    /\ Requested(FALSE)
    /\ x \notin held.opened
    /\ Store(held.opened, Flagged(x, on), FALSE)
    /\ UNCHANGED late

-----------------------------------------------------------------------------
(* Reads of a closed chunk, outside its worker *)

\* GetChunkSummary, GetChunkSnapshot or ListChunks loads it.
LoadClosed ==
    /\ board.closed
    /\ Cardinality(copies) < MaxReads
    /\ copies' = copies \union {board}
    /\ UNCHANGED <<board, held, wasOpen, raced, late, pageVars>>

\* reopenExpiredChunk stores the whole board it has loaded, reopened, whatever was
\* stored since: opened cells close, flags change, the version goes back.
StoreReopened(b) ==
    /\ b.version < MaxVersion
    /\ board' = Reopened(b)
    /\ raced' = (raced \/ board \notin {b, Reopened(b)})
    /\ copies' = copies \ {b}
    /\ UNCHANGED <<held, wasOpen, late, pageVars>>

\* The closure is not over, or the call fails.
EndRead(b) ==
    /\ copies' = copies \ {b}
    /\ UNCHANGED <<board, held, wasOpen, raced, late, pageVars>>

-----------------------------------------------------------------------------
(* The handlers: broadcastOpenCell and broadcastFlagCell, then the answer *)

Broadcast(r) ==
    /\ r \in late
    /\ Len(inbox) < MaxInbox
    /\ late' = late \ {r}
    /\ inbox' = IF ws = "on" THEN Append(inbox, r) ELSE inbox
    /\ reply' = IF r.own THEN r ELSE reply
    /\ UNCHANGED <<boardVars, ws, fetch, view, flags, acting, slipped>>

-----------------------------------------------------------------------------
(* The page: what a result does to its copy *)

\* ensureSnapshot makes a copy for opened cells when there is none.
Made == [version |-> 1, opened |-> {}, closed |-> FALSE]

\* Fault: the version of a copy never goes back.
UpdatedForward(v, r) ==
    [version |-> IF r.version > v.version THEN r.version ELSE v.version,
     opened  |-> IF r.kind \in {"opened", "again"} THEN v.opened \union r.cells ELSE v.opened,
     closed  |-> v.closed \/ r.kind = "closed"]

\* upsertOpenedCells, setCellFlag and updateChunkAfterAction: a result never
\* clears the closed mark, and its version is taken whether newer or older.
Updated(v, r) ==
    [version |-> r.version,
     opened  |-> IF r.kind \in {"opened", "again"} THEN v.opened \union r.cells ELSE v.opened,
     closed  |-> v.closed \/ r.kind = "closed"]

Apply(r) ==
    /\ view' = IF view # None THEN Updated(view, r)
               ELSE IF r.kind \in {"opened", "again"} THEN Updated(Made, r) ELSE None
    /\ flags' = CASE r.kind = "flagged" -> flags \union r.cells
                  [] r.kind = "closed"  -> flags
                  [] OTHER              -> flags \ r.cells

\* Nothing in the copy's version tells that something is missing after r: it
\* was made from r, r skipped versions, or r had no cells but those of an old
\* open.
Slips(r) ==
    \/ view = None
    \/ r.version > view.version + 1
    \/ r.version > view.version /\ r.kind = "again"

-----------------------------------------------------------------------------
(* The page: events, answers, snapshots *)

\* shouldReloadSnapshot.
ShouldReload(r) == view # None /\ r.version > view.version + 1

\* handleMapWSEvent: a gap asks for a snapshot and drops the event.
Gap ==
    /\ inbox # <<>> /\ ShouldReload(Head(inbox))
    /\ \E f \in Fetches \ {First} :
        /\ fetch[f] = None
        /\ fetch' = [fetch EXCEPT ![f] = Asked]
    /\ inbox' = Tail(inbox)
    /\ UNCHANGED <<boardVars, late, ws, view, flags, acting, reply, slipped>>

\* handleMapWSEvent: the event is applied.
ApplyEvent ==
    /\ inbox # <<>> /\ ~ShouldReload(Head(inbox))
    /\ Apply(Head(inbox))
    /\ slipped' = (slipped \/ Slips(Head(inbox)))
    /\ inbox' = Tail(inbox)
    /\ UNCHANGED <<boardVars, late, ws, fetch, acting, reply>>

\* openMapCell and toggleMapFlag apply the answer without looking for a gap.
ApplyReply ==
    /\ reply # None
    /\ Apply(reply)
    /\ slipped' = (slipped \/ Slips(reply))
    /\ reply' = None
    /\ acting' = FALSE
    /\ UNCHANGED <<boardVars, late, ws, inbox, fetch>>

\* The answer to the page's own operation is lost; its event may still arrive.
ReplyLost ==
    /\ reply # None
    /\ reply' = None
    /\ acting' = FALSE
    /\ UNCHANGED <<boardVars, late, ws, inbox, fetch, view, flags, slipped>>

\* loadVisibleSnapshots fetches a chunk that the page has no copy of.
LoadVisible ==
    /\ view = None /\ fetch[First] = None
    /\ fetch' = [fetch EXCEPT ![First] = Asked]
    /\ UNCHANGED <<boardVars, late, ws, inbox, view, flags, acting, reply, slipped>>

\* GetChunkSnapshot reads the board; when it reopens it, the answer is the board
\* just stored.
Serve(f) ==
    /\ fetch[f] = Asked
    /\ fetch' = [fetch EXCEPT ![f] = board]
    /\ UNCHANGED <<boardVars, late, ws, inbox, view, flags, acting, reply, slipped>>

\* Fault: reloadChunkSnapshot forgets syncFlagsFromSnapshot.
TakeWithoutFlags(b) ==
    /\ view' = [version |-> b.version, opened |-> b.opened, closed |-> b.closed]
    /\ UNCHANGED flags

\* reloadChunkSnapshot and loadVisibleSnapshots replace the copy, whatever
\* happened to it meanwhile, and syncFlagsFromSnapshot its flags.
Take(b) ==
    /\ view' = [version |-> b.version, opened |-> b.opened, closed |-> b.closed]
    /\ flags' = b.flagged

Arrive(f) ==
    /\ fetch[f] \in Boards
    /\ Take(fetch[f])
    /\ slipped' = FALSE
    /\ fetch' = [fetch EXCEPT ![f] = None]
    /\ UNCHANGED <<boardVars, late, ws, inbox, acting, reply>>

\* The request or its answer is lost; nobody asks again.
FetchFails(f) ==
    /\ fetch[f] # None
    /\ fetch' = [fetch EXCEPT ![f] = None]
    /\ UNCHANGED <<boardVars, late, ws, inbox, view, flags, acting, reply, slipped>>

-----------------------------------------------------------------------------
(* The page: its connection and what it shows *)

\* syncMapWSSubscriptions: after the visible chunks were loaded, or when a lost
\* connection was opened again.
Subscribe ==
    /\ \/ ws = "none" /\ fetch[First] = None
       \/ ws = "lost"
    /\ ws' = "on"
    /\ UNCHANGED <<boardVars, late, inbox, fetch, view, flags, acting, reply, slipped>>

\* The connection breaks, or the hub evicts the page: what was on its way is
\* lost, the copy stays.
Disconnect ==
    /\ ws = "on"
    /\ ws' = "lost"
    /\ inbox' = <<>>
    /\ UNCHANGED <<boardVars, late, fetch, view, flags, acting, reply, slipped>>

\* The map is moved away: loadVisibleChunks prunes the chunk's flags and gives
\* up the subscription; the copy stays and is not loaded again on return.
MoveAway ==
    /\ ws = "on"
    /\ ws' = "none"
    /\ inbox' = <<>>
    /\ flags' = {}
    /\ slipped' = TRUE
    /\ UNCHANGED <<boardVars, late, fetch, view, acting, reply>>

\* scheduleClosureReload: the copy of a closed chunk is thrown away when the
\* closure ends.
ClosureTimer ==
    /\ view # None /\ view.closed
    /\ view' = None
    /\ UNCHANGED <<boardVars, late, ws, inbox, fetch, flags, acting, reply, slipped>>

-----------------------------------------------------------------------------
(* The system *)

Next ==
    \/ \E own \in BOOLEAN :
        \/ \E X \in SUBSET Cells : Open(X, own)
        \/ \E x \in Cells : OpenAgain(x, own)
        \/ \E x \in Cells, on \in BOOLEAN : Flag(x, on, own)
        \/ HitMine(own)
    \/ \E x \in Cells : Cancelled(x)
    \/ \E X \in SUBSET Cells : OpenUntold(X)
    \/ HitMineUntold
    \/ \E x \in Cells, on \in BOOLEAN : FlagUntold(x, on)
    \/ Load \/ Refused \/ Reopen
    \/ LoadClosed \/ \E b \in copies : StoreReopened(b) \/ EndRead(b)
    \/ \E r \in late : Broadcast(r)
    \/ Gap \/ ApplyEvent \/ ApplyReply \/ ReplyLost \/ LoadVisible
    \/ \E f \in Fetches : Serve(f) \/ Arrive(f) \/ FetchFails(f)
    \/ Subscribe \/ Disconnect \/ MoveAway \/ ClosureTimer

Spec == Init /\ [][Next]_vars

-----------------------------------------------------------------------------
(* Properties *)

\* Whatever order events and snapshots arrive in, no cell is drawn open that never
\* was: cancelled opens are told to nobody (chunk_handler.go 178-185).  And until a
\* reader has stored an old board, all that is drawn open is open.
OpenedTrue ==
    view # None =>
        /\ view.opened \subseteq wasOpen
        /\ ~raced => view.opened \subseteq board.opened

\* A page that believes to be up to date is: at the version of the chunk it
\* draws the chunk's cells, flags and closure, through events that overtake one
\* another and late snapshots.  Exactly five things break this without showing
\* in the version: an answer to an own operation that skips versions, a copy
\* made from an event, flags pruned when the map was moved, the answer to an
\* open of an open cell, and an old board stored by a reader, after which
\* versions are used again for other boards (chunk_handler.go 178-207, app.js
\* 1493-1690, chunk_service.go 746-751).
CurrentIsRight ==
    view # None /\ view.version = board.version /\ ~slipped /\ ~raced =>
        /\ view.opened = board.opened
        /\ flags = board.flagged
        /\ view.closed = board.closed

=============================================================================
