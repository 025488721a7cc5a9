------------------------------ MODULE MineMatch ------------------------------
(***************************************************************************)
(* The life of a 1v1 minesweeper match (internal/service/                  *)
(* mine_match_service.go, internal/repository/mine_match_repository.go)    *)
(* and the open operations that drive it (openCellInWorker in              *)
(* internal/service/chunk_service.go).                                     *)
(*                                                                         *)
(* A match is given a clean chunk, locks it, scores the cells its players  *)
(* open there, and ends when a player hits a mine or no safe cell is left. *)
(* The lock, the match state and the active match of every user are        *)
(* separate Redis keys, the result a MySQL row and a RabbitMQ event; each  *)
(* read or write of one of them is a step, and with Faults any of them may *)
(* fail.                                                                   *)
(*                                                                         *)
(* Operations of one chunk are serialized (ChunkSerial).  A chunk is       *)
(* abstracted to who opened which cell and whether it is closed; flags and *)
(* the clock are in MineChunk.  A read of a closed chunk, outside the      *)
(* worker, stores the reopened copy of what it loaded, which may be old.   *)
(* Results also come from POST /match/result, at any time.                 *)
(***************************************************************************)
EXTENDS Naturals, FiniteSets

CONSTANTS
    Users, Chunks, Cells, Matches,
    Readers,    \* slots for concurrent reads of closed chunks
    Mines,      \* the mines of each chunk
    TeamOf,     \* the team of each user in each match, or NoTeam
    Faults,     \* external calls may fail, or the process may stop
    LostReplies,\* a write may take effect and still be reported as failed
    Winners,    \* the winners that POST /match/result may name
    MaxPosts,   \* bound: POSTs of a result for each match
    MaxRaces,   \* bound: old copies stored over newer cells in each chunk
    Nobody, NoMatch, NoState, NoTeam, NoChunk, NoOp, NoCopy

\* buildTeams, for one player a side.
Teams == {0, 1}

Players(m) == {u \in Users : TeamOf[m][u] # NoTeam}

ASSUME MatchAssumption ==
    /\ Mines \in [Chunks -> SUBSET Cells]
    /\ TeamOf \in [Matches -> [Users -> Teams \union {NoTeam}]]
    /\ \A m \in Matches : \A t \in Teams : Cardinality({u \in Users : TeamOf[m][u] = t}) = 1
    /\ IsFiniteSet(Cells)
    /\ Faults \in BOOLEAN
    /\ LostReplies \in BOOLEAN
    /\ Teams \subseteq Winners
    /\ MaxPosts \in Nat
    /\ MaxRaces \in Nat

ASSUME NullAssumption ==
    /\ Nobody \notin Users
    /\ NoMatch \notin Matches
    /\ NoTeam \notin Winners
    /\ NoChunk \notin Chunks

VARIABLES
    lock,    \* Redis: the match that has locked each chunk
    match,   \* Redis: the state of each match
    active,  \* Redis: the active match of each user
    board,   \* Redis: the state of each chunk
    row,     \* MySQL: win_team_no of each match
    settled, \* the winner of the first result event of each match, the only
             \* one the rank worker does not discard as a duplicate
    apc, achunk, atodo,         \* each match's assignment
    wpc, wop, wid, wmatch, wnew, wfull, wwin, \* each chunk's worker
    copy,    \* each reader: the closed chunk it has loaded
    posts,   \* the results of POSTs in the row and not yet published
    posted,  \* how many results were posted for each match
    raced,   \* history: how often readers have closed cells of each chunk again
    trouble  \* the worst that has happened: no failure, a call that failed or
             \* a process that stopped, a write whose reply was lost

redisVars  == <<lock, match, active, board>>
resultVars == <<row, settled>>
assignVars == <<apc, achunk, atodo>>
workerVars == <<wpc, wop, wid, wmatch, wnew, wfull, wwin>>
readerVars == <<copy, raced>>
postVars   == <<posts, posted>>
vars == <<redisVars, resultVars, assignVars, workerVars, readerVars, postVars, trouble>>

-----------------------------------------------------------------------------
(* Types *)

Boards == [opened : [Cells -> Users \union {Nobody}], closed : BOOLEAN]

MatchStates ==
    [ chunk  : Chunks,
      status : {"ongoing", "finished"},
      score  : [Users -> Nat],
      last   : Users \union {Nobody},      \* the latest scorer: LastScoreAt
      winner : Teams \union {NoTeam} ]

ASSUME NoStateAssumption == NoState \notin MatchStates

AssignControl ==
    {"none", "search", "tryLock", "recheck", "dirty", "delDirty",
     "save", "activate", "abandon", "delAbandoned", "assigned", "failed"}

WorkerControl ==
    {"idle", "checkLock", "authorized", "apply", "saveScore", "setRow", "publish",
     "saveFinished", "clearUsers", "unlock", "delLock"}

Operations == [user : Users, cell : Cells]

Copies == [chunk : Chunks, opened : [Cells -> Users \union {Nobody}]]

ASSUME NoCopyAssumption == NoCopy \notin Copies

Posts == [match : Matches, winner : Winners]

\* The shape of every variable.
TypeOK ==
    /\ lock \in [Chunks -> Matches \union {NoMatch}]
    /\ match \in [Matches -> MatchStates \union {NoState}]
    /\ active \in [Users -> Matches \union {NoMatch}]
    /\ board \in [Chunks -> Boards]
    /\ row \in [Matches -> Winners \union {NoTeam}]
    /\ settled \in [Matches -> Winners \union {NoTeam}]
    /\ apc \in [Matches -> AssignControl]
    /\ achunk \in [Matches -> Chunks \union {NoChunk}]
    /\ atodo \in [Matches -> SUBSET Chunks]
    /\ wpc \in [Chunks -> WorkerControl]
    /\ wop \in [Chunks -> Operations \union {NoOp}]
    /\ wid \in [Chunks -> Matches \union {NoMatch}]
    /\ wmatch \in [Chunks -> MatchStates \union {NoState}]
    /\ wnew \in [Chunks -> 0 .. Cardinality(Cells)]
    /\ wfull \in [Chunks -> BOOLEAN]
    /\ wwin \in [Chunks -> Teams \union {NoTeam}]
    /\ copy \in [Readers -> Copies \union {NoCopy}]
    /\ posts \subseteq Posts
    /\ posted \in [Matches -> 0 .. MaxPosts]
    /\ raced \in [Chunks -> 0 .. MaxRaces]
    /\ trouble \in {"none", "failure", "lostReply"}

Init ==
    /\ lock = [c \in Chunks |-> NoMatch]
    /\ match = [m \in Matches |-> NoState]
    /\ active = [u \in Users |-> NoMatch]
    /\ board = [c \in Chunks |-> [opened |-> [x \in Cells |-> Nobody], closed |-> FALSE]]
    /\ row = [m \in Matches |-> NoTeam]
    /\ settled = [m \in Matches |-> NoTeam]
    /\ apc = [m \in Matches |-> "none"]
    /\ achunk = [m \in Matches |-> NoChunk]
    /\ atodo = [m \in Matches |-> {}]
    /\ wpc = [c \in Chunks |-> "idle"]
    /\ wop = [c \in Chunks |-> NoOp]
    /\ wid = [c \in Chunks |-> NoMatch]
    /\ wmatch = [c \in Chunks |-> NoState]
    /\ wnew = [c \in Chunks |-> 0]
    /\ wfull = [c \in Chunks |-> FALSE]
    /\ wwin = [c \in Chunks |-> NoTeam]
    /\ copy = [r \in Readers |-> NoCopy]
    /\ posts = {}
    /\ posted = [m \in Matches |-> 0]
    /\ raced = [c \in Chunks |-> 0]
    /\ trouble = "none"

-----------------------------------------------------------------------------
(* Helpers *)

OpenedCells(c) == {x \in Cells : board[c].opened[x] # Nobody}
OpenedBy(c, u) == {x \in Cells : board[c].opened[x] = u}
SafeCells(c)   == Cells \ Mines[c]

\* allSafeCellsOpened: as many cells are open as there are safe ones.
AllSafeOpened(c, opened) ==
    LET done == {x \in Cells : opened[x] # Nobody} IN
    done # {} /\ Cardinality(done) >= Cardinality(SafeCells(c))

\* isCleanChunk
Clean(c) == ~board[c].closed /\ OpenedCells(c) = {}

\* GetActiveMatchByUser: a finished match does not count.
ActiveMatch(u) ==
    LET m == active[u] IN
    IF m = NoMatch THEN NoMatch
    ELSE IF match[m] # NoState /\ match[m].status = "ongoing" THEN m ELSE NoMatch

Opponent(m, u) == CHOOSE t \in Teams : t # TeamOf[m][u]

TeamScore(m, st, t) == st.score[CHOOSE u \in Players(m) : TeamOf[m][u] = t]

\* scoreWinnerTeam for one player a side: the higher score; on a tie the team
\* whose latest score is older, or the lower number if nobody scored.
ScoreWinner(m, st) ==
    IF TeamScore(m, st, 0) # TeamScore(m, st, 1)
    THEN IF TeamScore(m, st, 0) > TeamScore(m, st, 1) THEN 0 ELSE 1
    ELSE IF st.last = Nobody THEN 0 ELSE Opponent(m, st.last)

\* buildMineMatchState
NewMatch(c) ==
    [ chunk |-> c, status |-> "ongoing", score |-> [u \in Users |-> 0],
      last |-> Nobody, winner |-> NoTeam ]

-----------------------------------------------------------------------------
(* AssignChunkForMatch.  Join's mutex runs one at a time in each API process;*)
(* several processes may share the store, which is what SETNX is for.        *)

Goto(m, pc) == apc' = [apc EXCEPT ![m] = pc]

\* A failure, unless worse has happened.
Fail == trouble' = IF trouble = "none" THEN "failure" ELSE trouble

\* Join has made a match of free users: none is matched, or being matched.
StartMatch(m) ==
    /\ apc[m] = "none"
    /\ \A o \in Matches : apc[o] \notin {"none", "failed"} => Players(o) \cap Players(m) = {}
    /\ atodo' = [atodo EXCEPT ![m] = Chunks]
    /\ Goto(m, "search")
    /\ UNCHANGED <<redisVars, resultVars, achunk, workerVars>>

\* isCleanUnlockedChunk on the next chunk of the random order.
TryChunk(m, c) ==
    /\ apc[m] = "search"
    /\ c \in atodo[m]
    /\ atodo' = [atodo EXCEPT ![m] = @ \ {c}]
    /\ IF lock[c] = NoMatch /\ Clean(c)
       THEN achunk' = [achunk EXCEPT ![m] = c] /\ Goto(m, "tryLock")
       ELSE UNCHANGED <<apc, achunk>>
    /\ UNCHANGED <<redisVars, resultVars, workerVars>>

\* ErrMineMatchNoChunk
NoChunkLeft(m) ==
    /\ apc[m] = "search"
    /\ atodo[m] = {}
    /\ Goto(m, "failed")
    /\ UNCHANGED <<redisVars, resultVars, achunk, atodo, workerVars>>

\* Fault: the lock is taken without looking at its holder (SET, not SETNX).
TakeLock(m) ==
    /\ apc[m] = "tryLock"
    /\ lock' = [lock EXCEPT ![achunk[m]] = m]
    /\ Goto(m, "recheck")
    /\ UNCHANGED <<match, active, board, resultVars, achunk, atodo, workerVars>>

\* TryLockChunk, a SETNX.
TryLock(m) ==
    /\ apc[m] = "tryLock"
    /\ IF lock[achunk[m]] = NoMatch
       THEN lock' = [lock EXCEPT ![achunk[m]] = m] /\ Goto(m, "recheck")
       ELSE Goto(m, "search") /\ UNCHANGED lock
    /\ UNCHANGED <<match, active, board, resultVars, achunk, atodo, workerVars>>

\* Fault: no second isCleanChunk once the lock is held.
NoRecheck(m) ==
    /\ apc[m] = "recheck"
    /\ Goto(m, "save")
    /\ UNCHANGED <<redisVars, resultVars, achunk, atodo, workerVars>>

\* The second isCleanChunk, under the lock.
Recheck(m) ==
    /\ apc[m] = "recheck"
    /\ Goto(m, IF Clean(achunk[m]) THEN "save" ELSE "dirty")
    /\ UNCHANGED <<redisVars, resultVars, achunk, atodo, workerVars>>

\* SaveMatchState of the new match.
SaveNewMatch(m) ==
    /\ apc[m] = "save"
    /\ match' = [match EXCEPT ![m] = NewMatch(achunk[m])]
    /\ Goto(m, "activate")
    /\ UNCHANGED <<lock, active, board, resultVars, achunk, atodo, workerVars>>

SetActive(m) ==
    active' = [u \in Users |-> IF u \in Players(m) THEN m ELSE active[u]]

\* SetActiveMatchForUsers; AssignChunkForMatch returns the chunk.
Activate(m) ==
    /\ apc[m] = "activate"
    /\ SetActive(m)
    /\ Goto(m, "assigned")
    /\ UNCHANGED <<lock, match, board, resultVars, achunk, atodo, workerVars>>

\* UnlockChunk reads the lock, and deletes it if it is this match's.
ReadOwnLock(m) ==
    /\ apc[m] \in {"dirty", "abandon"}
    /\ Goto(m, CASE lock[achunk[m]] = m -> IF apc[m] = "dirty" THEN "delDirty" ELSE "delAbandoned"
                 [] OTHER -> IF apc[m] = "dirty" THEN "search" ELSE "failed")
    /\ UNCHANGED <<redisVars, resultVars, achunk, atodo, workerVars>>

DeleteOwnLock(m) ==
    /\ apc[m] \in {"delDirty", "delAbandoned"}
    /\ lock' = [lock EXCEPT ![achunk[m]] = NoMatch]
    /\ Goto(m, IF apc[m] = "delDirty" THEN "search" ELSE "failed")
    /\ UNCHANGED <<match, active, board, resultVars, achunk, atodo, workerVars>>

\* A call returns an error.  Before the lock is held the assignment just fails;
\* afterwards it goes on to unlock the chunk, and ignores an error of that.
AssignFails(m) ==
    /\ Faults
    /\ \/ apc[m] \in {"search", "tryLock"} /\ Goto(m, "failed")
       \/ apc[m] \in {"recheck", "save", "activate"} /\ Goto(m, "abandon")
       \/ apc[m] \in {"dirty", "delDirty"} /\ Goto(m, "search")
       \/ apc[m] \in {"abandon", "delAbandoned"} /\ Goto(m, "failed")
    /\ Fail
    /\ UNCHANGED <<redisVars, resultVars, achunk, atodo, workerVars>>

\* A write takes effect and its reply is lost: the lock is taken by a match
\* that fails, or a match is activated and then given up.
ReplyLost(m) ==
    /\ Faults /\ LostReplies
    /\ \/ /\ apc[m] = "tryLock"
          /\ lock[achunk[m]] = NoMatch
          /\ lock' = [lock EXCEPT ![achunk[m]] = m]
          /\ Goto(m, "failed")
          /\ UNCHANGED active
       \/ /\ apc[m] = "activate"
          /\ SetActive(m)
          /\ Goto(m, "abandon")
          /\ UNCHANGED lock
    /\ trouble' = "lostReply"
    /\ UNCHANGED <<match, board, resultVars, achunk, atodo, workerVars>>

AssignStep(m) ==
    \/ StartMatch(m) \/ \E c \in Chunks : TryChunk(m, c)
    \/ NoChunkLeft(m) \/ TryLock(m) \/ Recheck(m)
    \/ SaveNewMatch(m) \/ Activate(m)
    \/ ReadOwnLock(m) \/ DeleteOwnLock(m)

-----------------------------------------------------------------------------
(* An open operation in its chunk's worker *)

GotoW(c, pc) == wpc' = [wpc EXCEPT ![c] = pc]

EndOperation(c) ==
    /\ wpc' = [wpc EXCEPT ![c] = "idle"]
    /\ wop' = [wop EXCEPT ![c] = NoOp]
    /\ wid' = [wid EXCEPT ![c] = NoMatch]
    /\ wmatch' = [wmatch EXCEPT ![c] = NoState]
    /\ wnew' = [wnew EXCEPT ![c] = 0]
    /\ wfull' = [wfull EXCEPT ![c] = FALSE]
    /\ wwin' = [wwin EXCEPT ![c] = NoTeam]

\* AuthorizeChunkOperation: a player of an ongoing match may open cells in the
\* chunk of that match only; for anyone else the lock is read.
Authorize(c, op) ==
    LET m == ActiveMatch(op.user) IN
    /\ wpc[c] = "idle"
    /\ m # NoMatch => match[m].chunk = c
    /\ wop' = [wop EXCEPT ![c] = op]
    /\ GotoW(c, IF m = NoMatch THEN "checkLock" ELSE "authorized")
    /\ UNCHANGED <<redisVars, resultVars, assignVars, wid, wmatch, wnew, wfull, wwin>>

\* AuthorizeChunkOperation: ErrMineMatchChunkOccupied if the chunk is locked.
CheckLock(c) ==
    /\ wpc[c] = "checkLock"
    /\ IF lock[c] = NoMatch
       THEN GotoW(c, "authorized") /\ UNCHANGED <<wop, wid, wmatch, wnew, wfull, wwin>>
       ELSE EndOperation(c)
    /\ UNCHANGED <<redisVars, resultVars, assignVars>>

\* loadOrNewChunkState and reopenExpiredChunk: the closure is over.
ReopenInWorker(c) ==
    /\ wpc[c] = "authorized"
    /\ board[c].closed
    /\ board' = [board EXCEPT ![c].closed = FALSE]
    /\ UNCHANGED <<lock, match, active, resultVars, assignVars, workerVars>>

\* ErrChunkClosed, or a protected first open of a mine: nothing changes.
OpenNothing(c) ==
    LET op == wop[c] IN
    /\ wpc[c] = "authorized"
    /\ \/ board[c].closed
       \/ op.cell \in Mines[c] /\ OpenedBy(c, op.user) = {}
    /\ EndOperation(c)
    /\ UNCHANGED <<redisVars, resultVars, assignVars>>

\* Fault: a cell opened before counts as newly opened.
OpenAgainCounted(c) ==
    /\ wpc[c] = "authorized"
    /\ ~board[c].closed
    /\ wop[c].cell \in OpenedCells(c)
    /\ wnew' = [wnew EXCEPT ![c] = 1]
    /\ wfull' = [wfull EXCEPT ![c] = AllSafeOpened(c, board[c].opened)]
    /\ GotoW(c, "apply")
    /\ UNCHANGED <<redisVars, resultVars, assignVars, wop, wid, wmatch, wwin>>

\* The cell was opened before: nothing is stored, but the match may be
\* completed.
OpenAgain(c) ==
    /\ wpc[c] = "authorized"
    /\ ~board[c].closed
    /\ wop[c].cell \in OpenedCells(c)
    /\ wfull' = [wfull EXCEPT ![c] = AllSafeOpened(c, board[c].opened)]
    /\ GotoW(c, "apply")
    /\ UNCHANGED <<redisVars, resultVars, assignVars, wop, wid, wmatch, wnew, wwin>>

\* A player that opened a cell before hits a mine: the chunk is closed.
OpenMine(c) ==
    LET op == wop[c] IN
    /\ wpc[c] = "authorized"
    /\ ~board[c].closed
    /\ op.cell \in Mines[c]
    /\ OpenedBy(c, op.user) # {}
    /\ board' = [board EXCEPT ![c].closed = TRUE]
    /\ GotoW(c, "apply")
    /\ UNCHANGED <<lock, match, active, resultVars, assignVars, wop, wid, wmatch, wnew, wfull, wwin>>

\* A safe cell is opened, and with it the part of the board its flood reaches
\* (MineChunk's Area): some set of safe cells not opened before.
OpenSafe(c) ==
    LET op == wop[c] IN
    /\ wpc[c] = "authorized"
    /\ ~board[c].closed
    /\ op.cell \in SafeCells(c) \ OpenedCells(c)
    /\ \E S \in SUBSET (SafeCells(c) \ OpenedCells(c)) :
        /\ op.cell \in S
        /\ board' = [board EXCEPT ![c].opened =
                        [x \in Cells |-> IF x \in S THEN op.user ELSE @[x]]]
        /\ wnew' = [wnew EXCEPT ![c] = Cardinality(S)]
    /\ wfull' = [wfull EXCEPT ![c] = AllSafeOpened(c, board'[c].opened)]
    /\ GotoW(c, "apply")
    /\ UNCHANGED <<lock, match, active, resultVars, assignVars, wop, wid, wmatch, wwin>>

HitMine(c) == wop[c].cell \in Mines[c]

\* The match that ApplyOpenResult applies the operation to.
AppliesTo(c) ==
    LET m == ActiveMatch(wop[c].user) IN
    IF m # NoMatch /\ match[m].chunk = c THEN m ELSE NoMatch

\* The end of the match with the winner t: the rest of finishMatch.
FinishWith(c, t) ==
    /\ wwin' = [wwin EXCEPT ![c] = t]
    /\ GotoW(c, "setRow")

\* ApplyOpenResult: the user plays no match here.
ApplyNothing(c) ==
    /\ wpc[c] = "apply"
    /\ AppliesTo(c) = NoMatch
    /\ EndOperation(c)
    /\ UNCHANGED <<redisVars, resultVars, assignVars>>

\* ApplyOpenResult: a mine gives the match to the other team.
ApplyMine(c) ==
    LET m == AppliesTo(c) IN
    /\ wpc[c] = "apply"
    /\ m # NoMatch
    /\ HitMine(c)
    /\ wid' = [wid EXCEPT ![c] = m]
    /\ wmatch' = [wmatch EXCEPT ![c] = match[m]]
    /\ FinishWith(c, Opponent(m, wop[c].user))
    /\ UNCHANGED <<redisVars, resultVars, assignVars, wop, wnew, wfull>>

\* ApplyOpenResult: the new cells are added to the player's score, in the
\* worker's copy of the match.
ApplyScore(c) ==
    LET m == AppliesTo(c)
        u == wop[c].user IN
    /\ wpc[c] = "apply"
    /\ m # NoMatch
    /\ ~HitMine(c)
    /\ wnew[c] > 0
    /\ wid' = [wid EXCEPT ![c] = m]
    /\ wmatch' = [wmatch EXCEPT ![c] =
                    [match[m] EXCEPT !.score[u] = @ + wnew[c], !.last = u]]
    /\ GotoW(c, "saveScore")
    /\ UNCHANGED <<redisVars, resultVars, assignVars, wop, wnew, wfull, wwin>>

\* ApplyOpenResult after the score: the match ends when no safe cell is left.
CompleteOrEnd(c, m, st) ==
    IF wfull[c]
    THEN /\ wid' = [wid EXCEPT ![c] = m]
         /\ wmatch' = [wmatch EXCEPT ![c] = st]
         /\ FinishWith(c, ScoreWinner(m, st))
         /\ UNCHANGED <<wop, wnew, wfull>>
    ELSE EndOperation(c)

ApplyNoScore(c) ==
    LET m == AppliesTo(c) IN
    /\ wpc[c] = "apply"
    /\ m # NoMatch
    /\ ~HitMine(c)
    /\ wnew[c] = 0
    /\ CompleteOrEnd(c, m, match[m])
    /\ UNCHANGED <<redisVars, resultVars, assignVars>>

\* SaveMatchState of the scores.
SaveScore(c) ==
    /\ wpc[c] = "saveScore"
    /\ match' = [match EXCEPT ![wid[c]] = wmatch[c]]
    /\ CompleteOrEnd(c, wid[c], wmatch[c])
    /\ UNCHANGED <<lock, active, board, resultVars, assignVars>>

\* Fault: a row that has a winner is left alone.
SetRowOnce(c) ==
    /\ wpc[c] = "setRow"
    /\ row' = [row EXCEPT ![wid[c]] = IF @ = NoTeam THEN wwin[c] ELSE @]
    /\ GotoW(c, "publish")
    /\ UNCHANGED <<redisVars, settled, assignVars, wop, wid, wmatch, wnew, wfull, wwin>>

\* SetMatchResult: UpdateMatch overwrites the row, whatever it says.
SetRow(c) ==
    /\ wpc[c] = "setRow"
    /\ row' = [row EXCEPT ![wid[c]] = wwin[c]]
    /\ GotoW(c, "publish")
    /\ UNCHANGED <<redisVars, settled, assignVars, wop, wid, wmatch, wnew, wfull, wwin>>

\* SetMatchResult: the event "evt_<match>" is published.
Publish(c) ==
    LET m == wid[c] IN
    /\ wpc[c] = "publish"
    /\ settled' = [settled EXCEPT ![m] = IF @ = NoTeam THEN wwin[c] ELSE @]
    /\ GotoW(c, "saveFinished")
    /\ UNCHANGED <<redisVars, row, assignVars, wop, wid, wmatch, wnew, wfull, wwin>>

\* finishMatch: SaveMatchState of the finished match.
SaveFinished(c) ==
    /\ wpc[c] = "saveFinished"
    /\ match' = [match EXCEPT ![wid[c]] =
                    [wmatch[c] EXCEPT !.status = "finished", !.winner = wwin[c]]]
    /\ GotoW(c, "clearUsers")
    /\ UNCHANGED <<lock, active, board, resultVars, assignVars, wop, wid, wmatch, wnew, wfull, wwin>>

\* finishMatch: DeleteActiveMatchForUsers.
ClearUsers(c) ==
    /\ wpc[c] = "clearUsers"
    /\ active' = [u \in Users |-> IF u \in Players(wid[c]) THEN NoMatch ELSE active[u]]
    /\ GotoW(c, "unlock")
    /\ UNCHANGED <<lock, match, board, resultVars, assignVars, wop, wid, wmatch, wnew, wfull, wwin>>

\* Fault: finishMatch returns without UnlockChunk.
ForgetUnlock(c) ==
    /\ wpc[c] = "unlock"
    /\ EndOperation(c)
    /\ UNCHANGED <<redisVars, resultVars, assignVars>>

\* finishMatch: UnlockChunk reads the lock.
ReadLock(c) ==
    /\ wpc[c] = "unlock"
    /\ IF lock[c] = wid[c]
       THEN GotoW(c, "delLock") /\ UNCHANGED <<wop, wid, wmatch, wnew, wfull, wwin>>
       ELSE EndOperation(c)
    /\ UNCHANGED <<redisVars, resultVars, assignVars>>

\* finishMatch: UnlockChunk deletes the key, and the operation responds.
DeleteLock(c) ==
    /\ wpc[c] = "delLock"
    /\ lock' = [lock EXCEPT ![c] = NoMatch]
    /\ EndOperation(c)
    /\ UNCHANGED <<match, active, board, resultVars, assignVars>>

\* A call of the operation returns an error (the client is gone, Redis, MySQL
\* or RabbitMQ fails), or the process stops: no later step happens.
OperationFails(c) ==
    /\ Faults
    /\ wpc[c] # "idle"
    /\ EndOperation(c)
    /\ Fail
    /\ UNCHANGED <<redisVars, resultVars, assignVars>>

WorkerStep(c) ==
    \/ CheckLock(c)
    \/ ReopenInWorker(c) \/ OpenNothing(c) \/ OpenAgain(c) \/ OpenMine(c) \/ OpenSafe(c)
    \/ ApplyNothing(c) \/ ApplyMine(c) \/ ApplyScore(c) \/ ApplyNoScore(c)
    \/ SaveScore(c) \/ SetRow(c) \/ Publish(c) \/ SaveFinished(c)
    \/ ClearUsers(c) \/ ReadLock(c) \/ DeleteLock(c)

-----------------------------------------------------------------------------
(* Reads of a chunk, outside its worker.  The worker's load and its store    *)
(* are one step.  What a reader stores between the two is overwritten, as if *)
(* its save had failed; when the worker stores nothing, it is as if the      *)
(* reader stored afterwards; and no assignment can tell, as a board that a   *)
(* reader has loaded is never clean.                                         *)

\* GetChunkSummary, GetChunkSnapshot or ListChunks loads a closed chunk.
LoadClosed(r, c) ==
    /\ board[c].closed
    /\ copy' = [copy EXCEPT ![r] = [chunk |-> c, opened |-> board[c].opened]]
    /\ UNCHANGED <<redisVars, raced>>

\* Fault: reopening gives the players a fresh board.
StoreAfresh(r) ==
    LET c == copy[r].chunk IN
    /\ copy[r] # NoCopy
    /\ raced[c] < MaxRaces /\ raced' = [raced EXCEPT ![c] = @ + 1]
    /\ board' = [board EXCEPT ![c] = [opened |-> [x \in Cells |-> Nobody], closed |-> FALSE]]
    /\ copy' = [copy EXCEPT ![r] = NoCopy]
    /\ UNCHANGED <<lock, match, active>>

\* reopenExpiredChunk: the closure it has loaded is over, and the whole copy is
\* stored, reopened, whatever the worker has stored since.
StoreReopened(r) ==
    LET c == copy[r].chunk IN
    /\ copy[r] # NoCopy
    /\ board' = [board EXCEPT ![c] = [opened |-> copy[r].opened, closed |-> FALSE]]
    /\ IF copy[r].opened = board[c].opened THEN UNCHANGED raced
       ELSE raced[c] < MaxRaces /\ raced' = [raced EXCEPT ![c] = @ + 1]
    /\ copy' = [copy EXCEPT ![r] = NoCopy]
    /\ UNCHANGED <<lock, match, active>>

\* The closure is not over, or the save or the request fails.
EndRead(r) ==
    /\ copy[r] # NoCopy
    /\ copy' = [copy EXCEPT ![r] = NoCopy]
    /\ UNCHANGED <<redisVars, raced>>

ReaderStep(r) ==
    /\ (\E c \in Chunks : LoadClosed(r, c)) \/ StoreReopened(r) \/ EndRead(r)
    /\ UNCHANGED <<resultVars, assignVars, workerVars, postVars>>

-----------------------------------------------------------------------------
(* POST /match/result: SetMatchResult, once Join has made the match.  A call *)
(* that fails in between just does not go on.                                *)

PostRow(m, t) ==
    /\ apc[m] # "none"
    /\ posted[m] < MaxPosts
    /\ posted' = [posted EXCEPT ![m] = @ + 1]
    /\ row' = [row EXCEPT ![m] = t]
    /\ posts' = posts \union {[match |-> m, winner |-> t]}
    /\ UNCHANGED settled

PostEvent(p) ==
    /\ settled' = [settled EXCEPT ![p.match] = IF @ = NoTeam THEN p.winner ELSE @]
    /\ posts' = posts \ {p}
    /\ UNCHANGED <<row, posted>>

PostStep ==
    /\ \/ \E m \in Matches, t \in Winners : PostRow(m, t)
       \/ \E p \in posts : PostEvent(p)
    /\ UNCHANGED <<redisVars, assignVars, workerVars, readerVars>>

-----------------------------------------------------------------------------
(* The system *)

Next ==
    \/ /\ \/ \E m \in Matches : AssignStep(m)
          \/ \E c \in Chunks, op \in Operations : Authorize(c, op)
          \/ \E c \in Chunks : WorkerStep(c)
       /\ UNCHANGED <<readerVars, postVars, trouble>>
    \/ /\ \/ \E m \in Matches : AssignFails(m) \/ ReplyLost(m)
          \/ \E c \in Chunks : OperationFails(c)
       /\ UNCHANGED <<readerVars, postVars>>
    \/ PostStep /\ UNCHANGED trouble
    \/ \E r \in Readers : ReaderStep(r) /\ UNCHANGED trouble

Spec == Init /\ [][Next]_vars

-----------------------------------------------------------------------------
(* Safety *)

Ongoing(m) == match[m] # NoState /\ match[m].status = "ongoing"

\* Match m is being played: it is ongoing, and a player's key points to it.
Played(m) == Ongoing(m) /\ \E u \in Players(m) : active[u] = m

\* Two matches are never played in one chunk, however their assignments, ends
\* and unlocks interleave and fail, as long as no failed write has taken effect
\* unseen (lines 170-212, 299-323; UnlockChunk 117-134).
ChunkExclusive ==
    trouble # "lostReply" =>
        \A m, n \in Matches :
            m # n /\ Played(m) /\ Played(n) => match[m].chunk # match[n].chunk

\* A player's score never exceeds the cells the player opened in the match's
\* chunk: no cell is counted twice, whatever fails between the board, the score
\* and the result.  In a match that goes on after its end has failed, cells that
\* a reader's old copy has closed again may be (lines 119-168, chunk_service.go
\* 746-751); without failures nothing a match has counted is ever closed again.
ScoreEarned ==
    \A m \in Matches :
        match[m] # NoState /\ (trouble = "none" \/ raced[match[m].chunk] = 0) =>
            \A u \in Users : match[m].score[u] <= Cardinality(OpenedBy(match[m].chunk, u))

\* The users with cells in the match's chunk that its scores do not count.
Uncounted(m) ==
    {u \in Users : match[m].score[u] # Cardinality(OpenedBy(match[m].chunk, u))}

\* Without failures and between operations, the scores of a match count every
\* cell opened in its chunk, except those of one operation: the one authorized
\* before the lock and stored after the second isCleanChunk (lines 191-209,
\* chunk_service.go 294-375).
OneUncounted ==
    trouble = "none" => \A m \in Matches :
        Played(m) /\ wpc[match[m].chunk] = "idle" => Cardinality(Uncounted(m)) <= 1

\* Without failures, a chunk stays locked only for a match that is being
\* assigned, is played, or whose end is in progress (lines 80-90, 315-319).
LockNotLeaked ==
    trouble = "none" => \A c \in Chunks : lock[c] # NoMatch =>
        \/ apc[lock[c]] \notin {"assigned", "failed"}
        \/ Played(lock[c])
        \/ wid[c] = lock[c]

\* A finished match has a published result, however many attempts to finish it
\* failed and whatever was posted; unless a result was posted, its state and its
\* row name the same winner, and without failures the rating is settled for that
\* one (lines 299-323, match_service.go 66-97).  After a failure the match may go
\* on and end with the other winner, whose event the rank worker drops, and so is
\* the event of the match if a posted one came first: SettlementFinal of
\* RankSettlement.
ResultRecorded ==
    \A m \in Matches : match[m] # NoState /\ match[m].status = "finished" =>
        /\ settled[m] # NoTeam
        /\ posted[m] = 0 => match[m].winner = row[m]
        /\ posted[m] = 0 /\ trouble = "none" => settled[m] = row[m]

=============================================================================
