--------------------------- MODULE MineMatchProofs ---------------------------
(***************************************************************************)
(* Proofs about MineMatch, for any users, matches and boards: two matches  *)
(* are never played in one chunk unless a failed write took effect, scores *)
(* are earned until a reader's old copy closes cells again, a finished     *)
(* match shows the recorded winner unless another was posted, and without  *)
(* failures no lock is left behind, no old copy touches a match that is    *)
(* played, and the scores leave out the cells of one user at most.         *)
(***************************************************************************)
EXTENDS MineMatch, TLAPS, FiniteSetTheorems

\* Control of an operation that has found its match, and the parts of finishMatch
\* before and after the finished match is saved.
Ending   == {"setRow", "publish", "saveFinished"}
Ended    == {"clearUsers", "unlock", "delLock"}
Applying == {"saveScore"} \union Ending \union Ended

\* Control of an assignment without a saved match, and with the lock.
Unsaved  == {"none", "search", "tryLock", "recheck", "dirty", "delDirty", "save"}
Locking  == {"recheck", "dirty", "delDirty", "save", "activate", "abandon", "delAbandoned"}

\* A worker has the chunk's own match while it applies an operation to it, and
\* none otherwise; the match is ongoing until its end is saved.
WorkerInv ==
    \A c \in Chunks :
        /\ wpc[c] # "idle" => wop[c] \in Operations
        /\ wpc[c] \in {"idle", "checkLock", "authorized"} => wnew[c] = 0
        /\ wpc[c] \notin Applying => wid[c] = NoMatch
        /\ wpc[c] \in Applying =>
            /\ wid[c] \in Matches
            /\ match[wid[c]] # NoState /\ match[wid[c]].chunk = c
            /\ wmatch[c] # NoState /\ wmatch[c].chunk = c /\ wmatch[c].status = "ongoing"
            /\ match[wid[c]].status = IF wpc[c] \in Ended THEN "finished" ELSE "ongoing"
        /\ wpc[c] \in Ending => wwin[c] \in Teams

\* An assignment saves its match once.
AssignInv ==
    \A m \in Matches :
        /\ apc[m] \in Unsaved => match[m] = NoState
        /\ apc[m] \in Locking \union {"tryLock", "assigned"} => achunk[m] \in Chunks

\* The scores of the matches of a chunk are earned.
Earned(c) ==
    \A m \in Matches : match[m] # NoState /\ match[m].chunk = c =>
        \A u \in Users : match[m].score[u] <= Cardinality(OpenedBy(c, u))

\* Until cells of a chunk are closed again, its scores are earned, and so are the cells
\* that an operation has opened and not scored.
ScoreInv ==
    \A c \in Chunks : raced[c] = 0 =>
        /\ Earned(c)
        /\ wpc[c] = "apply" =>
            LET u == wop[c].user IN
            /\ wnew[c] <= Cardinality(OpenedBy(c, u))
            /\ \A m \in Matches : match[m] # NoState /\ match[m].chunk = c =>
                match[m].score[u] + wnew[c] <= Cardinality(OpenedBy(c, u))
        /\ wpc[c] \in Applying =>
            \A u \in Users : wmatch[c].score[u] <= Cardinality(OpenedBy(c, u))

\* The row has the winner before the finished match is saved with it, unless another
\* was posted, and an event was published; without failures with the same winner.
ResultInv ==
    /\ ResultRecorded
    /\ \A p \in posts : posted[p.match] # 0
    /\ \A c \in Chunks :
        /\ wpc[c] \in {"publish", "saveFinished"} /\ posted[wid[c]] = 0 => row[wid[c]] = wwin[c]
        /\ wpc[c] = "saveFinished" =>
            /\ settled[wid[c]] # NoTeam
            /\ trouble = "none" /\ posted[wid[c]] = 0 => settled[wid[c]] = wwin[c]
    /\ trouble = "none" =>
        \A m \in Matches : settled[m] # NoTeam /\ posted[m] = 0 =>
            /\ match[m] # NoState
            /\ \/ match[m].status = "finished"
               \/ \E c \in Chunks : wpc[c] = "saveFinished" /\ wid[c] = m

\* As long as no failed write took effect: matches that are made or played share
\* no player, keys point to assigned matches, and an assignment, an ongoing match,
\* and an unlock at its last step hold the lock of their chunk.
LockInv ==
    trouble # "lostReply" =>
        /\ \A m, n \in Matches :
            apc[m] \notin {"none", "failed"} /\ apc[n] \notin {"none", "failed"} /\ m # n =>
                Players(m) \cap Players(n) = {}
        /\ \A u \in Users : active[u] # NoMatch => apc[active[u]] = "assigned"
        /\ \A m \in Matches :
            /\ apc[m] \in Locking => lock[achunk[m]] = m
            /\ apc[m] = "activate" => match[m] = NewMatch(achunk[m])
            /\ apc[m] = "assigned" =>
                /\ match[m] # NoState /\ match[m].chunk = achunk[m]
                /\ match[m].status = "ongoing" =>
                    /\ lock[achunk[m]] = m
                    /\ \A u \in Players(m) : active[u] = m
        /\ \A c \in Chunks :
            /\ wpc[c] \in Applying => apc[wid[c]] = "assigned"
            /\ wpc[c] = "delLock" => lock[c] = wid[c]

\* Without failures a lock belongs to an assignment, to an ongoing match, or to the
\* operation that ends it.
LeakInv ==
    trouble = "none" =>
        \A c \in Chunks : lock[c] # NoMatch =>
            LET m == lock[c] IN
            /\ achunk[m] = c
            /\ \/ apc[m] \in Locking
               \/ apc[m] = "assigned" /\ match[m].status = "ongoing"
               \/ apc[m] = "assigned" /\ wpc[c] \in Ended /\ wid[c] = m

MatchInv == TypeOK /\ WorkerInv /\ AssignInv /\ ScoreInv /\ ResultInv /\ LockInv /\ LeakInv

-----------------------------------------------------------------------------
(* Data *)

\* Counting the cells of a player.
LEMMA CellCounts ==
    ASSUME NEW S, S \subseteq Cells
    PROVE  /\ IsFiniteSet(S)
           /\ Cardinality(S) \in Nat /\ Cardinality(Cells) \in Nat
           /\ Cardinality(S) <= Cardinality(Cells)
  BY FS_Subset, FS_CardinalityType, MatchAssumption

\* Opening cells of nobody's adds their number to the player's cells.
LEMMA CountOpened ==
    ASSUME NEW S, NEW T, S \subseteq Cells, T \subseteq Cells, S \cap T = {}
    PROVE  Cardinality(S \union T) = Cardinality(S) + Cardinality(T)
  BY FS_Union, FS_EmptySet, CellCounts

\* The winner of a match is one of the two teams.
LEMMA WinnersAreTeams ==
    ASSUME NEW m \in Matches
    PROVE  /\ \A u \in Users : Opponent(m, u) \in Teams
           /\ \A st \in MatchStates : ScoreWinner(m, st) \in Teams
<1>1. \A u : \E t \in Teams : t # TeamOf[m][u]
  BY DEF Teams
<1>2. \A u : Opponent(m, u) \in Teams
  BY <1>1 DEF Opponent
<1>3. ASSUME NEW st \in MatchStates PROVE ScoreWinner(m, st) \in Teams
  BY <1>2 DEF ScoreWinner, Teams
<1>4. QED
  BY <1>2, <1>3

\* A new match is well formed.
LEMMA NewMatchType ==
    ASSUME NEW c \in Chunks
    PROVE  /\ NewMatch(c) \in MatchStates /\ NewMatch(c) # NoState
           /\ NewMatch(c).chunk = c /\ NewMatch(c).status = "ongoing"
           /\ \A u \in Users : NewMatch(c).score[u] = 0
<1>1. [u \in Users |-> 0] \in [Users -> Nat]
  OBVIOUS
<1>2. NewMatch(c) \in MatchStates
  BY <1>1 DEF NewMatch, MatchStates
<1>3. QED
  BY <1>2, NoStateAssumption DEF NewMatch

\* The match an operation applies to is ongoing, is played in this chunk, and is
\* what the key of the user points to.
LEMMA Applied ==
    ASSUME MatchInv, NEW c \in Chunks, AppliesTo(c) # NoMatch, wpc[c] = "apply"
    PROVE  LET m == AppliesTo(c) IN
           /\ m \in Matches
           /\ wop[c].user \in Users
           /\ active[wop[c].user] = m
           /\ match[m] \in MatchStates /\ match[m] # NoState
           /\ match[m].status = "ongoing"
           /\ match[m].chunk = c
<1>1. wop[c].user \in Users
  BY DEF MatchInv, WorkerInv, Operations
<1>2. QED
  BY <1>1 DEF MatchInv, TypeOK, AppliesTo, ActiveMatch

-----------------------------------------------------------------------------
(* Steps of an assignment *)

\* What a step of a match or a worker leaves alone, and what it may do to the failures
\* so far.
Others == UNCHANGED <<readerVars, postVars>>
Quiet  == Others /\ UNCHANGED trouble
Worse ==
    /\ Others
    /\ trouble' \in {"none", "failure", "lostReply"}
    /\ trouble' = "none" => trouble = "none"
    /\ trouble' # "lostReply" => trouble # "lostReply"

\* The invariant holds when no match has been made.
LEMMA InitMatch == Init => MatchInv
<1> SUFFICES ASSUME Init PROVE MatchInv
  OBVIOUS
<1>1. TypeOK
  BY CellCounts, MatchAssumption DEF Init, TypeOK, Boards, AssignControl, WorkerControl
<1>2. QED
  BY <1>1
  DEF Init, MatchInv, WorkerInv, AssignInv, ScoreInv, Earned, ResultInv, ResultRecorded,
      LockInv, LeakInv, Applying, Ending, Ended, Unsaved, Locking

\* An assignment that only moves on changes nothing the workers' parts speak of.
LEMMA AssignFrame ==
    ASSUME MatchInv, Worse, UNCHANGED <<redisVars, resultVars, workerVars>>
    PROVE  WorkerInv' /\ ScoreInv' /\ ResultInv'
<1> USE DEF MatchInv, redisVars, resultVars, workerVars, readerVars, postVars, Worse, Others
<1>1. WorkerInv'
  BY DEF WorkerInv
<1>2. ScoreInv'
  BY DEF ScoreInv, Earned, OpenedBy
<1>3. ResultInv'
  BY DEF ResultInv, ResultRecorded, Worse
<1>4. QED
  BY <1>1, <1>2, <1>3

\* A match starts when its players are free; it tries chunks, and gives up when
\* none is left.
LEMMA SearchKeeps ==
    ASSUME MatchInv, Worse, NEW m \in Matches,
           StartMatch(m) \/ (\E c \in Chunks : TryChunk(m, c)) \/ NoChunkLeft(m)
    PROVE  MatchInv'
<1> USE DEF MatchInv
<1>1. /\ UNCHANGED <<redisVars, resultVars, workerVars>>
      /\ apc[m] \in {"none", "search"}
      /\ \E p \in {"search", "tryLock", "failed"} : apc' = [apc EXCEPT ![m] = p]
      /\ apc[m] = "none" =>
            \A o \in Matches : apc[o] \notin {"none", "failed"} => Players(o) \cap Players(m) = {}
      /\ \/ achunk' = achunk /\ apc'[m] # "tryLock"
         \/ \E c \in Chunks : achunk' = [achunk EXCEPT ![m] = c]
      /\ atodo' \in [Matches -> SUBSET Chunks]
  <2>1. CASE StartMatch(m)
    BY <2>1 DEF StartMatch, Goto, TypeOK
  <2>2. ASSUME NEW c \in Chunks, TryChunk(m, c)
        PROVE  <1>1!:
    BY <2>2 DEF TryChunk, Goto, TypeOK
  <2>3. CASE NoChunkLeft(m)
    BY <2>3 DEF NoChunkLeft, Goto, TypeOK
  <2>4. QED
    BY <2>1, <2>2, <2>3
<1>2. WorkerInv' /\ ScoreInv' /\ ResultInv'
  BY <1>1, AssignFrame
<1> USE DEF redisVars, resultVars, workerVars, readerVars, postVars, Others
<1>3. TypeOK'
  <2>1. apc' \in [Matches -> AssignControl]
    <3>1. apc \in [Matches -> AssignControl]
      BY DEF TypeOK
    <3>2. QED
      BY ONLY <1>1, <3>1, m \in Matches DEF AssignControl
  <2>2. achunk' \in [Matches -> Chunks \union {NoChunk}]
    <3>1. achunk \in [Matches -> Chunks \union {NoChunk}]
      BY DEF TypeOK
    <3>2. QED
      BY ONLY <1>1, <3>1, m \in Matches
  <2>3. QED
    BY <1>1, <2>1, <2>2 DEF TypeOK, Worse
<1>4. AssignInv'
  BY <1>1 DEF AssignInv, TypeOK, Unsaved, Locking
<1>5. LockInv'
  BY <1>1 DEF LockInv, TypeOK, Worse, Locking
<1>6. LeakInv'
  BY <1>1 DEF LeakInv, TypeOK, Worse, Locking
<1>7. QED
  BY <1>2, <1>3, <1>4, <1>5, <1>6

\* The second look at the chunk, a look at the lock, and a call that fails.
LEMMA LookKeeps ==
    ASSUME MatchInv, Worse, NEW m \in Matches,
           (Recheck(m) /\ UNCHANGED trouble) \/ (ReadOwnLock(m) /\ UNCHANGED trouble) \/ AssignFails(m)
    PROVE  MatchInv'
<1> USE DEF MatchInv
<1>1. /\ UNCHANGED <<redisVars, resultVars, workerVars, achunk, atodo>>
      /\ \E p \in AssignControl :
            /\ apc' = [apc EXCEPT ![m] = p]
            /\ p \in Unsaved => apc[m] \in Unsaved
            /\ apc[m] \notin {"none", "failed"}
            /\ apc[m] # "assigned"
            /\ p \notin {"tryLock", "activate", "assigned"}
            /\ p \in Locking => apc[m] \in Locking
            /\ p \notin Locking => lock[achunk[m]] # m \/ trouble' # "none" \/ apc[m] \notin Locking
  <2>1. CASE Recheck(m) /\ UNCHANGED trouble
    BY <2>1 DEF Recheck, Goto, TypeOK, AssignControl, Locking, Unsaved
  <2>2. CASE ReadOwnLock(m) /\ UNCHANGED trouble
    BY <2>2 DEF ReadOwnLock, Goto, TypeOK, AssignControl, Locking, Unsaved
  <2>3. CASE AssignFails(m)
    <3>1. trouble' # "none"
      BY <2>3 DEF AssignFails, Fail
    <3>2. QED
      BY <2>3, <3>1 DEF AssignFails, Goto, TypeOK, AssignControl, Locking, Unsaved
  <2>4. QED
    BY <2>1, <2>2, <2>3
<1>2. WorkerInv' /\ ScoreInv' /\ ResultInv'
  BY <1>1, AssignFrame
<1> USE DEF redisVars, resultVars, workerVars, readerVars, postVars, Others
<1>3. TypeOK'
  BY <1>1 DEF TypeOK, Worse
<1>4. AssignInv'
  BY <1>1 DEF AssignInv, TypeOK
<1>5. LockInv'
  BY <1>1 DEF LockInv, TypeOK, Worse
<1>6. LeakInv'
  BY <1>1 DEF LeakInv, TypeOK, Worse
<1>7. QED
  BY <1>2, <1>3, <1>4, <1>5, <1>6

\* A lock is taken only when it is free.
LEMMA TryLockKeeps ==
    ASSUME MatchInv, NEW m \in Matches, TryLock(m), Quiet
    PROVE  MatchInv'
<1> USE DEF MatchInv
<1>1. /\ UNCHANGED <<match, active, board, resultVars, achunk, atodo, workerVars>>
      /\ apc[m] = "tryLock" /\ achunk[m] \in Chunks
      /\ \/ /\ lock[achunk[m]] = NoMatch
            /\ lock' = [lock EXCEPT ![achunk[m]] = m]
            /\ apc' = [apc EXCEPT ![m] = "recheck"]
         \/ lock' = lock /\ apc' = [apc EXCEPT ![m] = "search"]
  BY DEF TryLock, Goto, AssignInv
<1> USE DEF resultVars, workerVars, readerVars, postVars, Quiet, Others
<1>2. WorkerInv' /\ ResultInv'
  BY <1>1 DEF WorkerInv, ResultInv, ResultRecorded
<1>3. ScoreInv'
  BY <1>1 DEF ScoreInv, Earned, OpenedBy
<1>4. TypeOK'
  <2>1. lock' \in [Chunks -> Matches \union {NoMatch}]
    <3>1. lock \in [Chunks -> Matches \union {NoMatch}]
      BY DEF TypeOK
    <3>2. QED
      BY ONLY <1>1, <3>1, m \in Matches
  <2>2. apc' \in [Matches -> AssignControl]
    <3>1. apc \in [Matches -> AssignControl]
      BY DEF TypeOK
    <3>2. QED
      BY ONLY <1>1, <3>1, m \in Matches DEF AssignControl
  <2>3. QED
    BY <1>1, <2>1, <2>2 DEF TypeOK
<1>5. AssignInv'
  BY <1>1 DEF AssignInv, TypeOK, Unsaved, Locking
<1>6. LockInv'
  <2>1. \A c \in Chunks : wpc[c] = "delLock" => wid[c] \in Matches
    BY DEF WorkerInv, Applying, Ended
  <2>2. CASE lock' = lock /\ apc' = [apc EXCEPT ![m] = "search"]
    BY <1>1, <2>2 DEF LockInv, TypeOK, Locking
  <2>3. CASE /\ lock[achunk[m]] = NoMatch
             /\ lock' = [lock EXCEPT ![achunk[m]] = m]
             /\ apc' = [apc EXCEPT ![m] = "recheck"]
    <3>1. \A c \in Chunks : lock[c] # NoMatch => lock'[c] = lock[c]
      BY <1>1, <2>3 DEF TypeOK
    <3>2. lock'[achunk[m]] = m
      BY <1>1, <2>3 DEF TypeOK
    <3>3. \A o \in Matches : o # m => apc'[o] = apc[o]
      BY <2>3 DEF TypeOK
    <3>4. apc'[m] = "recheck"
      BY <2>3 DEF TypeOK
    <3>5. \A o \in Matches : apc[o] \in Locking \union {"assigned"} => achunk[o] \in Chunks
      BY DEF AssignInv
    <3>6. \A c \in Chunks : wpc[c] \in Applying => wid[c] \in Matches
      BY DEF WorkerInv
    <3>7. \A u \in Users : active[u] # NoMatch => active[u] \in Matches
      BY DEF TypeOK
    <3> HIDE DEF MatchInv
    <3>8. LockInv
      BY DEF MatchInv
    <3>9. QED
      BY <1>1, <2>1, <3>1, <3>2, <3>3, <3>4, <3>5, <3>6, <3>7, <3>8, NullAssumption
      DEF LockInv, Locking
  <2>4. QED
    BY <1>1, <2>2, <2>3
<1>7. LeakInv'
  BY <1>1 DEF LeakInv, TypeOK, Locking
<1>8. QED
  BY <1>2, <1>3, <1>4, <1>5, <1>6, <1>7

\* A new match has no score, and its chunk is locked for it.
LEMMA SaveNewKeeps ==
    ASSUME MatchInv, NEW m \in Matches, SaveNewMatch(m), Quiet
    PROVE  MatchInv'
<1> USE DEF MatchInv
<1> DEFINE new == NewMatch(achunk[m])
<1>1. /\ UNCHANGED <<lock, active, board, resultVars, achunk, atodo, workerVars>>
      /\ apc[m] = "save" /\ achunk[m] \in Chunks /\ match[m] = NoState
      /\ match' = [match EXCEPT ![m] = new]
      /\ apc' = [apc EXCEPT ![m] = "activate"]
  BY DEF SaveNewMatch, Goto, AssignInv, Unsaved, Locking
<1>2. /\ new \in MatchStates /\ new # NoState /\ new.chunk = achunk[m] /\ new.status = "ongoing"
      /\ \A u \in Users : new.score[u] = 0
  BY <1>1, NewMatchType
<1> HIDE DEF new
<1> USE DEF resultVars, workerVars, readerVars, postVars, Quiet, Others
<1>3. TypeOK'
  BY <1>1, <1>2 DEF TypeOK, AssignControl
<1>4. WorkerInv'
  BY <1>1, <1>2 DEF WorkerInv, TypeOK
<1>5. AssignInv'
  BY <1>1, <1>2 DEF AssignInv, TypeOK, Unsaved, Locking
<1>6. ScoreInv'
  <2>1. \A c \in Chunks, u \in Users : Cardinality(OpenedBy(c, u)) \in Nat
    BY CellCounts DEF OpenedBy
  <2>2. \A c \in Chunks, u \in Users : OpenedBy(c, u)' = OpenedBy(c, u)
    BY <1>1 DEF OpenedBy
  <2>3. \A c \in Chunks : wpc[c] = "apply" => wop[c].user \in Users /\ wnew[c] \in Nat
    BY DEF WorkerInv, Operations, TypeOK
  <2>4. \A c \in Chunks : raced[c] = 0 => Earned(c)'
    BY <1>1, <1>2, <2>1, <2>2 DEF ScoreInv, Earned, TypeOK, MatchStates
  <2>5. QED
    BY <1>1, <1>2, <2>1, <2>2, <2>3, <2>4 DEF ScoreInv, TypeOK
<1>7. ResultInv'
  BY <1>1, <1>2 DEF ResultInv, ResultRecorded, TypeOK
<1>8. LockInv'
  BY <1>1, <1>2 DEF LockInv, TypeOK, Locking, new
<1>9. LeakInv'
  BY <1>1, <1>2 DEF LeakInv, TypeOK, Locking
<1>10. QED
  BY <1>3, <1>4, <1>5, <1>6, <1>7, <1>8, <1>9

\* The keys of the players are set to their match.
LEMMA ActivateKeeps ==
    ASSUME MatchInv, NEW m \in Matches, Activate(m), Quiet
    PROVE  MatchInv'
<1> USE DEF MatchInv
<1>1. /\ UNCHANGED <<lock, match, board, resultVars, achunk, atodo, workerVars>>
      /\ apc[m] = "activate" /\ achunk[m] \in Chunks
      /\ active' = [u \in Users |-> IF u \in Players(m) THEN m ELSE active[u]]
      /\ apc' = [apc EXCEPT ![m] = "assigned"]
  BY DEF Activate, SetActive, Goto, AssignInv, Locking
<1> USE DEF resultVars, workerVars, readerVars, postVars, Quiet, Others
<1>2. WorkerInv' /\ ResultInv'
  BY <1>1 DEF WorkerInv, ResultInv, ResultRecorded
<1>3. ScoreInv'
  BY <1>1 DEF ScoreInv, Earned, OpenedBy
<1>4. TypeOK'
  BY <1>1 DEF TypeOK, AssignControl
<1>5. AssignInv'
  BY <1>1 DEF AssignInv, TypeOK, Unsaved, Locking
<1>6. trouble # "lostReply" =>
        /\ match[m] # NoState /\ match[m].chunk = achunk[m] /\ match[m].status = "ongoing"
        /\ lock[achunk[m]] = m
  BY <1>1, NewMatchType DEF LockInv, Locking
<1>7. LockInv'
  <2> SUFFICES ASSUME trouble # "lostReply" PROVE LockInv'
    BY <1>1 DEF LockInv
  <2>1. \A u \in Players(m) : u \in Users
    BY DEF Players
  <2>2. \A o, n \in Matches :
            apc'[o] \notin {"none", "failed"} /\ apc'[n] \notin {"none", "failed"} /\ o # n =>
                Players(o) \cap Players(n) = {}
    BY <1>1 DEF LockInv, TypeOK
  <2>3. \A u \in Users : active'[u] # NoMatch => apc'[active'[u]] = "assigned"
    BY <1>1 DEF LockInv, TypeOK
  <2>4. ASSUME NEW o \in Matches, apc'[o] = "assigned", match[o].status = "ongoing"
        PROVE  \A u \in Players(o) : active'[u] = o
    <3>1. CASE o = m
      BY <1>1, <2>1, <3>1
    <3>2. CASE o # m
      <4>1. apc[o] = "assigned"
        BY <1>1, <2>4, <3>2 DEF TypeOK
      <4>2. \A u \in Players(o) : active[u] = o /\ u \notin Players(m) /\ u \in Users
        BY <1>1, <2>4, <3>2, <4>1 DEF LockInv, Players
      <4>3. QED
        BY <1>1, <4>2
    <3>3. QED
      BY <3>1, <3>2
  <2>5. QED
    BY <1>1, <1>6, <2>2, <2>3, <2>4 DEF LockInv, TypeOK, Locking
<1>8. LeakInv'
  BY <1>1, <1>6 DEF LeakInv, TypeOK, Locking
<1>9. QED
  BY <1>2, <1>3, <1>4, <1>5, <1>7, <1>8

\* UnlockChunk deletes the lock of the assignment itself.
LEMMA DeleteOwnKeeps ==
    ASSUME MatchInv, NEW m \in Matches, DeleteOwnLock(m), Quiet
    PROVE  MatchInv'
<1> USE DEF MatchInv
<1>1. /\ UNCHANGED <<match, active, board, resultVars, achunk, atodo, workerVars>>
      /\ apc[m] \in {"delDirty", "delAbandoned"} /\ achunk[m] \in Chunks
      /\ lock' = [lock EXCEPT ![achunk[m]] = NoMatch]
      /\ apc' = [apc EXCEPT ![m] = IF apc[m] = "delDirty" THEN "search" ELSE "failed"]
  BY DEF DeleteOwnLock, Goto, AssignInv, Locking
<1> USE DEF resultVars, workerVars, readerVars, postVars, Quiet, Others
<1>2. WorkerInv' /\ ResultInv'
  BY <1>1 DEF WorkerInv, ResultInv, ResultRecorded
<1>3. ScoreInv'
  BY <1>1 DEF ScoreInv, Earned, OpenedBy
<1>4. TypeOK'
  BY <1>1 DEF TypeOK, AssignControl
<1>5. AssignInv'
  BY <1>1 DEF AssignInv, TypeOK, Unsaved, Locking
<1>6. LockInv'
  BY <1>1, NullAssumption DEF LockInv, TypeOK, Locking, WorkerInv, Applying, Ended
<1>7. LeakInv'
  BY <1>1 DEF LeakInv, TypeOK, Locking
<1>8. QED
  BY <1>2, <1>3, <1>4, <1>5, <1>6, <1>7

\* A write whose reply is lost leaves what does not depend on replies.
LEMMA ReplyLostKeeps ==
    ASSUME MatchInv, NEW m \in Matches, ReplyLost(m), Others
    PROVE  MatchInv'
<1> USE DEF MatchInv
<1>1. /\ UNCHANGED <<match, board, resultVars, achunk, atodo, workerVars>>
      /\ trouble' = "lostReply"
      /\ \/ /\ apc[m] = "tryLock" /\ active' = active
            /\ lock' = [lock EXCEPT ![achunk[m]] = m]
            /\ apc' = [apc EXCEPT ![m] = "failed"]
         \/ /\ apc[m] = "activate" /\ lock' = lock
            /\ active' = [u \in Users |-> IF u \in Players(m) THEN m ELSE active[u]]
            /\ apc' = [apc EXCEPT ![m] = "abandon"]
  BY DEF ReplyLost, SetActive, Goto
<1> USE DEF resultVars, workerVars, readerVars, postVars, Quiet, Others
<1>2. WorkerInv' /\ ResultInv'
  <2> HIDE DEF MatchInv
  <2>1. UNCHANGED <<wpc, wop, wid, wmatch, wnew, wwin, match, row, settled, posts, posted>>
    BY <1>1
  <2>2. trouble' = "lostReply"
    BY <1>1
  <2>3. WorkerInv /\ ResultInv
    BY DEF MatchInv
  <2>4. WorkerInv'
    BY <2>1, <2>3 DEF WorkerInv
  <2>5. ResultInv'
    BY <2>1, <2>2, <2>3 DEF ResultInv, ResultRecorded
  <2>6. QED
    BY <2>4, <2>5
<1>3. ScoreInv'
  BY <1>1 DEF ScoreInv, Earned, OpenedBy
<1>4. TypeOK'
  <2>1. /\ lock' \in [Chunks -> Matches \union {NoMatch}]
        /\ active' \in [Users -> Matches \union {NoMatch}]
        /\ apc' \in [Matches -> AssignControl]
    BY <1>1 DEF TypeOK, AssignControl
  <2>2. trouble' \in {"none", "failure", "lostReply"}
    BY <1>1
  <2>3. TypeOK
    OBVIOUS
  <2> HIDE DEF MatchInv
  <2>4. QED
    BY <1>1, <2>1, <2>2, <2>3 DEF TypeOK
<1>5. AssignInv'
  BY <1>1 DEF AssignInv, TypeOK, Unsaved, Locking
<1>6. LockInv' /\ LeakInv'
  BY <1>1 DEF LockInv, LeakInv
<1>7. QED
  BY <1>2, <1>3, <1>4, <1>5, <1>6

-----------------------------------------------------------------------------
(* Steps of an operation *)

\* When an operation ends, its worker holds nothing.
LEMMA EndTypes ==
    ASSUME TypeOK, NEW c \in Chunks, EndOperation(c)
    PROVE  /\ wpc' \in [Chunks -> WorkerControl]
           /\ wop' \in [Chunks -> Operations \union {NoOp}]
           /\ wid' \in [Chunks -> Matches \union {NoMatch}]
           /\ wmatch' \in [Chunks -> MatchStates \union {NoState}]
           /\ wnew' \in [Chunks -> 0 .. Cardinality(Cells)]
           /\ wfull' \in [Chunks -> BOOLEAN]
           /\ wwin' \in [Chunks -> Teams \union {NoTeam}]
<1>1. 0 \in 0 .. Cardinality(Cells)
  BY CellCounts
<1>2. /\ wpc' \in [Chunks -> WorkerControl]
      /\ wop' \in [Chunks -> Operations \union {NoOp}]
      /\ wid' \in [Chunks -> Matches \union {NoMatch}]
  BY DEF TypeOK, EndOperation, WorkerControl
<1>3. /\ wmatch' \in [Chunks -> MatchStates \union {NoState}]
      /\ wnew' \in [Chunks -> 0 .. Cardinality(Cells)]
      /\ wfull' \in [Chunks -> BOOLEAN]
      /\ wwin' \in [Chunks -> Teams \union {NoTeam}]
  BY <1>1 DEF TypeOK, EndOperation
<1>4. QED
  BY <1>2, <1>3

\* It takes neither cells nor scores with it.
LEMMA EndScores ==
    ASSUME MatchInv, NEW c \in Chunks, EndOperation(c), UNCHANGED <<match, board, raced>>
    PROVE  ScoreInv'
<1>1. /\ wpc'[c] = "idle"
      /\ \A d \in Chunks : d # c =>
            wpc'[d] = wpc[d] /\ wop'[d] = wop[d] /\ wmatch'[d] = wmatch[d] /\ wnew'[d] = wnew[d]
  BY DEF MatchInv, TypeOK, EndOperation
<1>2. \A d, u : OpenedBy(d, u)' = OpenedBy(d, u)
  BY DEF OpenedBy
<1>3. ASSUME NEW d \in Chunks, raced[d] = 0 PROVE Earned(d)'
  BY <1>2, <1>3 DEF MatchInv, ScoreInv, Earned
<1>4. ASSUME NEW d \in Chunks, raced[d] = 0, wpc'[d] = "apply", NEW u, u = wop'[d].user
      PROVE  /\ wnew'[d] <= Cardinality(OpenedBy(d, u)')
             /\ \A m \in Matches : match'[m] # NoState /\ match'[m].chunk = d =>
                 match'[m].score[u] + wnew'[d] <= Cardinality(OpenedBy(d, u)')
  <2>1. wpc[d] = "apply" /\ wop'[d] = wop[d] /\ wnew'[d] = wnew[d]
    BY <1>1, <1>4
  <2>2. /\ wnew[d] <= Cardinality(OpenedBy(d, u))
        /\ \A m \in Matches : match[m] # NoState /\ match[m].chunk = d =>
            match[m].score[u] + wnew[d] <= Cardinality(OpenedBy(d, u))
    BY <1>4, <2>1 DEF MatchInv, ScoreInv
  <2>3. OpenedBy(d, u)' = OpenedBy(d, u)
    BY <1>2
  <2>4. QED
    BY <2>1, <2>2, <2>3
<1>5. ASSUME NEW d \in Chunks, raced[d] = 0, wpc'[d] \in Applying
      PROVE  \A u \in Users : wmatch'[d].score[u] <= Cardinality(OpenedBy(d, u)')
  <2>1. wpc[d] \in Applying /\ wmatch'[d] = wmatch[d]
    BY <1>1, <1>5 DEF Applying, Ending, Ended
  <2>2. \A u \in Users : wmatch[d].score[u] <= Cardinality(OpenedBy(d, u))
    BY <1>5, <2>1 DEF MatchInv, ScoreInv
  <2>3. QED
    BY <1>2, <2>1, <2>2
<1>6. QED
  BY <1>3, <1>4, <1>5 DEF ScoreInv

\* An operation may end wherever no lock and no published result hangs on it.
LEMMA EndKeeps ==
    ASSUME MatchInv, Worse, NEW c \in Chunks, EndOperation(c),
           UNCHANGED <<redisVars, resultVars, assignVars>>,
           trouble' = "none" =>
                wpc[c] # "saveFinished" /\ ~(wpc[c] \in Ended /\ wid[c] = lock[c])
    PROVE  MatchInv'
<1> USE DEF MatchInv, EndOperation, redisVars, resultVars, assignVars, readerVars, postVars, Others
<1>1. MatchInv /\ EndOperation(c)
  OBVIOUS
<1>2. TypeOK'
  BY EndTypes DEF TypeOK, Worse
<1>3. WorkerInv'
  BY DEF WorkerInv, TypeOK, Applying, Ending, Ended
<1>4. AssignInv'
  BY DEF AssignInv
<1>5. ScoreInv'
  BY <1>1, EndScores DEF Worse
<1>6. ResultInv'
  BY DEF ResultInv, ResultRecorded, TypeOK, Worse
<1>7. LockInv'
  BY DEF LockInv, TypeOK, Worse, Applying, Ending, Ended
<1>8. LeakInv'
  BY DEF LeakInv, TypeOK, Worse, Ended
<1>9. QED
  BY <1>2, <1>3, <1>4, <1>5, <1>6, <1>7, <1>8

\* An operation is authorized, or finds the cell opened before.
LEMMA AuthorizeKeeps ==
    ASSUME MatchInv, Quiet, NEW c \in Chunks, NEW op \in Operations,
           \/ Authorize(c, op)
           \/ CheckLock(c) /\ lock[c] = NoMatch
           \/ OpenAgain(c)
    PROVE  MatchInv'
<1> USE DEF MatchInv
<1>1. /\ UNCHANGED <<redisVars, resultVars, assignVars, wid, wmatch, wnew, wwin>>
      /\ wfull' \in [Chunks -> BOOLEAN]
      /\ wpc[c] \in {"idle", "checkLock", "authorized"} /\ wnew[c] = 0
      /\ \E p \in {"checkLock", "authorized", "apply"} : wpc' = [wpc EXCEPT ![c] = p]
      /\ wop' = [wop EXCEPT ![c] = op] \/ (wop' = wop /\ wpc[c] # "idle")
  BY DEF Authorize, CheckLock, OpenAgain, AllSafeOpened, GotoW, WorkerInv, TypeOK
<1> USE DEF redisVars, resultVars, assignVars, readerVars, postVars, Quiet, Others
<1>2. TypeOK'
  BY <1>1 DEF TypeOK, WorkerControl
<1>3. WorkerInv'
  BY <1>1 DEF WorkerInv, TypeOK, Applying, Ending, Ended
<1>4. AssignInv'
  BY <1>1 DEF AssignInv
<1>5. ScoreInv'
  <2>1. wop'[c].user \in Users
    BY <1>1, <1>3 DEF WorkerInv, TypeOK, Operations
  <2>2. \A u \in Users : Cardinality(OpenedBy(c, u)) \in Nat
    BY CellCounts DEF OpenedBy
  <2>3. \A d \in Chunks, u \in Users : OpenedBy(d, u)' = OpenedBy(d, u)
    BY <1>1 DEF OpenedBy
  <2>4. \A m \in Matches, u \in Users : match[m] # NoState => match[m].score[u] \in Nat
    BY CellCounts DEF TypeOK, MatchStates
  <2>5. \A d \in Chunks : raced[d] = 0 => Earned(d)'
    <3>1. \A m \in Matches : match[m] # NoState => match[m].chunk \in Chunks
      BY DEF TypeOK, MatchStates
    <3>2. QED
      BY <1>1, <2>3, <3>1 DEF ScoreInv, Earned
  <2>6. wnew'[c] <= Cardinality(OpenedBy(c, wop'[c].user))
    BY <1>1, <2>1, <2>2
  <2>7. raced[c] = 0 => \A m \in Matches : match[m] # NoState /\ match[m].chunk = c =>
            match[m].score[wop'[c].user] + wnew'[c] <= Cardinality(OpenedBy(c, wop'[c].user))
    BY <1>1, <2>1, <2>2, <2>4 DEF ScoreInv, Earned
  <2>8. \A d \in Chunks : d # c =>
            wpc'[d] = wpc[d] /\ wop'[d] = wop[d] /\ wnew'[d] = wnew[d] /\ wmatch'[d] = wmatch[d]
    BY <1>1 DEF TypeOK
  <2>9. \A d \in Chunks : wpc[d] = "apply" => wop[d].user \in Users
    BY DEF WorkerInv, Operations
  <2>10. wpc'[c] \notin Applying
    BY <1>1 DEF TypeOK, Applying, Ending, Ended
  <2>11. match' = match
    BY <1>1
  <2>12. QED
    BY <2>1, <2>3, <2>5, <2>6, <2>7, <2>8, <2>9, <2>10, <2>11 DEF ScoreInv
<1>6. ResultInv'
  BY <1>1 DEF ResultInv, ResultRecorded, TypeOK
<1>7. LockInv'
  BY <1>1 DEF LockInv, TypeOK, Applying, Ending, Ended
<1>8. LeakInv'
  BY <1>1 DEF LeakInv, TypeOK, Ended
<1>9. QED
  BY <1>2, <1>3, <1>4, <1>5, <1>6, <1>7, <1>8

\* Opening cells, or closing and reopening a board, takes no cell from anyone.
LEMMA BoardKeeps ==
    ASSUME MatchInv, Quiet, NEW c \in Chunks,
           OpenMine(c) \/ OpenSafe(c) \/ ReopenInWorker(c)
    PROVE  MatchInv'
<1> USE DEF MatchInv
<1> DEFINE u0 == wop[c].user
       Opens(S) ==
        /\ UNCHANGED <<lock, match, active, resultVars, assignVars, wop, wid, wmatch, wwin>>
        /\ board' \in [Chunks -> Boards] /\ wfull' \in [Chunks -> BOOLEAN]
        /\ \A d \in Chunks : d # c => board'[d] = board[d]
        /\ board'[c].opened = [x \in Cells |-> IF x \in S THEN u0 ELSE board[c].opened[x]]
        /\ \/ /\ wpc[c] = "authorized" /\ wpc' = [wpc EXCEPT ![c] = "apply"]
              /\ wnew' = [wnew EXCEPT ![c] = Cardinality(S)]
           \/ wpc' = wpc /\ wnew' = wnew /\ S = {}
<1>1. \E S \in SUBSET (Cells \ OpenedCells(c)) : Opens(S)
  <2>1. wpc[c] # "idle" => u0 \in Users
    BY DEF WorkerInv, Operations
  <2>2. board[c].opened = [x \in Cells |-> board[c].opened[x]]
    BY DEF TypeOK, Boards
  <2>3. ASSUME NEW b \in BOOLEAN, board' = [board EXCEPT ![c].closed = b]
        PROVE  /\ board' \in [Chunks -> Boards]
               /\ \A d \in Chunks : d # c => board'[d] = board[d]
               /\ board'[c].opened = board[c].opened
    <3>1. board \in [Chunks -> Boards] /\ board[c] \in Boards
      BY DEF TypeOK
    <3>2. /\ [board[c] EXCEPT !.closed = b] \in Boards
          /\ [board[c] EXCEPT !.closed = b].opened = board[c].opened
      BY <3>1 DEF Boards
    <3>3. board' = [board EXCEPT ![c] = [board[c] EXCEPT !.closed = b]]
      BY <2>3, <3>1
    <3>4. QED
      BY <3>1, <3>2, <3>3
  <2>4. CASE OpenMine(c)
    <3>1. wnew' = [wnew EXCEPT ![c] = Cardinality({})]
      BY <2>4, FS_EmptySet DEF OpenMine, WorkerInv, TypeOK
    <3>2. board' = [board EXCEPT ![c].closed = TRUE] /\ wpc[c] = "authorized"
          /\ wpc' = [wpc EXCEPT ![c] = "apply"] /\ wfull' = wfull
          /\ UNCHANGED <<lock, match, active, resultVars, assignVars, wop, wid, wmatch, wwin>>
      BY <2>4 DEF OpenMine, GotoW
    <3>3. wfull \in [Chunks -> BOOLEAN]
      BY DEF TypeOK
    <3>4. Opens({})
      BY <2>2, <2>3, <3>1, <3>2, <3>3
    <3>5. QED
      BY <3>4
  <2>5. CASE ReopenInWorker(c)
    <3>1. board' = [board EXCEPT ![c].closed = FALSE]
          /\ UNCHANGED <<lock, match, active, resultVars, assignVars, workerVars>>
      BY <2>5 DEF ReopenInWorker
    <3>2. wfull \in [Chunks -> BOOLEAN]
      BY DEF TypeOK
    <3>3. Opens({})
      BY <2>2, <2>3, <3>1, <3>2 DEF workerVars
    <3>4. QED
      BY <3>3
  <2>6. CASE OpenSafe(c)
    <3>1. PICK S \in SUBSET (SafeCells(c) \ OpenedCells(c)) :
            /\ board' = [board EXCEPT ![c].opened =
                            [x \in Cells |-> IF x \in S THEN u0 ELSE @[x]]]
            /\ wnew' = [wnew EXCEPT ![c] = Cardinality(S)]
      BY <2>6 DEF OpenSafe
    <3>2. S \in SUBSET (Cells \ OpenedCells(c))
      BY DEF SafeCells
    <3>3. wpc[c] = "authorized" /\ u0 \in Users
      BY <2>1, <2>6 DEF OpenSafe
    <3>4. /\ board' \in [Chunks -> Boards]
          /\ \A d \in Chunks : d # c => board'[d] = board[d]
          /\ board'[c].opened = [x \in Cells |-> IF x \in S THEN u0 ELSE board[c].opened[x]]
      <4> DEFINE new == [x \in Cells |-> IF x \in S THEN u0 ELSE board[c].opened[x]]
      <4>1. board \in [Chunks -> Boards] /\ board[c] \in Boards
        BY DEF TypeOK
      <4>2. new \in [Cells -> Users \union {Nobody}]
        BY <3>3, <4>1 DEF Boards
      <4>3. [board[c] EXCEPT !.opened = new] \in Boards
        BY <4>1, <4>2 DEF Boards
      <4>4. board' = [board EXCEPT ![c] = [board[c] EXCEPT !.opened = new]]
        BY <3>1, <4>1
      <4> HIDE DEF new
      <4>5. [board[c] EXCEPT !.opened = new].opened = new
        BY <4>1 DEF Boards
      <4>6. QED
        BY <4>1, <4>3, <4>4, <4>5 DEF new
    <3>5. wfull' \in [Chunks -> BOOLEAN]
      BY <2>6 DEF OpenSafe, AllSafeOpened, TypeOK
    <3>6. Opens(S)
      BY <2>6, <3>1, <3>3, <3>4, <3>5 DEF OpenSafe, GotoW
    <3>7. QED
      BY <3>2, <3>6
  <2>7. QED
    BY <2>4, <2>5, <2>6
<1>2. PICK S \in SUBSET (Cells \ OpenedCells(c)) : Opens(S)
  BY <1>1
<1> DEFINE w == Cardinality(S)
<1>3. S \subseteq Cells /\ S \subseteq Cells \ OpenedCells(c) /\ w \in Nat /\ Cardinality({}) = 0
  BY CellCounts, FS_EmptySet
<1> USE DEF resultVars, assignVars, readerVars, postVars, Quiet, Others
<1>4. \A d \in Chunks, u \in Users :
        /\ Cardinality(OpenedBy(d, u)) \in Nat
        /\ Cardinality(OpenedBy(d, u)') \in Nat
        /\ Cardinality(OpenedBy(d, u)) <= Cardinality(OpenedBy(d, u)')
        /\ d = c /\ u = u0 =>
            Cardinality(OpenedBy(d, u)') = Cardinality(OpenedBy(d, u)) + w
        /\ d # c => OpenedBy(d, u)' = OpenedBy(d, u)
  <2> SUFFICES ASSUME NEW d \in Chunks, NEW u \in Users PROVE <1>4!(d, u)
    OBVIOUS
  <2>1. OpenedBy(d, u) \subseteq Cells /\ OpenedBy(d, u)' \subseteq Cells
    BY DEF OpenedBy
  <2>2. d # c => OpenedBy(d, u)' = OpenedBy(d, u)
    BY <1>2, <1>3 DEF OpenedBy
  <2>3. Nobody # u
    BY NullAssumption
  <2>4. OpenedBy(c, u) \cap S = {}
    BY <1>2, <1>3, <2>3 DEF OpenedCells, OpenedBy
  <2>5. OpenedBy(c, u)' = IF u = u0 THEN OpenedBy(c, u) \union S ELSE OpenedBy(c, u)
    BY <1>2, <1>3, <2>4 DEF OpenedBy
  <2>6. OpenedBy(c, u) \subseteq Cells
    BY DEF OpenedBy
  <2>7. Cardinality(OpenedBy(c, u) \union S) = Cardinality(OpenedBy(c, u)) + w
    BY <1>2, <1>3, <2>4, <2>6, CountOpened
  <2>8. /\ Cardinality(OpenedBy(d, u)) \in Nat
        /\ Cardinality(OpenedBy(d, u)') \in Nat
    BY <2>1, CellCounts
  <2>9. CASE d = c
    <3>1. OpenedBy(c, u)' = IF u = u0 THEN OpenedBy(c, u) \union S ELSE OpenedBy(c, u)
      BY <2>5
    <3>2. CASE u = u0
      <4>1. Cardinality(OpenedBy(d, u)') = Cardinality(OpenedBy(d, u)) + w
        BY <2>7, <2>9, <3>1, <3>2
      <4>2. QED
        BY <1>3, <2>8, <2>9, <4>1
    <3>3. CASE u # u0
      BY <2>8, <2>9, <3>1, <3>3
    <3>4. QED
      BY <3>2, <3>3
  <2>10. CASE d # c
    BY <2>2, <2>8, <2>10
  <2>11. QED
    BY <2>9, <2>10
<1>5. /\ w <= Cardinality(Cells) /\ Cardinality(Cells) \in Nat
  BY <1>2, <1>3, CellCounts
<1>6. TypeOK'
  BY <1>2, <1>3, <1>5 DEF TypeOK, WorkerControl
<1>7. WorkerInv'
  BY <1>2, <1>3 DEF WorkerInv, TypeOK, Applying, Ending, Ended
<1>8. AssignInv'
  BY <1>2, <1>3 DEF AssignInv
<1>9. ScoreInv'
  <2>1. \A m \in Matches : match[m] # NoState =>
            match[m].chunk \in Chunks /\ \A u \in Users : match[m].score[u] \in Nat
    BY CellCounts DEF TypeOK, MatchStates
  <2>2. \A d \in Chunks :
            /\ wnew[d] \in Nat
            /\ wpc[d] # "idle" => wop[d].user \in Users
            /\ wpc[d] \in Applying => \A u \in Users : wmatch[d].score[u] \in Nat
    BY CellCounts DEF TypeOK, WorkerInv, Operations, MatchStates
  <2>3. \A d \in Chunks : raced[d] = 0 => Earned(d)'
    BY <1>2, <1>3, <1>4, <2>1 DEF ScoreInv, Earned
  <2>4. ASSUME NEW d \in Chunks, raced[d] = 0, wpc'[d] = "apply"
        PROVE  LET u == wop[d].user IN
               /\ wnew'[d] <= Cardinality(OpenedBy(d, u)')
               /\ \A m \in Matches : match[m] # NoState /\ match[m].chunk = d =>
                   match[m].score[u] + wnew'[d] <= Cardinality(OpenedBy(d, u)')
    <3>1. CASE d = c /\ wpc[c] = "authorized"
      <4>1. u0 \in Users /\ wnew'[c] = w
        BY <1>2, <1>3, <2>2, <2>4, <3>1 DEF TypeOK
      <4>2. \A m \in Matches : match[m] # NoState /\ match[m].chunk = c =>
                match[m].score[u0] <= Cardinality(OpenedBy(c, u0))
        BY <2>4, <3>1, <4>1 DEF ScoreInv, Earned
      <4>3. QED
        BY <1>2, <1>3, <1>4, <2>1, <3>1, <4>1, <4>2
    <3>2. CASE ~(d = c /\ wpc[c] = "authorized")
      <4>1. wpc[d] = "apply" /\ wnew'[d] = wnew[d] /\ wop[d].user \in Users
        BY <1>2, <1>3, <2>2, <2>4, <3>2 DEF TypeOK
      <4>2. /\ wnew[d] <= Cardinality(OpenedBy(d, wop[d].user))
            /\ \A m \in Matches : match[m] # NoState /\ match[m].chunk = d =>
                match[m].score[wop[d].user] + wnew[d] <= Cardinality(OpenedBy(d, wop[d].user))
        BY <2>4, <4>1 DEF ScoreInv
      <4>3. /\ wnew[d] \in Nat
            /\ Cardinality(OpenedBy(d, wop[d].user)) \in Nat
            /\ Cardinality(OpenedBy(d, wop[d].user)') \in Nat
            /\ Cardinality(OpenedBy(d, wop[d].user)) <= Cardinality(OpenedBy(d, wop[d].user)')
        <5>1. PICK u \in Users : u = wop[d].user
          BY <4>1
        <5>2. /\ Cardinality(OpenedBy(d, u)) \in Nat
              /\ Cardinality(OpenedBy(d, u)') \in Nat
              /\ Cardinality(OpenedBy(d, u)) <= Cardinality(OpenedBy(d, u)')
          BY <1>4
        <5>3. OpenedBy(d, wop[d].user)' = OpenedBy(d, u)'
          BY <1>2, <5>1 DEF OpenedBy
        <5>4. QED
          BY <2>2, <5>1, <5>2, <5>3
      <4>4. ASSUME NEW m \in Matches, match[m] # NoState, match[m].chunk = d
            PROVE  match[m].score[wop[d].user] + wnew'[d] <= Cardinality(OpenedBy(d, wop[d].user)')
        <5>1. match[m].score[wop[d].user] \in Nat
          BY <2>1, <4>1, <4>4
        <5>2. match[m].score[wop[d].user] + wnew[d] <= Cardinality(OpenedBy(d, wop[d].user))
          BY <4>2, <4>4
        <5>3. QED
          BY <4>1, <4>3, <5>1, <5>2
      <4>5. QED
        BY <4>1, <4>2, <4>3, <4>4
    <3>3. QED
      BY <3>1, <3>2
  <2>5. ASSUME NEW d \in Chunks, raced[d] = 0, wpc'[d] \in Applying, NEW u \in Users
        PROVE  wmatch[d].score[u] <= Cardinality(OpenedBy(d, u)')
    <3>1. wpc[d] \in Applying
      BY <1>2, <1>3, <2>5 DEF TypeOK, Applying, Ending, Ended
    <3>2. QED
      BY <1>4, <2>2, <2>5, <3>1 DEF ScoreInv
  <2>6. QED
    BY <1>2, <1>3, <2>3, <2>4, <2>5 DEF ScoreInv
<1>10. ResultInv'
  BY <1>2, <1>3 DEF ResultInv, ResultRecorded, TypeOK
<1>11. LockInv'
  BY <1>2, <1>3 DEF LockInv, TypeOK, Applying, Ending, Ended
<1>12. LeakInv'
  BY <1>2, <1>3 DEF LeakInv, TypeOK, Ended
<1>13. QED
  BY <1>6, <1>7, <1>8, <1>9, <1>10, <1>11, <1>12

\* A worker that takes a legal copy of its chunk's ongoing match keeps the invariant.
LEMMA TakeKeeps ==
    ASSUME MatchInv, Quiet, NEW c \in Chunks, NEW m \in Matches,
           wpc[c] = "apply", trouble # "lostReply" => apc[m] = "assigned",
           match[m] # NoState, match[m].chunk = c, match[m].status = "ongoing",
           UNCHANGED <<redisVars, resultVars, assignVars, wop, wnew, wfull>>,
           wid' = [wid EXCEPT ![c] = m],
           NEW p \in {"saveScore", "setRow"}, wpc' = [wpc EXCEPT ![c] = p],
           NEW st \in MatchStates, wmatch' = [wmatch EXCEPT ![c] = st],
           st.chunk = c, st.status = "ongoing",
           raced[c] = 0 => \A u \in Users : st.score[u] <= Cardinality(OpenedBy(c, u)),
           NEW t \in Teams \union {NoTeam}, p = "setRow" => t \in Teams, wwin' = [wwin EXCEPT ![c] = t]
    PROVE  MatchInv'
<1> USE DEF MatchInv, redisVars, resultVars, assignVars, readerVars, postVars, Quiet, Others
<1>1. st # NoState
  BY NoStateAssumption
<1>2. TypeOK'
  BY DEF TypeOK, WorkerControl
<1>3. WorkerInv'
  BY <1>1 DEF WorkerInv, TypeOK, Applying, Ending, Ended
<1>4. AssignInv'
  BY DEF AssignInv
<1>5. ScoreInv'
  <2>1. /\ \A d \in Chunks : raced[d] = 0 => Earned(d)'
        /\ \A d \in Chunks, u \in Users : OpenedBy(d, u)' = OpenedBy(d, u)
    BY DEF ScoreInv, Earned, OpenedBy
  <2>2. \A d \in Chunks : d # c => wpc'[d] = wpc[d] /\ wmatch'[d] = wmatch[d]
    BY DEF TypeOK
  <2>3. wpc'[c] = p /\ wmatch'[c] = st
    BY DEF TypeOK
  <2>4. \A d \in Chunks : wpc[d] = "apply" => wop[d].user \in Users
    BY DEF WorkerInv, Operations
  <2>5. QED
    BY <2>1, <2>2, <2>3, <2>4 DEF ScoreInv
<1>6. ResultInv'
  BY DEF ResultInv, ResultRecorded, TypeOK
<1>7. LockInv'
  BY DEF LockInv, TypeOK, Applying, Ending, Ended
<1>8. LeakInv'
  BY DEF LeakInv, TypeOK, Ended
<1>9. QED
  BY <1>2, <1>3, <1>4, <1>5, <1>6, <1>7, <1>8

\* ApplyOpenResult: a mine, a score, or a match without a safe cell left.
LEMMA ApplyKeeps ==
    ASSUME MatchInv, Quiet, NEW c \in Chunks,
           ApplyMine(c) \/ ApplyScore(c) \/ ApplyNoScore(c)
    PROVE  MatchInv'
<1> DEFINE m == AppliesTo(c)
           u0 == wop[c].user
<1>1. wpc[c] = "apply" /\ m # NoMatch
  BY DEF ApplyMine, ApplyScore, ApplyNoScore
<1>2. /\ m \in Matches /\ u0 \in Users /\ active[u0] = m
      /\ match[m] \in MatchStates /\ match[m] # NoState
      /\ match[m].status = "ongoing" /\ match[m].chunk = c
  BY <1>1, Applied
<1>3. trouble # "lostReply" => apc[m] = "assigned"
  BY <1>2, NullAssumption DEF MatchInv, LockInv
<1>4. raced[c] = 0 => \A u \in Users : match[m].score[u] <= Cardinality(OpenedBy(c, u))
  BY <1>2 DEF MatchInv, ScoreInv, Earned
<1>5. wwin \in [Chunks -> Teams \union {NoTeam}]
  BY DEF MatchInv, TypeOK
<1>6. CASE ApplyMine(c)
  <2>1. /\ UNCHANGED <<redisVars, resultVars, assignVars, wop, wnew, wfull>>
        /\ wid' = [wid EXCEPT ![c] = m]
        /\ wmatch' = [wmatch EXCEPT ![c] = match[m]]
        /\ wpc' = [wpc EXCEPT ![c] = "setRow"]
        /\ wwin' = [wwin EXCEPT ![c] = Opponent(m, u0)]
    BY <1>6 DEF ApplyMine, FinishWith, GotoW
  <2>2. Opponent(m, u0) \in Teams
    BY <1>2, WinnersAreTeams
  <2> HIDE DEF m
  <2>3. QED
    BY <1>1, <1>2, <1>3, <1>4, <2>1, <2>2, TakeKeeps
<1>7. CASE ApplyScore(c)
  <2> DEFINE st == [match[m] EXCEPT !.score[u0] = @ + wnew[c], !.last = u0]
  <2>1. /\ UNCHANGED <<redisVars, resultVars, assignVars, wop, wnew, wfull>>
        /\ wid' = [wid EXCEPT ![c] = m]
        /\ wmatch' = [wmatch EXCEPT ![c] = st]
        /\ wpc' = [wpc EXCEPT ![c] = "saveScore"]
        /\ wwin' = [wwin EXCEPT ![c] = wwin[c]]
    BY <1>5, <1>7 DEF ApplyScore, GotoW
  <2>2. raced[c] = 0 => match[m].score[u0] + wnew[c] <= Cardinality(OpenedBy(c, u0))
    BY <1>1, <1>2 DEF MatchInv, ScoreInv
  <2>3. wnew[c] \in Nat /\ match[m].score[u0] \in Nat
    BY <1>2, CellCounts DEF MatchInv, TypeOK, MatchStates
  <2>4. match[m].score[u0] + wnew[c] \in Nat
    BY <2>3
  <2>5. st.score = [match[m].score EXCEPT ![u0] = @ + wnew[c]]
    BY <1>2 DEF MatchStates
  <2>6. st.score \in [Users -> Nat]
    BY <1>2, <2>4, <2>5 DEF MatchStates
  <2>7. /\ st \in MatchStates /\ st.chunk = c /\ st.status = "ongoing"
    BY <1>2, <2>6 DEF MatchStates
  <2>8. raced[c] = 0 => \A u \in Users : st.score[u] <= Cardinality(OpenedBy(c, u))
    BY <1>2, <1>4, <2>2, <2>5 DEF MatchStates
  <2>9. wwin[c] \in Teams \union {NoTeam}
    BY <1>5
  <2> HIDE DEF st, m
  <2>10. QED
    BY <1>1, <1>2, <1>3, <2>1, <2>7, <2>8, <2>9, TakeKeeps
<1>8. CASE ApplyNoScore(c)
  <2>1. CASE wfull[c]
    <3>1. /\ UNCHANGED <<redisVars, resultVars, assignVars, wop, wnew, wfull>>
          /\ wid' = [wid EXCEPT ![c] = m]
          /\ wmatch' = [wmatch EXCEPT ![c] = match[m]]
          /\ wpc' = [wpc EXCEPT ![c] = "setRow"]
          /\ wwin' = [wwin EXCEPT ![c] = ScoreWinner(m, match[m])]
      BY <1>8, <2>1 DEF ApplyNoScore, CompleteOrEnd, FinishWith, GotoW
    <3>2. ScoreWinner(m, match[m]) \in Teams
      BY <1>2, WinnersAreTeams
    <3> HIDE DEF m
    <3>3. QED
      BY <1>1, <1>2, <1>3, <1>4, <3>1, <3>2, TakeKeeps
  <2>2. CASE ~wfull[c]
    <3>1. EndOperation(c) /\ UNCHANGED <<redisVars, resultVars, assignVars>>
      BY <1>8, <2>2 DEF ApplyNoScore, CompleteOrEnd
    <3>2. Worse
      BY DEF Worse, Quiet, MatchInv, TypeOK
    <3>3. QED
      BY <1>1, <3>1, <3>2, EndKeeps DEF Ended
  <2>3. QED
    BY <2>1, <2>2
<1>9. QED
  BY <1>6, <1>7, <1>8

\* The match that a worker has is its chunk's own, so no two workers have the same.
LEMMA OwnMatch ==
    ASSUME MatchInv, NEW c \in Chunks, wpc[c] \in Applying
    PROVE  /\ wid[c] \in Matches
           /\ match[wid[c]] \in MatchStates /\ match[wid[c]] # NoState /\ match[wid[c]].chunk = c
           /\ match[wid[c]].status = IF wpc[c] \in Ended THEN "finished" ELSE "ongoing"
           /\ wmatch[c] \in MatchStates /\ wmatch[c] # NoState
           /\ wmatch[c].chunk = c /\ wmatch[c].status = "ongoing"
           /\ \A d \in Chunks : wpc[d] \in Applying /\ wid[d] = wid[c] => d = c
  BY DEF MatchInv, WorkerInv, TypeOK

\* The saved scores are the ones the worker has counted.
LEMMA SaveScoreKeeps ==
    ASSUME MatchInv, Quiet, NEW c \in Chunks, SaveScore(c)
    PROVE  MatchInv'
<1> USE DEF MatchInv
<1> DEFINE m == wid[c]
           st == wmatch[c]
<1>1. /\ UNCHANGED <<lock, active, board, resultVars, assignVars>>
      /\ wpc[c] = "saveScore" /\ wpc[c] \in Applying
      /\ match' = [match EXCEPT ![m] = st]
      /\ \/ /\ wpc' = [wpc EXCEPT ![c] = "setRow"]
            /\ wwin' = [wwin EXCEPT ![c] = ScoreWinner(m, st)]
            /\ wid' = [wid EXCEPT ![c] = m] /\ wmatch' = [wmatch EXCEPT ![c] = st]
            /\ UNCHANGED <<wop, wnew, wfull>>
         \/ EndOperation(c)
  BY DEF SaveScore, CompleteOrEnd, FinishWith, GotoW, Applying
<1>2. /\ m \in Matches
      /\ match[m] \in MatchStates /\ match[m] # NoState /\ match[m].chunk = c
      /\ match[m].status = "ongoing"
      /\ st \in MatchStates /\ st # NoState /\ st.chunk = c /\ st.status = "ongoing"
      /\ \A d \in Chunks : wpc[d] \in Applying /\ wid[d] = m => d = c
  BY <1>1, OwnMatch DEF Ended
<1>3. ScoreWinner(m, st) \in Teams
  BY <1>2, WinnersAreTeams
<1>4. raced[c] = 0 => \A u \in Users : st.score[u] <= Cardinality(OpenedBy(c, u))
  BY <1>1 DEF ScoreInv
<1>5. \A d \in Chunks : d # c =>
        wpc'[d] = wpc[d] /\ wop'[d] = wop[d] /\ wid'[d] = wid[d]
        /\ wmatch'[d] = wmatch[d] /\ wnew'[d] = wnew[d] /\ wwin'[d] = wwin[d]
  BY <1>1 DEF TypeOK, EndOperation
<1>6. /\ wpc'[c] \in {"setRow", "idle"}
      /\ wpc'[c] = "setRow" =>
            wop'[c] = wop[c] /\ wid'[c] = m /\ wmatch'[c] = st /\ wwin'[c] \in Teams
      /\ wpc'[c] = "idle" => wid'[c] = NoMatch /\ wnew'[c] = 0
  BY <1>1, <1>3 DEF TypeOK, EndOperation
<1>7. match'[m] = st /\ \A o \in Matches : o # m => match'[o] = match[o]
  BY <1>1, <1>2 DEF TypeOK
<1> HIDE DEF m, st
<1>8. TypeOK'
  <2>1. /\ match' \in [Matches -> MatchStates \union {NoState}]
        /\ UNCHANGED <<lock, active, board, resultVars, assignVars, trouble>>
        /\ Quiet
    BY <1>1, <1>2 DEF TypeOK, Quiet
  <2>2. CASE EndOperation(c)
    BY <2>1, <2>2, EndTypes DEF TypeOK, resultVars, assignVars, readerVars, postVars, Quiet, Others
  <2>3. CASE ~EndOperation(c)
    <3>1. /\ wpc' \in [Chunks -> WorkerControl]
          /\ wwin' \in [Chunks -> Teams \union {NoTeam}]
          /\ wid' \in [Chunks -> Matches \union {NoMatch}]
          /\ wmatch' \in [Chunks -> MatchStates \union {NoState}]
          /\ UNCHANGED <<wop, wnew, wfull>>
      <4>1. /\ wpc' = [wpc EXCEPT ![c] = "setRow"]
            /\ wwin' = [wwin EXCEPT ![c] = ScoreWinner(m, st)]
            /\ wid' = [wid EXCEPT ![c] = m] /\ wmatch' = [wmatch EXCEPT ![c] = st]
            /\ UNCHANGED <<wop, wnew, wfull>>
        BY <1>1, <2>3
      <4>2. wpc' \in [Chunks -> WorkerControl] /\ wwin' \in [Chunks -> Teams \union {NoTeam}]
        BY <1>3, <4>1 DEF TypeOK, WorkerControl
      <4>3. /\ wid' \in [Chunks -> Matches \union {NoMatch}]
            /\ wmatch' \in [Chunks -> MatchStates \union {NoState}]
        BY <1>2, <4>1 DEF TypeOK
      <4>4. QED
        BY <4>1, <4>2, <4>3
    <3>2. QED
      BY <2>1, <3>1 DEF TypeOK, resultVars, assignVars, readerVars, postVars, Quiet, Others
  <2>4. QED
    BY <2>2, <2>3
<1> USE DEF resultVars, assignVars, readerVars, postVars, Quiet, Others
<1>9. WorkerInv'
  BY <1>1, <1>2, <1>5, <1>6, <1>7 DEF WorkerInv, Applying, Ending, Ended
<1>10. AssignInv'
  BY <1>1, <1>2, <1>7 DEF AssignInv
<1>11. ScoreInv'
  <2>1. \A d \in Chunks, u \in Users : OpenedBy(d, u)' = OpenedBy(d, u)
    BY <1>1 DEF OpenedBy
  <2>2. ASSUME NEW d \in Chunks, raced[d] = 0 PROVE Earned(d)'
    <3>1. Earned(d)
      BY <2>2 DEF ScoreInv
    <3>2. SUFFICES ASSUME NEW o \in Matches, match'[o] # NoState, match'[o].chunk = d,
                          NEW u \in Users
                   PROVE  match'[o].score[u] <= Cardinality(OpenedBy(d, u))
      BY <2>1 DEF Earned
    <3>3. CASE o = m
      BY <1>2, <1>4, <1>7, <2>2, <3>2, <3>3
    <3>4. CASE o # m
      BY <1>7, <3>1, <3>2, <3>4 DEF Earned
    <3>5. QED
      BY <3>3, <3>4
  <2>3. \A d \in Chunks : wpc[d] = "apply" => wop[d].user \in Users
    BY DEF WorkerInv, Operations
  <2>4. QED
    BY <1>2, <1>4, <1>5, <1>6, <1>7, <2>1, <2>2, <2>3
    DEF ScoreInv, Applying, Ending, Ended
<1>12. ResultInv'
  BY <1>1, <1>2, <1>5, <1>6, <1>7 DEF ResultInv, ResultRecorded, Applying, Ending
<1>13. LockInv'
  <2> SUFFICES ASSUME trouble # "lostReply" PROVE LockInv'
    BY DEF LockInv
  <2>1. apc[m] = "assigned"
    BY <1>1 DEF LockInv, m
  <2>2. \A o \in Matches : apc[o] = "activate" => match'[o] = NewMatch(achunk[o])
    BY <1>7, <2>1 DEF LockInv
  <2>3. \A o \in Matches : apc[o] = "assigned" =>
            /\ match'[o] # NoState /\ match'[o].chunk = achunk[o]
            /\ match'[o].status = "ongoing" =>
                lock[achunk[o]] = o /\ \A u \in Players(o) : active[u] = o
    BY <1>2, <1>7, <2>1 DEF LockInv
  <2>4. \A d \in Chunks : wpc'[d] \in Applying =>
            apc[wid'[d]] = "assigned" /\ (wpc'[d] = "delLock" => lock[d] = wid'[d])
    BY <1>1, <1>5, <1>6, <2>1 DEF LockInv, Applying, Ending, Ended
  <2>5. QED
    BY <1>1, <2>2, <2>3, <2>4 DEF LockInv, Applying, Ended
<1>14. LeakInv'
  BY <1>1, <1>2, <1>5, <1>6, <1>7 DEF LeakInv, TypeOK, Ended
<1>15. QED
  BY <1>8, <1>9, <1>10, <1>11, <1>12, <1>13, <1>14

\* The row is set and the event published for the match that is ending.
LEMMA RecordKeeps ==
    ASSUME MatchInv, Quiet, NEW c \in Chunks, SetRow(c) \/ Publish(c)
    PROVE  MatchInv'
<1> USE DEF MatchInv
<1>1. /\ UNCHANGED <<redisVars, assignVars, wop, wid, wmatch, wnew, wfull, wwin>>
      /\ \/ /\ wpc[c] = "setRow" /\ wpc' = [wpc EXCEPT ![c] = "publish"]
            /\ row' = [row EXCEPT ![wid[c]] = wwin[c]] /\ settled' = settled
         \/ /\ wpc[c] = "publish" /\ wpc' = [wpc EXCEPT ![c] = "saveFinished"] /\ row' = row
            /\ settled' = [settled EXCEPT ![wid[c]] = IF @ = NoTeam THEN wwin[c] ELSE @]
  BY DEF SetRow, Publish, GotoW
<1>2. wpc[c] \in Applying /\ wpc[c] \notin Ended
  BY <1>1 DEF Applying, Ending, Ended
<1>3. /\ wid[c] \in Matches /\ match[wid[c]] # NoState /\ match[wid[c]].status = "ongoing"
      /\ \A d \in Chunks : wpc[d] \in Applying /\ wid[d] = wid[c] => d = c
  BY <1>2, OwnMatch
<1>4. wwin[c] \in Teams /\ wwin[c] \in Winners /\ wwin[c] # NoTeam
  BY <1>1, MatchAssumption, NullAssumption DEF WorkerInv, Ending
<1> USE DEF redisVars, assignVars, readerVars, postVars, Quiet, Others
<1>5. TypeOK'
  <2>1. wpc' \in [Chunks -> WorkerControl]
    BY <1>1 DEF TypeOK, WorkerControl
  <2>2. row' \in [Matches -> Winners \union {NoTeam}]
    BY <1>1, <1>3, <1>4 DEF TypeOK
  <2>3. settled' \in [Matches -> Winners \union {NoTeam}]
    BY <1>1, <1>3, <1>4 DEF TypeOK
  <2>4. QED
    BY <1>1, <2>1, <2>2, <2>3 DEF TypeOK
<1>6. WorkerInv'
  BY <1>1 DEF WorkerInv, TypeOK, Applying, Ending, Ended
<1>7. AssignInv'
  BY <1>1 DEF AssignInv
<1>8. ScoreInv'
  <2>1. \A d \in Chunks, u \in Users : OpenedBy(d, u)' = OpenedBy(d, u)
    BY <1>1 DEF OpenedBy
  <2>2. \A d \in Chunks : raced[d] = 0 => Earned(d)'
    BY <1>1, <2>1 DEF ScoreInv, Earned
  <2>3. \A d \in Chunks : wpc'[d] = "apply" => wpc[d] = "apply" /\ wop[d].user \in Users
    BY <1>1 DEF TypeOK, WorkerInv, Operations
  <2>4. \A d \in Chunks : wpc'[d] \in Applying => wpc[d] \in Applying
    BY <1>1 DEF TypeOK, Applying, Ending, Ended
  <2>5. QED
    BY <1>1, <2>1, <2>2, <2>3, <2>4 DEF ScoreInv
<1>9. ResultInv'
  <2>1. \A m \in Matches : m # wid[c] => row'[m] = row[m] /\ settled'[m] = settled[m]
    BY <1>1 DEF TypeOK
  <2>2. \A d \in Chunks : d # c => wpc'[d] = wpc[d]
    BY <1>1 DEF TypeOK
  <2>3. ResultRecorded' /\ \A q \in posts' : posted'[q.match] # 0
    BY <1>1, <1>3, <2>1 DEF ResultInv, ResultRecorded
  <2>4. \A d \in Chunks :
            wpc[d] \in {"publish", "saveFinished"} /\ d # c => wid[d] \in Matches /\ wid[d] # wid[c]
    BY <1>3, OwnMatch DEF Applying, Ending
  <2>5. trouble = "none" /\ wpc[c] = "publish" /\ posted[wid[c]] = 0 => settled[wid[c]] = NoTeam
    <3> SUFFICES ASSUME trouble = "none", wpc[c] = "publish", posted[wid[c]] = 0,
                        settled[wid[c]] # NoTeam
                 PROVE  FALSE
      OBVIOUS
    <3>1. PICK d \in Chunks : wpc[d] = "saveFinished" /\ wid[d] = wid[c]
      BY <1>3 DEF ResultInv
    <3>2. QED
      BY <1>3, <3>1 DEF Applying, Ending
  <2>6. CASE wpc[c] = "setRow"
    <3>1. wpc'[c] = "publish" /\ row'[wid[c]] = wwin[c] /\ settled' = settled
      BY <1>1, <1>3, <2>6 DEF TypeOK
    <3>2. QED
      BY <1>1, <2>1, <2>2, <2>3, <2>4, <2>6, <3>1 DEF ResultInv
  <2>7. CASE wpc[c] = "publish"
    <3>1. /\ wpc'[c] = "saveFinished" /\ row' = row
          /\ settled'[wid[c]] # NoTeam
          /\ trouble = "none" /\ posted[wid[c]] = 0 => settled'[wid[c]] = wwin[c]
      BY <1>1, <1>3, <1>4, <2>5, <2>7 DEF TypeOK
    <3>2. QED
      BY <1>1, <1>3, <2>1, <2>2, <2>3, <2>4, <2>7, <3>1 DEF ResultInv
  <2>8. QED
    BY <1>1, <2>6, <2>7
<1>10. LockInv'
  BY <1>1 DEF LockInv, TypeOK, Applying, Ending, Ended
<1>11. LeakInv'
  BY <1>1 DEF LeakInv, TypeOK, Ended
<1>12. QED
  BY <1>5, <1>6, <1>7, <1>8, <1>9, <1>10, <1>11

\* The finished match is saved with the winner that was recorded.
LEMMA SaveFinishedKeeps ==
    ASSUME MatchInv, Quiet, NEW c \in Chunks, SaveFinished(c)
    PROVE  MatchInv'
<1> USE DEF MatchInv
<1> DEFINE m == wid[c]
           st == [wmatch[c] EXCEPT !.status = "finished", !.winner = wwin[c]]
<1>1. /\ UNCHANGED <<lock, active, board, resultVars, assignVars, wop, wid, wmatch, wnew, wfull, wwin>>
      /\ wpc[c] = "saveFinished" /\ wpc[c] \in Applying
      /\ match' = [match EXCEPT ![m] = st]
      /\ wpc' = [wpc EXCEPT ![c] = "clearUsers"]
  BY DEF SaveFinished, GotoW, Applying, Ending
<1>2. /\ m \in Matches
      /\ match[m] \in MatchStates /\ match[m] # NoState /\ match[m].chunk = c
      /\ match[m].status = "ongoing"
      /\ wmatch[c] \in MatchStates /\ wmatch[c].chunk = c
      /\ \A d \in Chunks : wpc[d] \in Applying /\ wid[d] = m => d = c
  BY <1>1, OwnMatch DEF Ended
<1>3. wwin[c] \in Teams \union {NoTeam}
  BY DEF TypeOK
<1>4. /\ st \in MatchStates /\ st.chunk = c /\ st.status = "finished" /\ st.winner = wwin[c]
      /\ st.score = wmatch[c].score
  BY <1>2, <1>3 DEF MatchStates
<1>5. st # NoState
  BY <1>4, NoStateAssumption
<1>6. raced[c] = 0 => \A u \in Users : st.score[u] <= Cardinality(OpenedBy(c, u))
  BY <1>1, <1>4 DEF ScoreInv
<1>7. wpc'[c] = "clearUsers" /\ \A d \in Chunks : d # c => wpc'[d] = wpc[d]
  BY <1>1 DEF TypeOK
<1>8. match'[m] = st /\ \A o \in Matches : o # m => match'[o] = match[o]
  BY <1>1, <1>2 DEF TypeOK
<1> USE DEF resultVars, assignVars, readerVars, postVars, Quiet, Others
<1> HIDE DEF st
<1>9. TypeOK'
  BY <1>1, <1>2, <1>4 DEF TypeOK, WorkerControl
<1>10. WorkerInv'
  BY <1>1, <1>2, <1>4, <1>5, <1>7, <1>8 DEF WorkerInv, Applying, Ending, Ended
<1>11. AssignInv'
  BY <1>1, <1>2, <1>8 DEF AssignInv
<1>12. ScoreInv'
  <2>1. \A d \in Chunks, u \in Users : OpenedBy(d, u)' = OpenedBy(d, u)
    BY <1>1 DEF OpenedBy
  <2>2. ASSUME NEW d \in Chunks, raced[d] = 0 PROVE Earned(d)'
    <3>1. Earned(d)
      BY <2>2 DEF ScoreInv
    <3>2. SUFFICES ASSUME NEW o \in Matches, match'[o] # NoState, match'[o].chunk = d,
                          NEW u \in Users
                   PROVE  match'[o].score[u] <= Cardinality(OpenedBy(d, u))
      BY <2>1 DEF Earned
    <3>3. CASE o = m
      BY <1>4, <1>6, <1>8, <2>2, <3>2, <3>3
    <3>4. CASE o # m
      BY <1>8, <3>1, <3>2, <3>4 DEF Earned
    <3>5. QED
      BY <3>3, <3>4
  <2>3. \A d \in Chunks : wpc[d] = "apply" => wop[d].user \in Users
    BY DEF WorkerInv, Operations
  <2>4. QED
    BY <1>1, <1>2, <1>4, <1>6, <1>7, <1>8, <2>1, <2>2, <2>3 DEF ScoreInv, Applying, Ending, Ended
<1>13. ResultInv'
  BY <1>1, <1>2, <1>4, <1>5, <1>7, <1>8 DEF ResultInv, ResultRecorded, Applying, Ending
<1>14. LockInv'
  <2> SUFFICES ASSUME trouble # "lostReply" PROVE LockInv'
    BY DEF LockInv
  <2>1. apc[m] = "assigned"
    BY <1>1 DEF LockInv
  <2>2. \A o \in Matches : apc[o] = "activate" => match'[o] = NewMatch(achunk[o])
    BY <1>8, <2>1 DEF LockInv
  <2>3. \A o \in Matches : apc[o] = "assigned" =>
            /\ match'[o] # NoState /\ match'[o].chunk = achunk[o]
            /\ match'[o].status = "ongoing" =>
                lock[achunk[o]] = o /\ \A u \in Players(o) : active[u] = o
    BY <1>2, <1>4, <1>5, <1>8, <2>1 DEF LockInv
  <2>4. \A d \in Chunks : wpc'[d] \in Applying =>
            apc[wid[d]] = "assigned" /\ (wpc'[d] = "delLock" => lock[d] = wid[d])
    BY <1>1, <1>7, <2>1 DEF LockInv, Applying, Ending, Ended
  <2>5. QED
    BY <1>1, <2>2, <2>3, <2>4 DEF LockInv, Applying, Ended
<1>15. LeakInv'
  <2> SUFFICES ASSUME trouble = "none", NEW d \in Chunks, lock[d] # NoMatch
               PROVE  LET o == lock[d] IN
                      /\ achunk[o] = d
                      /\ \/ apc[o] \in Locking
                         \/ apc[o] = "assigned" /\ match'[o].status = "ongoing"
                         \/ apc[o] = "assigned" /\ wpc'[d] \in Ended /\ wid[d] = o
    BY <1>1 DEF LeakInv
  <2>1. CASE lock[d] = m
    <3>1. apc[m] = "assigned" /\ achunk[m] = c
      BY <1>1, <1>2 DEF LockInv
    <3>2. QED
      BY <1>7, <2>1, <3>1 DEF LeakInv, Ended
  <2>2. CASE lock[d] # m
    BY <1>1, <1>7, <1>8, <2>2 DEF LeakInv, TypeOK
  <2>3. QED
    BY <2>1, <2>2
<1>16. QED
  BY <1>9, <1>10, <1>11, <1>12, <1>13, <1>14, <1>15

\* The keys of the players are deleted, and the lock is read.
LEMMA ReleaseKeeps ==
    ASSUME MatchInv, Quiet, NEW c \in Chunks,
           ClearUsers(c) \/ (ReadLock(c) /\ lock[c] = wid[c])
    PROVE  MatchInv'
<1> USE DEF MatchInv
<1>1. /\ UNCHANGED <<lock, match, board, resultVars, assignVars, wop, wid, wmatch, wnew, wfull, wwin>>
      /\ wpc[c] \in Ended
      /\ \/ /\ wpc' = [wpc EXCEPT ![c] = "unlock"]
            /\ active' = [u \in Users |-> IF u \in Players(wid[c]) THEN NoMatch ELSE active[u]]
         \/ wpc' = [wpc EXCEPT ![c] = "delLock"] /\ active' = active /\ lock[c] = wid[c]
  BY DEF ClearUsers, ReadLock, GotoW, redisVars, Ended
<1>2. wid[c] \in Matches /\ match[wid[c]].status = "finished"
  BY <1>1, OwnMatch DEF Applying
<1> USE DEF resultVars, assignVars, readerVars, postVars, Quiet, Others
<1>3. TypeOK'
  BY <1>1 DEF TypeOK, WorkerControl
<1>4. WorkerInv'
  BY <1>1 DEF WorkerInv, TypeOK, Applying, Ending, Ended
<1>5. AssignInv'
  BY <1>1 DEF AssignInv
<1>6. ScoreInv'
  <2>1. \A d \in Chunks, u \in Users : OpenedBy(d, u)' = OpenedBy(d, u)
    BY <1>1 DEF OpenedBy
  <2>2. \A d \in Chunks : raced[d] = 0 => Earned(d)'
    BY <1>1, <2>1 DEF ScoreInv, Earned
  <2>3. \A d \in Chunks : wpc'[d] = "apply" => wpc[d] = "apply" /\ wop[d].user \in Users
    BY <1>1 DEF TypeOK, WorkerInv, Operations
  <2>4. \A d \in Chunks : wpc'[d] \in Applying => wpc[d] \in Applying
    BY <1>1 DEF TypeOK, Applying, Ending, Ended
  <2>5. QED
    BY <1>1, <2>1, <2>2, <2>3, <2>4 DEF ScoreInv
<1>7. ResultInv'
  BY <1>1 DEF ResultInv, ResultRecorded, TypeOK, Ended
<1>8. LockInv'
  <2> SUFFICES ASSUME trouble # "lostReply" PROVE LockInv'
    BY DEF LockInv
  <2>1. apc[wid[c]] = "assigned"
    BY <1>1 DEF LockInv, Applying
  <2>2. \A u \in Users : active'[u] # NoMatch => apc[active'[u]] = "assigned"
    BY <1>1 DEF LockInv, TypeOK
  <2>3. ASSUME NEW o \in Matches, apc[o] = "assigned", match[o].status = "ongoing"
        PROVE  \A u \in Players(o) : active'[u] = o
    <3>1. \A u \in Players(o) : u \in Users /\ active[u] = o
      BY <2>3 DEF LockInv, Players
    <3>2. Players(o) \cap Players(wid[c]) = {}
      BY <1>2, <2>1, <2>3 DEF LockInv
    <3>3. QED
      BY <1>1, <3>1, <3>2
  <2>4. \A d \in Chunks : wpc'[d] \in Applying =>
            apc[wid[d]] = "assigned" /\ (wpc'[d] = "delLock" => lock[d] = wid[d])
    BY <1>1, <2>1 DEF LockInv, TypeOK, Applying, Ending, Ended
  <2>5. QED
    BY <1>1, <2>2, <2>3, <2>4 DEF LockInv, Applying, Ended
<1>9. LeakInv'
  BY <1>1 DEF LeakInv, TypeOK, Ended
<1>10. QED
  BY <1>3, <1>4, <1>5, <1>6, <1>7, <1>8, <1>9

\* The lock that is deleted is the one of the match that has ended.
LEMMA DeleteLockKeeps ==
    ASSUME MatchInv, Quiet, NEW c \in Chunks, DeleteLock(c)
    PROVE  MatchInv'
<1> USE DEF MatchInv, EndOperation
<1>1. /\ UNCHANGED <<match, active, board, resultVars, assignVars>>
      /\ wpc[c] = "delLock" /\ wpc[c] \in Applying /\ wpc[c] \in Ended
      /\ lock' = [lock EXCEPT ![c] = NoMatch]
      /\ EndOperation(c)
  BY DEF DeleteLock, Applying, Ended
<1>2. wid[c] \in Matches /\ match[wid[c]].status = "finished"
  BY <1>1, OwnMatch
<1>3. MatchInv /\ EndOperation(c)
  BY <1>1
<1> USE DEF resultVars, assignVars, readerVars, postVars, Quiet, Others
<1>4. TypeOK'
  BY <1>1, EndTypes DEF TypeOK
<1>5. WorkerInv'
  BY <1>1 DEF WorkerInv, TypeOK, Applying, Ending, Ended
<1>6. AssignInv'
  BY <1>1 DEF AssignInv
<1>7. ScoreInv'
  BY <1>1, <1>3, EndScores
<1>8. ResultInv'
  BY <1>1 DEF ResultInv, ResultRecorded, TypeOK
<1>9. LockInv'
  <2> SUFFICES ASSUME trouble # "lostReply" PROVE LockInv'
    BY DEF LockInv
  <2>1. apc[wid[c]] = "assigned" /\ lock[c] = wid[c]
    BY <1>1 DEF LockInv
  <2>2. \A o \in Matches :
            apc[o] \in Locking \/ (apc[o] = "assigned" /\ match[o].status = "ongoing") =>
                lock'[achunk[o]] = o
    BY <1>1, <1>2, <2>1 DEF LockInv, TypeOK, AssignInv, Locking
  <2>3. \A d \in Chunks : wpc'[d] \in Applying =>
            apc[wid'[d]] = "assigned" /\ (wpc'[d] = "delLock" => lock'[d] = wid'[d])
    BY <1>1 DEF LockInv, TypeOK, Applying, Ending, Ended
  <2>4. QED
    BY <1>1, <2>2, <2>3 DEF LockInv
<1>10. LeakInv'
  BY <1>1 DEF LeakInv, TypeOK, Ended
<1>11. QED
  BY <1>4, <1>5, <1>6, <1>7, <1>8, <1>9, <1>10

-----------------------------------------------------------------------------
(* Readers and posted results *)

\* A reader stores what the chunk was, and has closed no cell of it unless it is raced.
LEMMA ReadStores ==
    ASSUME MatchInv, NEW r \in Readers, ReaderStep(r)
    PROVE  /\ UNCHANGED <<lock, match, active, resultVars, assignVars, workerVars, postVars>>
           /\ board' \in [Chunks -> Boards]
           /\ copy' \in [Readers -> Copies \union {NoCopy}]
           /\ raced' \in [Chunks -> 0 .. MaxRaces]
           /\ \A c \in Chunks :
                /\ raced'[c] = 0 => raced[c] = 0
                /\ raced'[c] = raced[c] => board'[c].opened = board[c].opened
<1> USE DEF MatchInv
<1>1. /\ board \in [Chunks -> Boards] /\ copy \in [Readers -> Copies \union {NoCopy}]
      /\ raced \in [Chunks -> 0 .. MaxRaces] /\ MaxRaces \in Nat
  BY MatchAssumption DEF TypeOK
<1>2. ASSUME NEW c \in Chunks, LoadClosed(r, c)
      PROVE  board' = board /\ raced' = raced /\ copy' \in [Readers -> Copies \union {NoCopy}]
  <2>1. [chunk |-> c, opened |-> board[c].opened] \in Copies
    BY <1>1 DEF Boards, Copies
  <2>2. QED
    BY <1>1, <1>2, <2>1 DEF LoadClosed, redisVars
<1>3. ASSUME StoreReopened(r)
      PROVE  /\ board' \in [Chunks -> Boards]
             /\ copy' \in [Readers -> Copies \union {NoCopy}]
             /\ raced' \in [Chunks -> 0 .. MaxRaces]
             /\ \A c \in Chunks :
                    /\ raced'[c] = 0 => raced[c] = 0
                    /\ raced'[c] = raced[c] => board'[c].opened = board[c].opened
  <2> DEFINE c0 == copy[r].chunk
  <2>1. copy[r] \in Copies /\ c0 \in Chunks
    BY <1>1, <1>3 DEF StoreReopened, Copies
  <2>2. [opened |-> copy[r].opened, closed |-> FALSE] \in Boards
    BY <2>1 DEF Boards, Copies
  <2>3. /\ board' = [board EXCEPT ![c0] = [opened |-> copy[r].opened, closed |-> FALSE]]
        /\ copy' = [copy EXCEPT ![r] = NoCopy]
        /\ \/ copy[r].opened = board[c0].opened /\ raced' = raced
           \/ raced[c0] < MaxRaces /\ raced' = [raced EXCEPT ![c0] = @ + 1]
    BY <1>3 DEF StoreReopened
  <2>4. board' \in [Chunks -> Boards] /\ copy' \in [Readers -> Copies \union {NoCopy}]
    BY <1>1, <2>1, <2>2, <2>3
  <2> HIDE DEF c0
  <2>5. CASE copy[r].opened = board[c0].opened /\ raced' = raced
    BY <1>1, <2>1, <2>3, <2>4, <2>5
  <2>6. CASE raced[c0] < MaxRaces /\ raced' = [raced EXCEPT ![c0] = @ + 1]
    <3>1. raced'[c0] = raced[c0] + 1 /\ raced[c0] \in 0 .. MaxRaces
      BY <1>1, <2>1, <2>6
    <3>2. raced[c0] + 1 \in 0 .. MaxRaces
      BY <1>1, <2>6, <3>1
    <3>3. raced' \in [Chunks -> 0 .. MaxRaces]
      BY <1>1, <2>6, <3>2
    <3>4. \A c \in Chunks : c # c0 => raced'[c] = raced[c] /\ board'[c] = board[c]
      BY <1>1, <2>3, <2>6
    <3>5. raced'[c0] # 0 /\ raced'[c0] # raced[c0]
      BY <3>1
    <3>6. QED
      BY <2>4, <3>3, <3>4, <3>5
  <2>7. QED
    BY <2>3, <2>5, <2>6
<1>4. ASSUME EndRead(r)
      PROVE  board' = board /\ raced' = raced /\ copy' \in [Readers -> Copies \union {NoCopy}]
  BY <1>1, <1>4 DEF EndRead, redisVars
<1>5. UNCHANGED <<lock, match, active, resultVars, assignVars, workerVars, postVars>>
  BY DEF ReaderStep, LoadClosed, StoreReopened, EndRead, redisVars
<1>6. QED
  BY <1>1, <1>2, <1>3, <1>4, <1>5 DEF ReaderStep

\* So a reader keeps the invariant.
LEMMA ReadKeeps ==
    ASSUME MatchInv, UNCHANGED trouble, NEW r \in Readers, ReaderStep(r)
    PROVE  MatchInv'
<1> USE DEF MatchInv
<1>1. /\ UNCHANGED <<lock, match, active, resultVars, assignVars, workerVars, postVars>>
      /\ board' \in [Chunks -> Boards]
      /\ copy' \in [Readers -> Copies \union {NoCopy}]
      /\ raced' \in [Chunks -> 0 .. MaxRaces]
      /\ \A c \in Chunks :
            raced'[c] = 0 => raced[c] = 0 /\ board'[c].opened = board[c].opened
  BY ReadStores
<1> USE DEF resultVars, assignVars, workerVars, postVars
<1>2. TypeOK'
  BY <1>1 DEF TypeOK
<1>3. WorkerInv' /\ AssignInv' /\ ResultInv' /\ LockInv' /\ LeakInv'
  BY <1>1 DEF WorkerInv, AssignInv, ResultInv, ResultRecorded, LockInv, LeakInv
<1>4. ScoreInv'
  <2>1. \A c \in Chunks : raced'[c] = 0 =>
            raced[c] = 0 /\ \A u : OpenedBy(c, u)' = OpenedBy(c, u)
    BY <1>1 DEF OpenedBy
  <2>2. QED
    BY <1>1, <2>1 DEF ScoreInv, Earned
<1>5. QED
  BY <1>2, <1>3, <1>4

\* A posted result concerns only matches for which one was posted.
LEMMA PostKeeps ==
    ASSUME MatchInv, UNCHANGED trouble, PostStep
    PROVE  MatchInv'
<1> USE DEF MatchInv
<1>1. /\ UNCHANGED <<redisVars, assignVars, workerVars, readerVars>>
      /\ row' \in [Matches -> Winners \union {NoTeam}]
      /\ settled' \in [Matches -> Winners \union {NoTeam}]
      /\ posts' \subseteq Posts /\ posted' \in [Matches -> 0 .. MaxPosts]
      /\ \A p \in posts' : posted'[p.match] # 0
      /\ \A m \in Matches :
            /\ settled[m] # NoTeam => settled'[m] # NoTeam
            /\ posted'[m] = 0 =>
                posted[m] = 0 /\ row'[m] = row[m] /\ settled'[m] = settled[m]
  <2>1. UNCHANGED <<redisVars, assignVars, workerVars, readerVars>>
    BY DEF PostStep
  <2>2. ASSUME NEW m \in Matches, NEW t \in Winners, PostRow(m, t) PROVE <1>1
    <3>1. /\ posted[m] \in 0 .. MaxPosts /\ posted[m] < MaxPosts /\ MaxPosts \in Nat
          /\ posted' = [posted EXCEPT ![m] = @ + 1]
          /\ row' = [row EXCEPT ![m] = t]
          /\ posts' = posts \union {[match |-> m, winner |-> t]}
          /\ settled' = settled
      BY <2>2, MatchAssumption DEF PostRow, TypeOK
    <3>2. posted[m] + 1 \in 0 .. MaxPosts /\ posted[m] + 1 # 0
      BY <3>1
    <3>3. /\ posted' \in [Matches -> 0 .. MaxPosts] /\ posted'[m] # 0
          /\ \A o \in Matches : o # m => posted'[o] = posted[o]
      BY <3>1, <3>2 DEF TypeOK
    <3>4. [match |-> m, winner |-> t] \in Posts
      BY DEF Posts
    <3>5. /\ row' \in [Matches -> Winners \union {NoTeam}]
          /\ \A o \in Matches : o # m => row'[o] = row[o]
      BY <3>1 DEF TypeOK
    <3>6. \A p \in posts' : posted'[p.match] # 0
      <4>1. \A p \in posts : p.match \in Matches /\ posted[p.match] # 0
        BY DEF ResultInv, TypeOK, Posts
      <4>2. QED
        BY <3>1, <3>3, <4>1
    <3>7. QED
      BY <2>1, <3>1, <3>3, <3>4, <3>5, <3>6 DEF TypeOK
  <2>3. ASSUME NEW p \in posts, PostEvent(p) PROVE <1>1
    <3>1. p.match \in Matches /\ p.winner \in Winners /\ posted[p.match] # 0
      BY DEF ResultInv, TypeOK, Posts
    <3>2. /\ settled' = [settled EXCEPT ![p.match] = IF @ = NoTeam THEN p.winner ELSE @]
          /\ posts' = posts \ {p} /\ row' = row /\ posted' = posted
      BY <2>3 DEF PostEvent
    <3>3. /\ settled' \in [Matches -> Winners \union {NoTeam}]
          /\ \A o \in Matches : o # p.match => settled'[o] = settled[o]
          /\ settled[p.match] # NoTeam => settled'[p.match] = settled[p.match]
      BY <3>1, <3>2 DEF TypeOK
    <3>4. \A q \in posts' : posted'[q.match] # 0
      BY <3>2 DEF ResultInv
    <3>5. QED
      BY <2>1, <3>1, <3>2, <3>3, <3>4 DEF TypeOK
  <2>4. QED
    BY <2>2, <2>3 DEF PostStep
<1> USE DEF redisVars, assignVars, workerVars, readerVars
<1>2. TypeOK'
  BY <1>1 DEF TypeOK
<1>3. WorkerInv' /\ AssignInv' /\ LockInv' /\ LeakInv'
  BY <1>1 DEF WorkerInv, AssignInv, LockInv, LeakInv
<1>4. ScoreInv'
  BY <1>1 DEF ScoreInv, Earned, OpenedBy
<1>5. ResultInv'
  <2>1. \A c \in Chunks : wpc[c] \in Ending => wid[c] \in Matches
    BY DEF WorkerInv, Applying
  <2>2. ResultRecorded'
    BY <1>1 DEF ResultInv, ResultRecorded
  <2>3. \A c \in Chunks :
            /\ wpc[c] \in {"publish", "saveFinished"} /\ posted'[wid[c]] = 0 => row'[wid[c]] = wwin[c]
            /\ wpc[c] = "saveFinished" =>
                /\ settled'[wid[c]] # NoTeam
                /\ trouble = "none" /\ posted'[wid[c]] = 0 => settled'[wid[c]] = wwin[c]
    BY <1>1, <2>1 DEF ResultInv, Ending
  <2>4. trouble = "none" =>
            \A m \in Matches : settled'[m] # NoTeam /\ posted'[m] = 0 =>
                /\ match[m] # NoState
                /\ \/ match[m].status = "finished"
                   \/ \E c \in Chunks : wpc[c] = "saveFinished" /\ wid[c] = m
    BY <1>1 DEF ResultInv
  <2>5. QED
    BY <1>1, <2>2, <2>3, <2>4 DEF ResultInv
<1>6. QED
  BY <1>2, <1>3, <1>4, <1>5

-----------------------------------------------------------------------------
(* The invariant *)

\* Every step of an operation without a failure keeps the invariant.
LEMMA WorkerStepKeeps ==
    ASSUME MatchInv, Quiet, NEW c \in Chunks, WorkerStep(c)
    PROVE  MatchInv'
<1>1. Worse
  BY DEF Worse, Quiet, MatchInv, TypeOK
<1>2. CASE CheckLock(c)
  <2>1. CASE lock[c] = NoMatch
    <3>1. PICK op \in Operations : op = wop[c]
      BY <1>2 DEF CheckLock, MatchInv, WorkerInv
    <3>2. QED
      BY <1>2, <2>1, <3>1, AuthorizeKeeps
  <2>2. CASE lock[c] # NoMatch
    BY <1>1, <1>2, <2>2, EndKeeps DEF CheckLock, Ended
  <2>3. QED
    BY <2>1, <2>2
<1>3. CASE OpenNothing(c)
  BY <1>1, <1>3, EndKeeps DEF OpenNothing, Ended
<1>4. CASE OpenAgain(c)
  <2>1. PICK op \in Operations : op = wop[c]
    BY <1>4 DEF OpenAgain, MatchInv, WorkerInv
  <2>2. QED
    BY <1>4, <2>1, AuthorizeKeeps
<1>5. CASE OpenMine(c) \/ OpenSafe(c) \/ ReopenInWorker(c)
  BY <1>5, BoardKeeps
<1>6. CASE ApplyNothing(c)
  BY <1>1, <1>6, EndKeeps DEF ApplyNothing, Ended
<1>7. CASE ApplyMine(c) \/ ApplyScore(c) \/ ApplyNoScore(c)
  BY <1>7, ApplyKeeps
<1>8. CASE SaveScore(c)
  BY <1>8, SaveScoreKeeps
<1>9. CASE SetRow(c) \/ Publish(c)
  BY <1>9, RecordKeeps
<1>10. CASE SaveFinished(c)
  BY <1>10, SaveFinishedKeeps
<1>11. CASE ClearUsers(c)
  BY <1>11, ReleaseKeeps
<1>12. CASE ReadLock(c)
  <2>1. CASE lock[c] = wid[c]
    BY <1>12, <2>1, ReleaseKeeps
  <2>2. CASE lock[c] # wid[c]
    BY <1>1, <1>12, <2>2, EndKeeps DEF ReadLock
  <2>3. QED
    BY <2>1, <2>2
<1>13. CASE DeleteLock(c)
  BY <1>13, DeleteLockKeeps
<1>14. QED
  BY <1>2, <1>3, <1>4, <1>5, <1>6, <1>7, <1>8, <1>9, <1>10, <1>11, <1>12, <1>13 DEF WorkerStep

\* Every step keeps the invariant.
LEMMA MatchStep == MatchInv /\ [Next]_vars => MatchInv'
<1> SUFFICES ASSUME MatchInv, [Next]_vars PROVE MatchInv'
  OBVIOUS
<1>1. trouble \in {"none", "failure", "lostReply"}
  BY DEF MatchInv, TypeOK
<1>2. ASSUME Quiet, NEW m \in Matches, AssignStep(m) PROVE MatchInv'
  <2>1. Worse
    BY <1>1, <1>2 DEF Worse, Quiet
  <2>2. CASE StartMatch(m) \/ (\E c \in Chunks : TryChunk(m, c)) \/ NoChunkLeft(m)
    BY <2>1, <2>2, SearchKeeps
  <2>3. CASE Recheck(m) \/ ReadOwnLock(m)
    BY <1>2, <2>1, <2>3, LookKeeps DEF Quiet
  <2>4. CASE TryLock(m)
    BY <1>2, <2>4, TryLockKeeps
  <2>5. CASE SaveNewMatch(m)
    BY <1>2, <2>5, SaveNewKeeps
  <2>6. CASE Activate(m)
    BY <1>2, <2>6, ActivateKeeps
  <2>7. CASE DeleteOwnLock(m)
    BY <1>2, <2>7, DeleteOwnKeeps
  <2>8. QED
    BY <1>2, <2>2, <2>3, <2>4, <2>5, <2>6, <2>7 DEF AssignStep
<1>3. ASSUME Quiet, NEW c \in Chunks, NEW op \in Operations, Authorize(c, op)
      PROVE  MatchInv'
  BY <1>3, AuthorizeKeeps
<1>4. ASSUME Quiet, NEW c \in Chunks, WorkerStep(c) PROVE MatchInv'
  BY <1>4, WorkerStepKeeps
<1>5. ASSUME UNCHANGED trouble, PostStep \/ \E r \in Readers : ReaderStep(r) PROVE MatchInv'
  BY <1>5, PostKeeps, ReadKeeps
<1>6. ASSUME Others, NEW m \in Matches, AssignFails(m) PROVE MatchInv'
  <2>1. Worse
    BY <1>1, <1>6 DEF Worse, AssignFails, Fail
  <2>2. QED
    BY <1>6, <2>1, LookKeeps
<1>7. ASSUME Others, NEW m \in Matches, ReplyLost(m) PROVE MatchInv'
  BY <1>7, ReplyLostKeeps
<1>8. ASSUME Others, NEW c \in Chunks, OperationFails(c) PROVE MatchInv'
  <2>1. Worse /\ trouble' # "none"
    BY <1>1, <1>8 DEF Worse, OperationFails, Fail
  <2>2. QED
    BY <1>8, <2>1, EndKeeps DEF OperationFails
<1>9. CASE UNCHANGED vars
  <2>1. UNCHANGED <<redisVars, resultVars, assignVars, workerVars, readerVars, postVars, trouble>>
    BY <1>9 DEF vars
  <2>2. WorkerInv' /\ ScoreInv' /\ ResultInv'
    BY <1>1, <2>1, AssignFrame DEF Worse, Others
  <2>3. TypeOK' /\ AssignInv' /\ LockInv' /\ LeakInv'
    BY <2>1
    DEF redisVars, resultVars, assignVars, workerVars, readerVars, postVars, MatchInv, TypeOK,
        AssignInv, LockInv, LeakInv
  <2>4. QED
    BY <2>2, <2>3 DEF MatchInv
<1>10. QED
  BY <1>2, <1>3, <1>4, <1>5, <1>6, <1>7, <1>8, <1>9 DEF Next, Quiet, Others

\* MatchInv holds in every state (mine_match_service.go, and the open operations of
\* chunk_service.go).
THEOREM MatchInvariant == Spec => []MatchInv
  BY InitMatch, MatchStep, PTL DEF Spec

\* The shape of every variable.
THEOREM MatchTypes == Spec => []TypeOK
<1>1. MatchInv => TypeOK
  BY DEF MatchInv
<1>2. QED
  BY <1>1, MatchInvariant, PTL

\* No two matches are played in one chunk, for any number of matches, chunks and API
\* processes, as long as no failed write has taken effect.
THEOREM OneMatchPerChunk == Spec => []ChunkExclusive
<1>1. MatchInv => ChunkExclusive
  <2> SUFFICES ASSUME MatchInv, trouble # "lostReply",
                      NEW m \in Matches, NEW n \in Matches, m # n, Played(m), Played(n)
               PROVE  match[m].chunk # match[n].chunk
    BY DEF ChunkExclusive
  <2>1. ASSUME NEW o \in Matches, Played(o)
        PROVE  match[o].chunk = achunk[o] /\ lock[achunk[o]] = o
    <3>1. PICK u \in Users : active[u] = o
      BY <2>1 DEF Played, Players
    <3>2. apc[o] = "assigned"
      BY <3>1, NullAssumption DEF MatchInv, LockInv
    <3>3. QED
      BY <2>1, <3>2 DEF MatchInv, LockInv, Played, Ongoing
  <2>2. QED
    BY <2>1
<1>2. QED
  BY <1>1, MatchInvariant, PTL

\* A finished match has a published result, and shows the winner of its row unless
\* another was posted.
THEOREM WinnersAreRecorded == Spec => []ResultRecorded
<1>1. MatchInv => ResultRecorded
  BY DEF MatchInv, ResultInv
<1>2. QED
  BY <1>1, MatchInvariant, PTL

\* Without failures no lock is left behind.
THEOREM LocksAreReturned == Spec => []LockNotLeaked
<1>1. MatchInv => LockNotLeaked
  <2> SUFFICES ASSUME MatchInv, trouble = "none", NEW c \in Chunks, lock[c] # NoMatch,
                      apc[lock[c]] \in {"assigned", "failed"}, wid[c] # lock[c]
               PROVE  Played(lock[c])
    BY DEF LockNotLeaked
  <2> DEFINE m == lock[c]
  <2>1. m \in Matches
    BY DEF MatchInv, TypeOK
  <2>2. apc[m] = "assigned" /\ match[m].status = "ongoing"
    BY DEF MatchInv, LeakInv, Locking
  <2>3. match[m] # NoState /\ \A u \in Players(m) : active[u] = m
    BY <2>1, <2>2 DEF MatchInv, LockInv
  <2>4. Players(m) # {}
    <3>1. Cardinality({u \in Users : TeamOf[m][u] = 0}) = 1
      BY <2>1, MatchAssumption DEF Teams
    <3>2. PICK u \in Users : TeamOf[m][u] = 0
      BY <3>1, FS_EmptySet
    <3>3. u \in Players(m)
      BY <3>2, MatchAssumption, NullAssumption DEF Players, Teams
    <3>4. QED
      BY <3>3
  <2>5. QED
    BY <2>2, <2>3, <2>4 DEF Played, Ongoing
<1>2. QED
  BY <1>1, MatchInvariant, PTL

-----------------------------------------------------------------------------
(* What the scores of a match leave out *)

\* Match m has its chunk: no cell opened from now on escapes its scores.
Held(m) == apc[m] \in {"save", "activate"} \/ (apc[m] = "assigned" /\ Ongoing(m))

Score(m, u) == IF match[m] = NoState THEN 0 ELSE match[m].score[u]

\* The cells that m counts for u once the operation under way has stored its score.
Credit(m, u) ==
    LET c == achunk[m] IN
    IF wpc[c] = "apply" /\ wop[c].user = u THEN Score(m, u) + wnew[c]
    ELSE IF wpc[c] = "saveScore" THEN wmatch[c].score[u]
    ELSE Score(m, u)

Missed(m) == {u \in Users : Credit(m, u) # Cardinality(OpenedBy(achunk[m], u))}

\* The operation under way in the chunk of m is of a user who does not play m: it
\* was authorized before the lock.
Stray(m) ==
    LET c == achunk[m] IN wpc[c] \in {"authorized", "apply"} /\ active[wop[c].user] # m

\* At most one user has cells that are not counted, and none before the stray
\* operation ends.
Counted(m) ==
    Held(m) => /\ \A u, v \in Missed(m) : u = v
               /\ Stray(m) => Missed(m) = {}

\* Without failures every match is counted, the keys point to matches of their users,
\* and an operation that hits a mine opens no cell.
CountInv ==
    trouble = "none" =>
        /\ \A u \in Users : active[u] # NoMatch => u \in Players(active[u])
        /\ \A c \in Chunks : wpc[c] = "apply" /\ HitMine(c) => wnew[c] = 0
        /\ \A m \in Matches : Counted(m)

\* A chunk that was closed has opened cells, and so have its copies: it is never clean
\* again.
DirtyInv ==
    /\ \A c \in Chunks : board[c].closed \/ raced[c] # 0 => OpenedCells(c) # {}
    /\ \A r \in Readers : copy[r] # NoCopy =>
        /\ OpenedCells(copy[r].chunk) # {}
        /\ \E x \in Cells : copy[r].opened[x] # Nobody

\* A player of m has hit a mine, or its end has begun: no cell is opened before m is
\* finished.
Doomed(m) ==
    LET c == achunk[m] IN
    \/ wpc[c] \in Ending
    \/ wpc[c] = "apply" /\ HitMine(c) /\ active[wop[c].user] = m

\* Without failures, the chunk of m is closed and read only when m is doomed, so that a
\* copy has all of its cells; and only users who play m have scores.
Kept(m) ==
    LET c == achunk[m] IN
    Held(m) =>
        /\ raced[c] = 0
        /\ board[c].closed => Doomed(m)
        /\ \A r \in Readers : copy[r] # NoCopy /\ copy[r].chunk = c =>
            Doomed(m) /\ copy[r].opened = board[c].opened
        /\ \A u \in Users : active[u] # m =>
            Score(m, u) = 0 /\ (wpc[c] = "saveScore" => wmatch[c].score[u] = 0)

KeepInv == trouble = "none" => \A m \in Matches : Kept(m)

CellsIn(opened, u) == {x \in Cells : opened[x] = u}

\* Without failures the scores of every match are earned in its chunk, and in every copy
\* of the chunk that may be stored over it.
EarnedInv ==
    trouble = "none" => \A m \in Matches : match[m] # NoState =>
        \A u \in Users :
            /\ Score(m, u) <= Cardinality(OpenedBy(match[m].chunk, u))
            /\ \A r \in Readers : copy[r] # NoCopy /\ copy[r].chunk = match[m].chunk =>
                Score(m, u) <= Cardinality(CellsIn(copy[r].opened, u))

\* A match that has its chunk has the lock of it.
LEMMA HeldLock ==
    ASSUME MatchInv, trouble = "none", NEW m \in Matches, Held(m)
    PROVE  /\ achunk[m] \in Chunks /\ lock[achunk[m]] = m
           /\ apc[m] \in {"save", "activate", "assigned"}
           /\ match[m] # NoState => match[m] \in MatchStates
  BY DEF MatchInv, TypeOK, AssignInv, LockInv, Held, Ongoing, Locking

\* So it is the match that is played there.
LEMMA HeldPlayed ==
    ASSUME MatchInv, trouble = "none", NEW m \in Matches, Held(m),
           NEW o \in Matches, apc[o] = "assigned",
           match[o].status = "ongoing", match[o].chunk = achunk[m]
    PROVE  o = m
<1>1. lock[achunk[m]] = m
  BY HeldLock
<1>2. lock[achunk[o]] = o /\ match[o].chunk = achunk[o]
  BY DEF MatchInv, LockInv
<1>3. QED
  BY <1>1, <1>2

\* A worker that applies an operation to a match before its end has the match of its chunk.
LEMMA HeldApplied ==
    ASSUME MatchInv, trouble = "none", NEW m \in Matches, Held(m),
           wpc[achunk[m]] \in {"saveScore"} \union Ending
    PROVE  wid[achunk[m]] = m
<1>1. achunk[m] \in Chunks
  BY HeldLock
<1>2. wpc[achunk[m]] \in Applying /\ wpc[achunk[m]] \notin Ended
  BY DEF Applying, Ending, Ended
<1>3. /\ wid[achunk[m]] \in Matches /\ match[wid[achunk[m]]].status = "ongoing"
      /\ match[wid[achunk[m]]].chunk = achunk[m]
  BY <1>1, <1>2, OwnMatch
<1>4. apc[wid[achunk[m]]] = "assigned"
  BY <1>1, <1>2 DEF MatchInv, LockInv
<1>5. QED
  BY <1>3, <1>4, HeldPlayed

\* A step that leaves out no more than before.
LEMMA NotMore ==
    ASSUME NEW m \in Matches, Counted(m), Held(m)' => Held(m),
           Missed(m)' \subseteq Missed(m),
           Stray(m)' => Stray(m) \/ Missed(m) = {}
    PROVE  Counted(m)'
  BY DEF Counted

\* The key of a player of a match that is played stays: the keys that are set or
\* deleted are those of other matches' players.
LEMMA KeysStay ==
    ASSUME MatchInv, CountInv, trouble = "none", NEW m \in Matches, Held(m),
           NEW u \in Users, active[u] = m,
           \/ active' = active
           \/ \E n \in Matches : Activate(n)
           \/ \E c \in Chunks : ClearUsers(c)
    PROVE  active'[u] = m
<1>1. u \in Players(m) /\ apc[m] = "assigned" /\ match[m].status = "ongoing"
  BY NullAssumption DEF CountInv, MatchInv, LockInv, Held, Ongoing
<1>2. ASSUME NEW n \in Matches, Activate(n) PROVE active'[u] = m
  <2>1. apc[n] = "activate"
    BY <1>2 DEF Activate
  <2>2. u \notin Players(n)
    BY <1>1, <2>1 DEF MatchInv, LockInv
  <2>3. QED
    BY <1>2, <2>2 DEF Activate, SetActive
<1>3. ASSUME NEW c \in Chunks, ClearUsers(c) PROVE active'[u] = m
  <2>1. wpc[c] \in Applying /\ wpc[c] \in Ended
    BY <1>3 DEF ClearUsers, Applying, Ended
  <2>2. wid[c] \in Matches /\ match[wid[c]].status = "finished" /\ apc[wid[c]] = "assigned"
    BY <2>1, OwnMatch DEF MatchInv, LockInv
  <2>3. u \notin Players(wid[c])
    BY <1>1, <2>2 DEF MatchInv, LockInv
  <2>4. QED
    BY <1>3, <2>3 DEF ClearUsers
<1>4. QED
  BY <1>2, <1>3

\* A step that changes nothing in the match, its chunk, and its worker.
LEMMA Elsewhere ==
    ASSUME MatchInv, NEW m \in Matches, Counted(m), Held(m)' => Held(m),
           achunk'[m] = achunk[m], match'[m] = match[m],
           board'[achunk[m]].opened = board[achunk[m]].opened,
           wpc'[achunk[m]] = wpc[achunk[m]], wop'[achunk[m]] = wop[achunk[m]],
           wnew'[achunk[m]] = wnew[achunk[m]], wmatch'[achunk[m]] = wmatch[achunk[m]],
           Stray(m)' => Stray(m)
    PROVE  Counted(m)'
<1>1. Missed(m)' = Missed(m)
  BY DEF Missed, Credit, Score, OpenedBy
<1>2. QED
  BY <1>1, NotMore

\* No score is stored in a chunk that an assignment has locked.
LEMMA RecheckIdle ==
    ASSUME MatchInv, trouble = "none", NEW m \in Matches, apc[m] = "recheck"
    PROVE  wpc[achunk[m]] # "saveScore"
<1> DEFINE c == achunk[m]
<1>1. c \in Chunks /\ lock[c] = m
  BY DEF MatchInv, AssignInv, LockInv, Locking
<1>2. SUFFICES ASSUME wpc[c] = "saveScore" PROVE FALSE
  OBVIOUS
<1>3. wpc[c] \in Applying /\ wpc[c] \notin Ended
  BY <1>2 DEF Applying, Ended
<1>4. /\ wid[c] \in Matches /\ match[wid[c]].status = "ongoing" /\ match[wid[c]].chunk = c
  BY <1>1, <1>3, OwnMatch
<1>5. apc[wid[c]] = "assigned"
  BY <1>1, <1>3 DEF MatchInv, LockInv
<1>6. lock[c] = wid[c]
  BY <1>4, <1>5 DEF MatchInv, LockInv
<1>7. QED
  BY <1>1, <1>5, <1>6

\* The second look at the chunk sees that nothing is opened, and nothing is counted.
LEMMA RecheckCounts ==
    ASSUME MatchInv, DirtyInv, trouble = "none", NEW m \in Matches, Recheck(m)
    PROVE  Counted(m)'
<1> DEFINE c == achunk[m]
<1>1. /\ UNCHANGED <<match, board, achunk, wpc, wop, wnew, wmatch>>
      /\ apc[m] = "recheck" /\ c \in Chunks /\ lock[c] = m /\ match[m] = NoState
  BY DEF Recheck, redisVars, workerVars, MatchInv, AssignInv, LockInv, Unsaved, Locking
<1>2. SUFFICES ASSUME Held(m)' PROVE Missed(m)' = {}
  BY DEF Counted
<1>3. Clean(c)
  BY <1>1, <1>2 DEF Recheck, Goto, Held, MatchInv, TypeOK
<1>4. \A u \in Users : OpenedBy(c, u) = {}
  BY <1>3, NullAssumption DEF Clean, OpenedCells, OpenedBy
<1>5. wpc[c] # "saveScore"
  BY <1>1, RecheckIdle
<1>6. wpc[c] = "apply" => wnew[c] = 0
  <2> SUFFICES ASSUME wpc[c] = "apply" PROVE wnew[c] = 0
    OBVIOUS
  <2>1. wop[c].user \in Users
    BY <1>1 DEF MatchInv, WorkerInv, Operations
  <2>2. Cardinality(OpenedBy(c, wop[c].user)) = 0
    BY <1>4, <2>1, FS_EmptySet
  <2>3. wnew[c] <= 0
    <3>1. raced[c] = 0
      BY <1>1, <1>3 DEF DirtyInv, Clean
    <3>2. QED
      BY <1>1, <2>2, <3>1 DEF MatchInv, ScoreInv
  <2>4. wnew[c] \in Nat
    BY <1>1, CellCounts DEF MatchInv, TypeOK
  <2>5. QED
    BY <2>3, <2>4
<1>7. \A u \in Users : Credit(m, u)' = 0
  BY <1>1, <1>5, <1>6 DEF Credit, Score
<1>8. \A u \in Users : Cardinality(OpenedBy(c, u)) = 0
  BY <1>4, FS_EmptySet
<1>9. \A u \in Users : Cardinality(OpenedBy(achunk[m], u))' = 0
  BY <1>1, <1>8 DEF OpenedBy
<1>10. QED
  BY <1>7, <1>9 DEF Missed

\* A step of an assignment leaves the boards, the copies and the workers alone.
LEMMA AssignLocal ==
    ASSUME NEW m \in Matches, AssignStep(m) \/ AssignFails(m) \/ ReplyLost(m)
    PROVE  UNCHANGED <<board, wpc, wop, wid, wnew, wmatch>>
  BY DEF AssignStep, StartMatch, TryChunk, NoChunkLeft, TryLock, Recheck, SaveNewMatch, Activate,
         ReadOwnLock, DeleteOwnLock, AssignFails, ReplyLost, redisVars, workerVars

\* A match that has its chunk after another step of an assignment than the second look
\* had it before, with the same scores.
LEMMA AssignHeld ==
    ASSUME MatchInv, trouble = "none", NEW n \in Matches, AssignStep(n),
           NEW m \in Matches, Held(m)', ~(Recheck(n) /\ m = n)
    PROVE  /\ Held(m) /\ achunk'[m] = achunk[m]
           /\ \A u \in Users : Score(m, u)' = Score(m, u)
<1>1. /\ Held(m)' => Held(m) /\ achunk'[m] = achunk[m]
      /\ match'[m] = match[m] \/ (m = n /\ SaveNewMatch(n))
  <2>1. CASE StartMatch(n) \/ (\E c \in Chunks : TryChunk(n, c)) \/ NoChunkLeft(n)
    <3>1. /\ apc[n] \in {"none", "search"} /\ match' = match
          /\ \E p \in {"search", "tryLock", "failed"} : apc' = [apc EXCEPT ![n] = p]
          /\ \A o \in Matches : o # n => achunk'[o] = achunk[o]
      BY <2>1 DEF StartMatch, TryChunk, NoChunkLeft, Goto, redisVars, MatchInv, TypeOK
    <3>2. QED
      BY <3>1 DEF Held, Ongoing, MatchInv, TypeOK
  <2>2. CASE TryLock(n) \/ ReadOwnLock(n) \/ DeleteOwnLock(n)
    <3>1. /\ match' = match /\ achunk' = achunk
          /\ \E p \in {"recheck", "search", "delDirty", "delAbandoned", "failed"} :
                apc' = [apc EXCEPT ![n] = p]
      BY <2>2 DEF TryLock, ReadOwnLock, DeleteOwnLock, Goto, redisVars
    <3>2. QED
      BY <3>1 DEF Held, Ongoing, MatchInv, TypeOK
  <2>3. CASE Recheck(n)
    BY <2>3 DEF Recheck, Goto, redisVars, Held, Ongoing, MatchInv, TypeOK
  <2>4. CASE SaveNewMatch(n)
    BY <2>4 DEF SaveNewMatch, Goto, Held, Ongoing, MatchInv, TypeOK
  <2>5. CASE Activate(n)
    BY <2>5 DEF Activate, Goto, Held, Ongoing, MatchInv, TypeOK
  <2>6. QED
    BY <2>1, <2>2, <2>3, <2>4, <2>5 DEF AssignStep
<1>2. Held(m) /\ achunk'[m] = achunk[m] /\ achunk[m] \in Chunks
  BY <1>1, HeldLock
<1>3. CASE match'[m] = match[m]
  BY <1>2, <1>3 DEF Score
<1>4. CASE m = n /\ SaveNewMatch(n)
  <2>1. match[m] = NoState /\ match'[m] = NewMatch(achunk[m])
    BY <1>4 DEF SaveNewMatch, MatchInv, TypeOK, AssignInv, Unsaved
  <2>2. match'[m] # NoState /\ \A u \in Users : match'[m].score[u] = 0
    BY <1>2, <2>1, NewMatchType
  <2>3. QED
    BY <1>2, <2>1, <2>2 DEF Score
<1>5. QED
  BY <1>1, <1>3, <1>4

\* Every other step of an assignment leaves out no more cells than before.
LEMMA AssignCounts ==
    ASSUME MatchInv, CountInv, DirtyInv, trouble = "none", UNCHANGED trouble,
           NEW n \in Matches, AssignStep(n)
    PROVE  CountInv'
<1>1. UNCHANGED <<board, wpc, wop, wnew, wmatch>>
  BY AssignLocal
<1>2. \A u \in Users : active'[u] # NoMatch => u \in Players(active'[u])
  BY DEF AssignStep, StartMatch, TryChunk, NoChunkLeft, TryLock, Recheck, SaveNewMatch, Activate,
         SetActive, ReadOwnLock, DeleteOwnLock, redisVars, CountInv
<1>3. \A c \in Chunks : wpc'[c] = "apply" /\ HitMine(c)' => wnew'[c] = 0
  BY <1>1 DEF CountInv, HitMine
<1>4. ASSUME NEW m \in Matches PROVE Counted(m)'
  <2>1. CASE Recheck(n) /\ m = n
    BY <2>1, RecheckCounts
  <2>2. CASE ~(Recheck(n) /\ m = n)
    <3>1. SUFFICES ASSUME Held(m)' PROVE Counted(m)'
      BY DEF Counted
    <3>2. Held(m) /\ Counted(m) /\ achunk'[m] = achunk[m] /\ achunk[m] \in Chunks
      BY <2>2, <3>1, AssignHeld, HeldLock DEF CountInv
    <3>3. Stray(m)' => Stray(m)
      <4> SUFFICES ASSUME Stray(m)', ~Stray(m) PROVE FALSE
        OBVIOUS
      <4>1. /\ wpc[achunk[m]] \in {"authorized", "apply"}
            /\ active[wop[achunk[m]].user] = m /\ active'[wop[achunk[m]].user] # m
        BY <1>1, <3>2 DEF Stray
      <4>2. wop[achunk[m]].user \in Users
        BY <3>2, <4>1 DEF MatchInv, WorkerInv, Operations
      <4>3. active' = active \/ Activate(n)
        BY DEF AssignStep, StartMatch, TryChunk, NoChunkLeft, TryLock, Recheck, SaveNewMatch,
               ReadOwnLock, DeleteOwnLock, redisVars
      <4>4. QED
        BY <3>2, <4>1, <4>2, <4>3, KeysStay
    <3>4. Missed(m)' = Missed(m)
      <4>1. \A u \in Users : Score(m, u)' = Score(m, u)
        BY <2>2, <3>1, AssignHeld
      <4>2. \A u \in Users : Credit(m, u)' = Credit(m, u)
        BY <1>1, <3>2, <4>1 DEF Credit
      <4>3. \A u \in Users : OpenedBy(achunk[m], u)' = OpenedBy(achunk[m], u)
        BY <1>1, <3>2 DEF OpenedBy
      <4>4. QED
        BY <4>2, <4>3 DEF Missed
    <3>5. QED
      BY <3>2, <3>3, <3>4, NotMore
  <2>3. QED
    BY <2>1, <2>2
<1>5. QED
  BY <1>2, <1>3, <1>4 DEF CountInv

\* What a step of the worker of c leaves alone.
Local(c) ==
    /\ UNCHANGED <<apc, achunk>>
    /\ \A d \in Chunks \ {c} :
        /\ board'[d] = board[d] /\ wpc'[d] = wpc[d] /\ wop'[d] = wop[d]
        /\ wnew'[d] = wnew[d] /\ wmatch'[d] = wmatch[d]
    /\ \A m \in Matches : match'[m] # match[m] => achunk[m] = c

\* A step of the worker of c touches its own chunk, and the match that is played there.
LEMMA WorkerLocal ==
    ASSUME MatchInv, trouble = "none", NEW c \in Chunks,
           (\E op \in Operations : Authorize(c, op)) \/ WorkerStep(c)
    PROVE  Local(c)
<1>1. UNCHANGED <<apc, achunk>>
  BY DEF WorkerStep, Authorize, CheckLock, OpenNothing, OpenAgain, OpenMine, OpenSafe, ApplyNothing,
         ApplyMine, ApplyScore, ApplyNoScore, SaveScore, SetRow, Publish, SaveFinished, ClearUsers,
         ReadLock, DeleteLock, ReopenInWorker, assignVars
<1>2. \A d \in Chunks \ {c} : board'[d] = board[d]
  BY DEF WorkerStep, Authorize, CheckLock, OpenNothing, OpenAgain, OpenMine, OpenSafe, ApplyNothing,
         ApplyMine, ApplyScore, ApplyNoScore, SaveScore, SetRow, Publish, SaveFinished, ClearUsers,
         ReadLock, DeleteLock, ReopenInWorker, redisVars, MatchInv, TypeOK
<1>3. \A d \in Chunks \ {c} :
        wpc'[d] = wpc[d] /\ wop'[d] = wop[d] /\ wnew'[d] = wnew[d] /\ wmatch'[d] = wmatch[d]
  <2>1. CASE EndOperation(c)
    BY <2>1 DEF EndOperation, MatchInv, TypeOK
  <2>2. CASE ~EndOperation(c)
    BY <2>2
    DEF WorkerStep, Authorize, CheckLock, OpenNothing, OpenAgain, OpenMine, OpenSafe, ApplyNothing,
        ApplyMine, ApplyScore, ApplyNoScore, CompleteOrEnd, FinishWith, SaveScore, SetRow, Publish,
        SaveFinished, ClearUsers, ReadLock, DeleteLock, ReopenInWorker, GotoW, workerVars, MatchInv,
        TypeOK
  <2>3. QED
    BY <2>1, <2>2
<1>4. ASSUME NEW m \in Matches, match'[m] # match[m] PROVE achunk[m] = c
  <2>1. SaveScore(c) \/ SaveFinished(c)
    BY <1>4
    DEF WorkerStep, Authorize, CheckLock, OpenNothing, OpenAgain, OpenMine, OpenSafe, ApplyNothing,
        ApplyMine, ApplyScore, ApplyNoScore, SetRow, Publish, ClearUsers, ReadLock, DeleteLock,
        ReopenInWorker, redisVars
  <2>2. wpc[c] \in Applying /\ m = wid[c]
    BY <1>4, <2>1 DEF SaveScore, SaveFinished, Applying, Ending, MatchInv, TypeOK
  <2>3. match[m].chunk = c /\ apc[m] = "assigned"
    BY <2>2, OwnMatch DEF MatchInv, LockInv
  <2>4. QED
    BY <2>3 DEF MatchInv, LockInv
<1>5. QED
  BY <1>1, <1>2, <1>3, <1>4 DEF Local

\* A match that has its chunk after a step of a worker had it before.
LEMMA WorkerHeld ==
    ASSUME MatchInv, trouble = "none", NEW c \in Chunks,
           (\E op \in Operations : Authorize(c, op)) \/ WorkerStep(c),
           NEW m \in Matches, Held(m)'
    PROVE  Held(m)
<1>1. CASE match'[m] = match[m]
  <2>1. Local(c)
    BY WorkerLocal
  <2>2. QED
    BY <1>1, <2>1 DEF Held, Ongoing, Local
<1>2. CASE match'[m] # match[m]
  <2>1. SaveScore(c) \/ SaveFinished(c)
    BY <1>2
    DEF WorkerStep, Authorize, CheckLock, OpenNothing, OpenAgain, OpenMine, OpenSafe,
        ApplyNothing, ApplyMine, ApplyScore, ApplyNoScore, SetRow, Publish, ClearUsers,
        ReadLock, DeleteLock, ReopenInWorker, redisVars
  <2>2. m = wid[c] /\ wpc[c] \in Applying /\ wpc[c] \notin Ended
    BY <1>2, <2>1 DEF SaveScore, SaveFinished, Applying, Ending, Ended, MatchInv, TypeOK
  <2>3. match[m] # NoState /\ match[m].status = "ongoing" /\ apc[m] = "assigned"
    BY <2>2, OwnMatch DEF MatchInv, LockInv
  <2>4. QED
    BY <2>3 DEF Held, Ongoing
<1>3. QED
  BY <1>1, <1>2

\* Steps in the chunk of m that open no cell and store no score.  An operation that is
\* authorized while m has its chunk is of a user who plays m.
LEMMA StillCounts ==
    ASSUME MatchInv, CountInv, trouble = "none", NEW c \in Chunks, Local(c),
           NEW m \in Matches, Held(m), Held(m)', achunk[m] = c,
           \/ \E op \in Operations : Authorize(c, op)
           \/ CheckLock(c) \/ OpenNothing(c) \/ SetRow(c) \/ Publish(c) \/ SaveFinished(c)
           \/ ClearUsers(c) \/ ReadLock(c) \/ DeleteLock(c)
    PROVE  Counted(m)'
<1>1. /\ wpc[c] \notin {"apply", "saveScore"} /\ wpc'[c] \notin {"apply", "saveScore"}
      /\ board' = board
  BY DEF Authorize, CheckLock, OpenNothing, SetRow, Publish, SaveFinished, ClearUsers, ReadLock,
         DeleteLock, EndOperation, GotoW, redisVars, MatchInv, TypeOK
<1>2. match'[m] = match[m]
  <2>1. CASE SaveFinished(c)
    <3>1. m = wid[c]
      BY <2>1, HeldApplied DEF SaveFinished, Ending
    <3>2. match'[m].status = "finished" /\ apc'[m] = apc[m] /\ apc[m] = "assigned"
      <4>1. wpc[c] \in Applying
        BY <2>1 DEF SaveFinished, Applying, Ending
      <4>2. apc[m] = "assigned" /\ wmatch[c] \in MatchStates
        BY <3>1, <4>1, OwnMatch DEF MatchInv, LockInv
      <4>3. QED
        BY <2>1, <3>1, <4>2 DEF SaveFinished, Local, MatchInv, TypeOK, MatchStates
    <3>3. QED
      BY <3>2 DEF Held, Ongoing
  <2>2. CASE ~SaveFinished(c)
    BY <2>2 DEF Authorize, CheckLock, OpenNothing, SetRow, Publish, ClearUsers, ReadLock,
                DeleteLock, redisVars
  <2>3. QED
    BY <2>1, <2>2
<1>3. Missed(m)' = Missed(m)
  BY <1>1, <1>2 DEF Missed, Credit, Score, OpenedBy, Local
<1>4. ~Stray(m)'
  <2>1. CASE \E op \in Operations : Authorize(c, op)
    <3>1. PICK op \in Operations : Authorize(c, op)
      BY <2>1
    <3>2. wop'[c] = op /\ active' = active /\ op.user \in Users
      BY <3>1 DEF Authorize, redisVars, MatchInv, TypeOK, Operations
    <3>3. CASE ActiveMatch(op.user) = NoMatch
      BY <3>1, <3>3 DEF Authorize, GotoW, Stray, MatchInv, TypeOK, Local
    <3>4. CASE ActiveMatch(op.user) # NoMatch
      <4> DEFINE o == active[op.user]
      <4>1. o \in Matches /\ match[o].chunk = c /\ match[o].status = "ongoing"
        BY <3>1, <3>2, <3>4 DEF Authorize, ActiveMatch, MatchInv, TypeOK
      <4>2. apc[o] = "assigned"
        BY <3>2, <4>1, NullAssumption DEF MatchInv, LockInv
      <4>3. o = m
        BY <4>1, <4>2, HeldPlayed
      <4>4. QED
        BY <3>2, <4>3 DEF Stray, Local
    <3>5. QED
      BY <3>3, <3>4
  <2>2. CASE CheckLock(c)
    <3>1. lock[c] # NoMatch
      BY HeldLock, NullAssumption
    <3>2. QED
      BY <2>2, <3>1 DEF CheckLock, EndOperation, Stray, Local, MatchInv, TypeOK
  <2>3. CASE ~CheckLock(c) /\ ~(\E op \in Operations : Authorize(c, op))
    BY <2>3 DEF OpenNothing, SetRow, Publish, SaveFinished, ClearUsers, ReadLock, DeleteLock,
                EndOperation, GotoW, Stray, Local, MatchInv, TypeOK
  <2>4. QED
    BY <2>1, <2>2, <2>3
<1>5. QED
  BY <1>3, <1>4, NotMore DEF CountInv

\* The cells that an open operation opens are its user's, and it has counted them.
LEMMA SafeCounted ==
    ASSUME MatchInv, NEW c \in Chunks, OpenSafe(c), NEW u \in Users
    PROVE  /\ Cardinality(OpenedBy(c, u)) \in Nat
           /\ wnew'[c] \in Nat
           /\ Cardinality(OpenedBy(c, u)') =
                Cardinality(OpenedBy(c, u)) + IF u = wop[c].user THEN wnew'[c] ELSE 0
<1>1. PICK S \in SUBSET (SafeCells(c) \ OpenedCells(c)) :
        /\ board' = [board EXCEPT ![c].opened =
                        [x \in Cells |-> IF x \in S THEN wop[c].user ELSE @[x]]]
        /\ wnew' = [wnew EXCEPT ![c] = Cardinality(S)]
  BY DEF OpenSafe
<1>2. S \subseteq Cells /\ S \cap OpenedCells(c) = {} /\ OpenedBy(c, u) \subseteq Cells
  BY DEF SafeCells, OpenedBy
<1>3. wnew'[c] = Cardinality(S)
  BY <1>1 DEF MatchInv, TypeOK
<1>4. board'[c].opened = [x \in Cells |-> IF x \in S THEN wop[c].user ELSE board[c].opened[x]]
  BY <1>1 DEF MatchInv, TypeOK, Boards
<1>5. OpenedBy(c, u) \cap S = {}
  BY <1>2, NullAssumption DEF OpenedBy, OpenedCells
<1>6. OpenedBy(c, u)' = IF u = wop[c].user THEN OpenedBy(c, u) \union S ELSE OpenedBy(c, u)
  BY <1>2, <1>4, <1>5 DEF OpenedBy
<1>7. Cardinality(OpenedBy(c, u)) \in Nat /\ Cardinality(S) \in Nat
  BY <1>2, CellCounts
<1>8. Cardinality(OpenedBy(c, u) \union S) = Cardinality(OpenedBy(c, u)) + Cardinality(S)
  BY <1>2, <1>5, CountOpened
<1>9. CASE u = wop[c].user
  BY <1>3, <1>6, <1>7, <1>8, <1>9
<1>10. CASE u # wop[c].user
  BY <1>3, <1>6, <1>7, <1>10
<1>11. QED
  BY <1>9, <1>10

\* The cells that are opened in the chunk of m are credited as soon as they are open.
LEMMA OpenCounts ==
    ASSUME MatchInv, CountInv, trouble = "none", NEW c \in Chunks, Local(c),
           NEW m \in Matches, Held(m), achunk[m] = c,
           OpenAgain(c) \/ OpenMine(c) \/ OpenSafe(c)
    PROVE  Counted(m)'
<1>1. /\ UNCHANGED <<match, active, wop, achunk>>
      /\ wpc[c] = "authorized" /\ wpc'[c] = "apply" /\ wnew[c] = 0
  BY DEF OpenAgain, OpenMine, OpenSafe, GotoW, redisVars, assignVars, MatchInv, TypeOK, WorkerInv
<1>2. wop[c].user \in Users
  BY <1>1 DEF MatchInv, WorkerInv, Operations
<1>3. \A u \in Users : Score(m, u) \in Nat /\ Score(m, u)' = Score(m, u)
  BY <1>1, HeldLock, CellCounts DEF Score, MatchStates
<1>4. \A u \in Users :
        /\ Credit(m, u) = Score(m, u)
        /\ Credit(m, u)' = Score(m, u) + IF u = wop[c].user THEN wnew'[c] ELSE 0
  BY <1>1, <1>3 DEF Credit
<1>5. \A u \in Users :
        /\ Cardinality(OpenedBy(c, u)) \in Nat /\ wnew'[c] \in Nat
        /\ Cardinality(OpenedBy(c, u)') =
            Cardinality(OpenedBy(c, u)) + IF u = wop[c].user THEN wnew'[c] ELSE 0
  <2> SUFFICES ASSUME NEW u \in Users PROVE <1>5!(u)
    OBVIOUS
  <2>1. CASE OpenSafe(c)
    BY <2>1, SafeCounted
  <2>2. CASE OpenAgain(c) \/ OpenMine(c)
    <3>1. OpenedBy(c, u)' = OpenedBy(c, u) /\ wnew'[c] = 0
      <4>1. board[c] \in Boards /\ board \in [Chunks -> Boards]
        BY DEF MatchInv, TypeOK
      <4>2. board'[c].opened = board[c].opened
        BY <2>2, <4>1 DEF OpenAgain, OpenMine, redisVars, Boards
      <4>3. wnew' = wnew
        BY <2>2 DEF OpenAgain, OpenMine
      <4>4. QED
        BY <1>1, <4>2, <4>3 DEF OpenedBy
    <3>2. Cardinality(OpenedBy(c, u)) \in Nat
      BY CellCounts DEF OpenedBy
    <3>3. QED
      BY <3>1, <3>2
  <2>3. QED
    BY <2>1, <2>2
<1>6. \A u \in Users :
        Credit(m, u)' = Cardinality(OpenedBy(c, u)') <=> Credit(m, u) = Cardinality(OpenedBy(c, u))
  <2> SUFFICES ASSUME NEW u \in Users PROVE <1>6!(u)
    OBVIOUS
  <2>1. /\ Score(m, u) \in Nat
        /\ Credit(m, u) = Score(m, u)
        /\ Credit(m, u)' = Score(m, u) + IF u = wop[c].user THEN wnew'[c] ELSE 0
        /\ Cardinality(OpenedBy(c, u)) \in Nat /\ wnew'[c] \in Nat
        /\ Cardinality(OpenedBy(c, u)') =
            Cardinality(OpenedBy(c, u)) + IF u = wop[c].user THEN wnew'[c] ELSE 0
    BY <1>3, <1>4, <1>5
  <2> HIDE DEF Score, Credit
  <2>2. QED
    BY <2>1
<1>7. \A u \in Users :
        Cardinality(OpenedBy(achunk[m], u))' = Cardinality(OpenedBy(c, u)')
  BY <1>1 DEF OpenedBy
<1>8. Missed(m)' = Missed(m)
  BY <1>6, <1>7 DEF Missed
<1>9. Stray(m)' => Stray(m)
  BY <1>1 DEF Stray
<1>10. QED
  BY <1>8, <1>9, NotMore DEF CountInv

\* ApplyOpenResult puts the credit in the worker's copy of the match; the cells of a
\* user who does not play m stay out.
LEMMA ApplyCounts ==
    ASSUME MatchInv, CountInv, trouble = "none", NEW c \in Chunks, Local(c),
           NEW m \in Matches, Held(m), achunk[m] = c,
           ApplyNothing(c) \/ ApplyMine(c) \/ ApplyScore(c) \/ ApplyNoScore(c)
    PROVE  Counted(m)'
<1> DEFINE u0 == wop[c].user
<1>1. /\ UNCHANGED <<match, active, board, apc, achunk>>
      /\ wpc[c] = "apply" /\ wpc'[c] \in {"idle", "setRow", "saveScore"}
  BY DEF ApplyNothing, ApplyMine, ApplyScore, ApplyNoScore, CompleteOrEnd, FinishWith, EndOperation,
         GotoW, redisVars, assignVars, MatchInv, TypeOK
<1>2. u0 \in Users /\ wnew[c] \in Nat
  BY <1>1, CellCounts DEF MatchInv, TypeOK, WorkerInv, Operations
<1>3. \A u \in Users : Score(m, u) \in Nat /\ Score(m, u)' = Score(m, u)
  BY <1>1, HeldLock, CellCounts DEF Score, MatchStates
<1>4. \A u \in Users :
        /\ Credit(m, u) = Score(m, u) + IF u = u0 THEN wnew[c] ELSE 0
        /\ Cardinality(OpenedBy(achunk[m], u))' = Cardinality(OpenedBy(achunk[m], u))
  BY <1>1, <1>3 DEF Credit, OpenedBy
<1>5. ~Stray(m)'
  BY <1>1 DEF Stray
<1>6. CASE ApplyNothing(c)
  <2>1. wpc'[c] = "idle"
    BY <1>6 DEF ApplyNothing, EndOperation, MatchInv, TypeOK
  <2>2. \A u \in Users : Credit(m, u)' = Score(m, u)
    BY <1>1, <1>3, <2>1 DEF Credit
  <2>3. CASE active[u0] = m
    <3>1. /\ match[m] # NoState /\ match[m].chunk = achunk[m] /\ match[m].status = "ongoing"
      BY <2>3, HeldLock, NullAssumption, <1>2 DEF Held, Ongoing, MatchInv, LockInv
    <3>2. AppliesTo(c) = m
      BY <2>3, <3>1, NullAssumption DEF AppliesTo, ActiveMatch
    <3>3. QED
      BY <1>6, <3>2, NullAssumption DEF ApplyNothing
  <2>4. CASE active[u0] # m
    <3>1. Missed(m) = {}
      BY <1>1, <2>4 DEF CountInv, Counted, Stray
    <3>2. \A u \in Missed(m)' : u = u0
      BY <1>3, <1>4, <2>2, <3>1 DEF Missed
    <3>3. QED
      BY <1>5, <3>2 DEF Counted
  <2>5. QED
    BY <2>3, <2>4
<1>7. CASE ~ApplyNothing(c)
  <2>1. AppliesTo(c) = m
    <3> DEFINE o == AppliesTo(c)
    <3>1. o # NoMatch
      BY <1>7 DEF ApplyMine, ApplyScore, ApplyNoScore
    <3>2. /\ o \in Matches /\ active[u0] = o
          /\ match[o].status = "ongoing" /\ match[o].chunk = c
      BY <1>1, <3>1, Applied
    <3>3. apc[o] = "assigned"
      BY <1>2, <3>2, NullAssumption DEF MatchInv, LockInv
    <3>4. QED
      BY <3>2, <3>3, HeldPlayed
  <2>2. \A u \in Users : Credit(m, u)' = Credit(m, u)
    <3>1. CASE ApplyScore(c)
      <4>1. /\ wpc'[c] = "saveScore"
            /\ wmatch'[c] = [match[m] EXCEPT !.score[u0] = @ + wnew[c], !.last = u0]
            /\ match[m] # NoState /\ match[m] \in MatchStates
        BY <1>1, <2>1, <3>1, Applied, NullAssumption
        DEF ApplyScore, GotoW, MatchInv, TypeOK
      <4>2. \A u \in Users :
                wmatch'[c].score[u] = match[m].score[u] + IF u = u0 THEN wnew[c] ELSE 0
        BY <1>2, <1>3, <4>1, CellCounts DEF MatchStates, Score
      <4>3. QED
        BY <1>1, <1>4, <4>1, <4>2 DEF Credit, Score
    <3>2. CASE ApplyMine(c) \/ ApplyNoScore(c)
      <4>1. wnew[c] = 0 /\ wpc'[c] \in {"idle", "setRow"}
        BY <3>2 DEF ApplyMine, ApplyNoScore, CompleteOrEnd, FinishWith, EndOperation, GotoW,
                    CountInv, MatchInv, TypeOK
      <4>2. \A u \in Users : Credit(m, u)' = Score(m, u)
        BY <1>1, <1>3, <4>1 DEF Credit
      <4>3. QED
        BY <1>3, <1>4, <4>1, <4>2
    <3>3. QED
      BY <1>7, <3>1, <3>2
  <2>3. Missed(m)' = Missed(m)
    BY <1>4, <2>2 DEF Missed
  <2>4. QED
    BY <1>1, <1>5, <2>3, NotMore DEF CountInv
<1>8. QED
  BY <1>6, <1>7

\* The credited scores are stored.
LEMMA SaveCounts ==
    ASSUME MatchInv, CountInv, trouble = "none", NEW c \in Chunks, Local(c),
           NEW m \in Matches, Held(m), achunk[m] = c, SaveScore(c)
    PROVE  Counted(m)'
<1>1. wid[c] = m /\ wpc[c] = "saveScore" /\ wpc[c] \in Applying
  BY HeldApplied DEF SaveScore, Applying
<1>2. /\ match'[m] = wmatch[c] /\ wmatch[c] # NoState
      /\ UNCHANGED <<board, achunk>>
      /\ wpc'[c] \in {"setRow", "idle"}
  BY <1>1, OwnMatch DEF SaveScore, CompleteOrEnd, FinishWith, EndOperation, GotoW, assignVars,
                        MatchInv, TypeOK
<1>3. \A u \in Users : Credit(m, u)' = Credit(m, u)
  BY <1>1, <1>2 DEF Credit, Score
<1>4. Missed(m)' = Missed(m)
  BY <1>2, <1>3 DEF Missed, OpenedBy
<1>5. ~Stray(m)'
  BY <1>2 DEF Stray
<1>6. QED
  BY <1>4, <1>5, NotMore DEF CountInv

\* Every step of an operation leaves out at most the cells of one user.
LEMMA WorkerCounts ==
    ASSUME MatchInv, CountInv, trouble = "none", UNCHANGED trouble, NEW c \in Chunks,
           (\E op \in Operations : Authorize(c, op)) \/ WorkerStep(c)
    PROVE  CountInv'
<1>1. Local(c)
  BY WorkerLocal
<1>2. active' = active \/ ClearUsers(c)
  BY DEF WorkerStep, Authorize, CheckLock, OpenNothing, OpenAgain, OpenMine, OpenSafe, ApplyNothing,
         ApplyMine, ApplyScore, ApplyNoScore, SaveScore, SetRow, Publish, SaveFinished, ReadLock,
         DeleteLock, ReopenInWorker, redisVars
<1>3. \A u \in Users : active'[u] # NoMatch => u \in Players(active'[u])
  BY <1>2 DEF CountInv, ClearUsers
<1>4. ASSUME NEW d \in Chunks, wpc'[d] = "apply", HitMine(d)' PROVE wnew'[d] = 0
  <2>1. CASE d # c
    BY <1>1, <1>4, <2>1 DEF CountInv, HitMine, Local
  <2>2. CASE d = c
    <3>1. ReopenInWorker(c) \/ OpenAgain(c) \/ OpenMine(c) \/ OpenSafe(c)
      BY <1>4, <2>2
      DEF WorkerStep, Authorize, CheckLock, OpenNothing, ApplyNothing, ApplyMine, ApplyScore,
          ApplyNoScore, CompleteOrEnd, FinishWith, SaveScore, SetRow, Publish, SaveFinished,
          ClearUsers, ReadLock, DeleteLock, EndOperation, GotoW, MatchInv, TypeOK
    <3>2. CASE ReopenInWorker(c)
      BY <1>4, <2>2, <3>2 DEF ReopenInWorker, workerVars, CountInv, HitMine
    <3>3. CASE OpenAgain(c) \/ OpenMine(c)
      BY <2>2, <3>3 DEF OpenAgain, OpenMine, MatchInv, WorkerInv
    <3>4. CASE OpenSafe(c)
      BY <1>4, <2>2, <3>4 DEF OpenSafe, HitMine, SafeCells
    <3>5. QED
      BY <3>1, <3>2, <3>3, <3>4
  <2>3. QED
    BY <2>1, <2>2
<1>5. ASSUME NEW m \in Matches PROVE Counted(m)'
  <2>1. SUFFICES ASSUME Held(m)' PROVE Counted(m)'
    BY DEF Counted
  <2>2. Held(m)
    BY <2>1, WorkerHeld
  <2>3. achunk[m] \in Chunks /\ achunk'[m] = achunk[m]
    BY <1>1, <2>2, HeldLock DEF Local
  <2>4. CASE achunk[m] = c /\ ~ReopenInWorker(c)
    BY <1>1, <2>1, <2>2, <2>4, StillCounts, OpenCounts, ApplyCounts, SaveCounts DEF WorkerStep
  <2>5. CASE achunk[m] # c \/ ReopenInWorker(c)
    <3> DEFINE d == achunk[m]
    <3>1. /\ board'[d].opened = board[d].opened /\ match'[m] = match[m]
          /\ wpc'[d] = wpc[d] /\ wop'[d] = wop[d] /\ wnew'[d] = wnew[d] /\ wmatch'[d] = wmatch[d]
      <4>1. CASE ReopenInWorker(c)
        BY <2>3, <4>1 DEF ReopenInWorker, workerVars, MatchInv, TypeOK, Boards
      <4>2. CASE d # c
        BY <1>1, <2>3, <4>2 DEF Local
      <4>3. QED
        BY <2>5, <4>1, <4>2
    <3>2. Stray(m)' => Stray(m)
      <4> SUFFICES ASSUME Stray(m)', ~Stray(m) PROVE FALSE
        OBVIOUS
      <4>1. /\ wpc[d] \in {"authorized", "apply"}
            /\ active[wop[d].user] = m /\ active'[wop[d].user] # m
        BY <2>3, <3>1 DEF Stray
      <4>2. wop[d].user \in Users
        BY <2>3, <4>1 DEF MatchInv, WorkerInv, Operations
      <4>3. QED
        BY <1>2, <2>2, <4>1, <4>2, KeysStay
    <3>3. Counted(m)
      BY DEF CountInv
    <3>4. QED
      BY <2>2, <2>3, <3>1, <3>2, <3>3, Elsewhere
  <2>6. QED
    BY <2>4, <2>5
<1>6. QED
  BY <1>3, <1>4, <1>5 DEF CountInv

-----------------------------------------------------------------------------
(* What readers can do to the scores *)

\* No step of a worker takes a cell from anyone, or closes a chunk without opened cells.
LEMMA BoardGrows ==
    ASSUME MatchInv, NEW c \in Chunks,
           (\E op \in Operations : Authorize(c, op)) \/ WorkerStep(c)
    PROVE  \A d \in Chunks :
               /\ \A u \in Users :
                    /\ Cardinality(OpenedBy(d, u)) \in Nat
                    /\ Cardinality(OpenedBy(d, u)') \in Nat
                    /\ Cardinality(OpenedBy(d, u)) <= Cardinality(OpenedBy(d, u)')
               /\ OpenedCells(d) \subseteq OpenedCells(d)'
               /\ board'[d].opened = board[d].opened \/ (d = c /\ OpenSafe(c))
               /\ board'[d].closed /\ ~board[d].closed => d = c /\ OpenMine(c)
<1>1. \A d \in Chunks, u \in Users :
        Cardinality(OpenedBy(d, u)) \in Nat /\ Cardinality(OpenedBy(d, u)') \in Nat
  BY CellCounts DEF OpenedBy
<1>2. board \in [Chunks -> Boards] /\ board[c] \in Boards
  BY DEF MatchInv, TypeOK
<1>3. CASE OpenSafe(c)
  <2>1. PICK S \in SUBSET (SafeCells(c) \ OpenedCells(c)) :
          board' = [board EXCEPT ![c].opened =
                      [x \in Cells |-> IF x \in S THEN wop[c].user ELSE @[x]]]
    BY <1>3 DEF OpenSafe
  <2>2. /\ board'[c].opened = [x \in Cells |-> IF x \in S THEN wop[c].user ELSE board[c].opened[x]]
        /\ board'[c].closed = board[c].closed
        /\ \A d \in Chunks : d # c => board'[d] = board[d]
    BY <1>2, <2>1 DEF Boards
  <2>3. OpenedCells(c) \subseteq OpenedCells(c)'
    BY <2>2 DEF OpenedCells
  <2>4. ASSUME NEW d \in Chunks, NEW u \in Users
        PROVE  Cardinality(OpenedBy(d, u)) <= Cardinality(OpenedBy(d, u)')
    <3>1. CASE d = c
      <4>1. /\ Cardinality(OpenedBy(c, u)) \in Nat /\ wnew'[c] \in Nat
            /\ Cardinality(OpenedBy(c, u)') =
                 Cardinality(OpenedBy(c, u)) + IF u = wop[c].user THEN wnew'[c] ELSE 0
        BY <1>3, SafeCounted
      <4>2. Cardinality(OpenedBy(c, u)) <= Cardinality(OpenedBy(c, u)')
        BY <4>1
      <4>3. QED
        BY <3>1, <4>2
    <3>2. CASE d # c
      <4>1. OpenedBy(d, u)' = OpenedBy(d, u)
        BY <2>2, <3>2 DEF OpenedBy
      <4>2. QED
        BY <1>1, <4>1
    <3>3. QED
      BY <3>1, <3>2
  <2>5. QED
    BY <1>1, <1>3, <2>2, <2>3, <2>4 DEF OpenedCells
<1>4. CASE ~OpenSafe(c)
  <2>1. \/ board' = board
        \/ OpenMine(c) /\ board' = [board EXCEPT ![c].closed = TRUE]
        \/ board' = [board EXCEPT ![c].closed = FALSE]
    BY <1>4
    DEF WorkerStep, Authorize, CheckLock, OpenNothing, OpenAgain, OpenMine, ReopenInWorker,
        ApplyNothing, ApplyMine, ApplyScore, ApplyNoScore, SaveScore, SetRow, Publish, SaveFinished,
        ClearUsers, ReadLock, DeleteLock, redisVars
  <2>2. \A d \in Chunks :
            /\ board'[d].opened = board[d].opened
            /\ board'[d].closed /\ ~board[d].closed => d = c /\ OpenMine(c)
    BY <1>2, <2>1 DEF Boards
  <2>3. \A d \in Chunks, u \in Users : OpenedBy(d, u)' = OpenedBy(d, u)
    BY <2>2 DEF OpenedBy
  <2>4. QED
    BY <1>1, <2>2, <2>3 DEF OpenedCells
<1>5. QED
  BY <1>3, <1>4

\* The closed chunk has a cell of the user who hit the mine.
LEMMA WorkerDirty ==
    ASSUME MatchInv, DirtyInv, UNCHANGED readerVars, NEW c \in Chunks,
           (\E op \in Operations : Authorize(c, op)) \/ WorkerStep(c)
    PROVE  DirtyInv'
<1>1. \A d \in Chunks :
        /\ OpenedCells(d) \subseteq OpenedCells(d)'
        /\ board'[d].closed /\ ~board[d].closed => d = c /\ OpenMine(c)
  BY BoardGrows
<1>2. OpenMine(c) => OpenedCells(c) # {}
  <2> SUFFICES ASSUME OpenMine(c) PROVE OpenedCells(c) # {}
    OBVIOUS
  <2>1. wop[c].user \in Users /\ OpenedBy(c, wop[c].user) # {}
    BY DEF OpenMine, MatchInv, WorkerInv, Operations
  <2>2. QED
    BY <2>1, NullAssumption DEF OpenedBy, OpenedCells
<1>3. \A r \in Readers : copy[r] # NoCopy => copy[r].chunk \in Chunks
  BY DEF MatchInv, TypeOK, Copies
<1>4. \A d \in Chunks : board'[d].closed \/ raced[d] # 0 => OpenedCells(d)' # {}
  BY <1>1, <1>2 DEF DirtyInv
<1>5. \A r \in Readers : copy[r] # NoCopy => OpenedCells(copy[r].chunk)' # {}
  <2> SUFFICES ASSUME NEW r \in Readers, copy[r] # NoCopy PROVE OpenedCells(copy[r].chunk)' # {}
    OBVIOUS
  <2>1. PICK d \in Chunks : d = copy[r].chunk
    BY <1>3
  <2>2. copy'[r].chunk = d /\ OpenedCells(d) # {}
    BY <2>1 DEF readerVars, DirtyInv
  <2>3. OpenedCells(d)' # {}
    BY <1>1, <2>2
  <2>4. OpenedCells(copy[r].chunk)' = OpenedCells(d)'
    BY <2>1, <2>2 DEF OpenedCells, readerVars
  <2>5. QED
    BY <2>3, <2>4
<1>6. QED
  BY <1>4, <1>5 DEF DirtyInv, readerVars

\* A reader copies a closed chunk, and stores the opened cells of its copy.
LEMMA ReadDirty ==
    ASSUME MatchInv, DirtyInv, NEW r \in Readers, ReaderStep(r)
    PROVE  DirtyInv'
<1>1. /\ board \in [Chunks -> Boards] /\ copy \in [Readers -> Copies \union {NoCopy}]
      /\ raced \in [Chunks -> 0 .. MaxRaces]
  BY DEF MatchInv, TypeOK
<1> DEFINE Dirty(opened) == \E x \in Cells : opened[x] # Nobody
<1>2. /\ \A c \in Chunks : board[c].closed \/ raced[c] # 0 => Dirty(board[c].opened)
      /\ \A q \in Readers : copy[q] # NoCopy =>
            /\ copy[q].chunk \in Chunks
            /\ Dirty(board[copy[q].chunk].opened) /\ Dirty(copy[q].opened)
  BY <1>1 DEF DirtyInv, OpenedCells, Copies
<1> DEFINE Goal ==
            /\ \A c \in Chunks : board'[c].closed \/ raced'[c] # 0 => Dirty(board'[c].opened)
            /\ \A q \in Readers : copy'[q] # NoCopy =>
                /\ copy'[q].chunk \in Chunks
                /\ Dirty(board'[copy'[q].chunk].opened) /\ Dirty(copy'[q].opened)
<1>3. SUFFICES Goal
  BY DEF DirtyInv, OpenedCells
<1> HIDE DEF Dirty
<1>4. ASSUME NEW c \in Chunks, LoadClosed(r, c) PROVE Goal
  <2>1. /\ board[c].closed /\ board' = board /\ raced' = raced
        /\ copy' = [copy EXCEPT ![r] = [chunk |-> c, opened |-> board[c].opened]]
    BY <1>4 DEF LoadClosed, redisVars
  <2>2. \A q \in Readers : copy'[q] =
            IF q = r THEN [chunk |-> c, opened |-> board[c].opened] ELSE copy[q]
    BY <1>1, <2>1
  <2>3. QED
    BY <1>2, <2>1, <2>2
<1>5. ASSUME StoreReopened(r) PROVE Goal
  <2> DEFINE c0 == copy[r].chunk
  <2>1. c0 \in Chunks /\ Dirty(copy[r].opened)
    BY <1>2, <1>5 DEF StoreReopened
  <2>2. /\ board' = [board EXCEPT ![c0] = [opened |-> copy[r].opened, closed |-> FALSE]]
        /\ copy' = [copy EXCEPT ![r] = NoCopy]
        /\ raced' = raced \/ raced' = [raced EXCEPT ![c0] = @ + 1]
    BY <1>5 DEF StoreReopened
  <2>3. \A c \in Chunks : board'[c] =
            IF c = c0 THEN [opened |-> copy[r].opened, closed |-> FALSE] ELSE board[c]
    BY <1>1, <2>2
  <2>4. \A c \in Chunks : c # c0 => raced'[c] = raced[c]
    BY <1>1, <2>2
  <2>5. \A q \in Readers : copy'[q] = IF q = r THEN NoCopy ELSE copy[q]
    BY <1>1, <2>2
  <2> HIDE DEF c0
  <2>6. QED
    BY <1>2, <2>1, <2>3, <2>4, <2>5
<1>6. ASSUME EndRead(r) PROVE Goal
  <2>1. board' = board /\ raced' = raced /\ copy' = [copy EXCEPT ![r] = NoCopy]
    BY <1>6 DEF EndRead, redisVars
  <2>2. \A q \in Readers : copy'[q] = IF q = r THEN NoCopy ELSE copy[q]
    BY <1>1, <2>1
  <2>3. QED
    BY <1>2, <2>1, <2>2
<1>7. QED
  BY <1>4, <1>5, <1>6 DEF ReaderStep

\* A chunk that was closed never looks clean again.
LEMMA DirtyStep == MatchInv /\ DirtyInv /\ [Next]_vars => DirtyInv'
<1> SUFFICES ASSUME MatchInv, DirtyInv, [Next]_vars PROVE DirtyInv'
  OBVIOUS
<1>1. ASSUME UNCHANGED <<board, copy, raced>> PROVE DirtyInv'
  BY <1>1 DEF DirtyInv, OpenedCells
<1>2. ASSUME NEW m \in Matches, AssignStep(m) \/ AssignFails(m) \/ ReplyLost(m),
             UNCHANGED readerVars
      PROVE  DirtyInv'
  BY <1>1, <1>2, AssignLocal DEF readerVars
<1>3. ASSUME NEW c \in Chunks, (\E op \in Operations : Authorize(c, op)) \/ WorkerStep(c),
             UNCHANGED readerVars
      PROVE  DirtyInv'
  BY <1>3, WorkerDirty
<1>4. ASSUME NEW c \in Chunks, OperationFails(c), UNCHANGED readerVars PROVE DirtyInv'
  BY <1>1, <1>4 DEF OperationFails, redisVars, readerVars
<1>5. CASE PostStep
  BY <1>1, <1>5 DEF PostStep, redisVars, readerVars
<1>6. ASSUME NEW r \in Readers, ReaderStep(r) PROVE DirtyInv'
  BY <1>6, ReadDirty
<1>7. CASE UNCHANGED vars
  BY <1>1, <1>7 DEF vars, redisVars, readerVars
<1>8. QED
  BY <1>2, <1>3, <1>4, <1>5, <1>6, <1>7 DEF Next

\* Who does not play a match that has its chunk after a step did not play it before.
LEMMA KeysKept ==
    ASSUME MatchInv, CountInv, trouble = "none", NEW m \in Matches, Held(m),
           \/ active' = active
           \/ \E n \in Matches : Activate(n)
           \/ \E c \in Chunks : ClearUsers(c)
    PROVE  \A u \in Users : active'[u] # m => active[u] # m
  BY KeysStay

\* The second look at the chunk sees that it was never closed; the other steps of an
\* assignment change nothing that a match has.
LEMMA AssignKept ==
    ASSUME MatchInv, CountInv, DirtyInv, KeepInv, trouble = "none", UNCHANGED readerVars,
           NEW n \in Matches, AssignStep(n), NEW m \in Matches
    PROVE  Kept(m)'
<1> DEFINE c == achunk[m]
<1>1. UNCHANGED <<board, wpc, wop, wmatch, copy, raced>>
  BY AssignLocal DEF readerVars
<1>2. SUFFICES ASSUME Held(m)' PROVE Kept(m)'
  BY DEF Kept
<1>3. CASE Recheck(n) /\ m = n
  <2>1. /\ UNCHANGED <<match, achunk>>
        /\ apc[m] = "recheck" /\ c \in Chunks /\ match[m] = NoState
    BY <1>3 DEF Recheck, redisVars, MatchInv, AssignInv, Unsaved, Locking
  <2>2. Clean(c)
    BY <1>2, <1>3, <2>1 DEF Recheck, Goto, Held, MatchInv, TypeOK
  <2>3. /\ ~board[c].closed /\ raced[c] = 0
        /\ \A r \in Readers : copy[r] # NoCopy => copy[r].chunk # c
    BY <2>1, <2>2 DEF Clean, DirtyInv
  <2>4. wpc[c] # "saveScore"
    BY <2>1, RecheckIdle
  <2>5. QED
    BY <1>1, <2>1, <2>3, <2>4 DEF Kept, Score
<1>4. CASE ~(Recheck(n) /\ m = n)
  <2>1. /\ Held(m) /\ achunk'[m] = c /\ c \in Chunks
        /\ \A u \in Users : Score(m, u)' = Score(m, u)
    BY <1>2, <1>4, AssignHeld, HeldLock
  <2>2. active' = active \/ Activate(n)
    BY DEF AssignStep, StartMatch, TryChunk, NoChunkLeft, TryLock, Recheck, SaveNewMatch,
           ReadOwnLock, DeleteOwnLock, redisVars
  <2>3. \A u \in Users : active'[u] # m => active[u] # m
    BY <2>1, <2>2, KeysKept
  <2>4. Doomed(m) => Doomed(m)'
    <3>1. wpc[c] = "apply" => wop[c].user \in Users
      BY <2>1 DEF MatchInv, WorkerInv, Operations
    <3>2. QED
      BY <1>1, <2>1, <2>3, <3>1 DEF Doomed, HitMine
  <2>5. Kept(m)
    BY DEF KeepInv
  <2>6. QED
    BY <1>1, <2>1, <2>3, <2>4, <2>5 DEF Kept
<1>5. QED
  BY <1>3, <1>4

\* A doomed match is applied to the mine, and then ended: it stays doomed, and no cell is
\* opened.
LEMMA DoomedStays ==
    ASSUME MatchInv, CountInv, trouble = "none", NEW c \in Chunks,
           (\E op \in Operations : Authorize(c, op)) \/ WorkerStep(c),
           NEW m \in Matches, Held(m), Held(m)', achunk[m] = c, Doomed(m)
    PROVE  /\ Doomed(m)'
           /\ board' = board /\ match'[m] = match[m] /\ wpc'[c] # "saveScore"
<1>1. achunk' = achunk /\ wpc \in [Chunks -> WorkerControl]
  BY WorkerLocal DEF Local, MatchInv, TypeOK
<1>2. CASE wpc[c] \in Ending
  <2>1. SetRow(c) \/ Publish(c) \/ SaveFinished(c)
    BY <1>2
    DEF WorkerStep, Authorize, CheckLock, OpenNothing, OpenAgain, OpenMine, OpenSafe, ReopenInWorker,
        ApplyNothing, ApplyMine, ApplyScore, ApplyNoScore, SaveScore, ClearUsers, ReadLock,
        DeleteLock, Ending
  <2>2. ~SaveFinished(c)
    <3> SUFFICES ASSUME SaveFinished(c) PROVE FALSE
      OBVIOUS
    <3>1. m = wid[c]
      BY <1>2, HeldApplied
    <3>2. wpc[c] \in Applying
      BY <1>2 DEF Applying
    <3>3. apc[m] = "assigned" /\ wmatch[c] \in MatchStates
      BY <3>1, <3>2, OwnMatch DEF MatchInv, LockInv
    <3>4. match'[m].status = "finished" /\ apc' = apc
      BY <3>1, <3>3 DEF SaveFinished, assignVars, MatchInv, TypeOK, MatchStates
    <3>5. QED
      BY <3>3, <3>4 DEF Held, Ongoing
  <2>3. wpc'[c] \in {"publish", "saveFinished"} /\ board' = board /\ match' = match
    BY <1>1, <2>1, <2>2 DEF SetRow, Publish, GotoW, redisVars
  <2>4. QED
    BY <1>1, <2>3 DEF Doomed, Ending
<1>3. CASE wpc[c] = "apply" /\ HitMine(c) /\ active[wop[c].user] = m
  <2>1. wop[c].user \in Users
    BY <1>3 DEF MatchInv, WorkerInv, Operations
  <2>2. /\ match[m] # NoState /\ match[m].chunk = c /\ match[m].status = "ongoing"
    BY <1>3, <2>1, HeldLock, NullAssumption DEF Held, Ongoing, MatchInv, LockInv
  <2>3. AppliesTo(c) = m /\ m # NoMatch
    BY <1>3, <2>2, NullAssumption DEF AppliesTo, ActiveMatch
  <2>4. ApplyMine(c)
    BY <1>3, <2>3
    DEF WorkerStep, Authorize, CheckLock, OpenNothing, OpenAgain, OpenMine, OpenSafe, ReopenInWorker,
        ApplyNothing, ApplyScore, ApplyNoScore, SaveScore, SetRow, Publish, SaveFinished,
        ClearUsers, ReadLock, DeleteLock
  <2>5. wpc'[c] = "setRow" /\ board' = board /\ match' = match
    BY <1>1, <2>4 DEF ApplyMine, FinishWith, GotoW, redisVars
  <2>6. QED
    BY <1>1, <2>5 DEF Doomed, Ending
<1>4. QED
  BY <1>2, <1>3 DEF Doomed

\* A mine that closes the chunk of m is hit by a user who plays m: another one's
\* operation comes from before the lock, and finds no cell of its user.
LEMMA MineDooms ==
    ASSUME MatchInv, CountInv, KeepInv, trouble = "none", NEW c \in Chunks, OpenMine(c),
           NEW m \in Matches, Held(m), achunk[m] = c
    PROVE  Doomed(m)'
<1> DEFINE u0 == wop[c].user
<1>1. /\ wpc[c] = "authorized" /\ wpc'[c] = "apply" /\ HitMine(c)
      /\ UNCHANGED <<wop, active, achunk>>
  BY DEF OpenMine, GotoW, HitMine, assignVars, MatchInv, TypeOK
<1>2. u0 \in Users /\ OpenedBy(c, u0) # {}
  BY <1>1 DEF OpenMine, MatchInv, WorkerInv, Operations
<1>3. active[u0] = m
  <2> SUFFICES ASSUME active[u0] # m PROVE FALSE
    OBVIOUS
  <2>1. Missed(m) = {}
    BY <1>1 DEF Stray, CountInv, Counted
  <2>2. Credit(m, u0) = Cardinality(OpenedBy(c, u0))
    BY <1>2, <2>1 DEF Missed
  <2>3. Credit(m, u0) = 0
    BY <1>1, <1>2 DEF Credit, KeepInv, Kept
  <2>4. OpenedBy(c, u0) \subseteq Cells
    BY DEF OpenedBy
  <2>5. IsFiniteSet(OpenedBy(c, u0))
    BY <2>4, CellCounts
  <2>6. OpenedBy(c, u0) = {}
    BY <2>2, <2>3, <2>5, FS_EmptySet
  <2>7. QED
    BY <1>2, <2>6
<1>4. QED
  BY <1>1, <1>3 DEF Doomed, HitMine

\* A worker closes the chunk of m only when it dooms m, and stores scores only of users
\* who play m.
LEMMA WorkerKept ==
    ASSUME MatchInv, CountInv, KeepInv, trouble = "none", UNCHANGED readerVars,
           NEW c \in Chunks, (\E op \in Operations : Authorize(c, op)) \/ WorkerStep(c),
           NEW m \in Matches
    PROVE  Kept(m)'
<1> SUFFICES ASSUME Held(m)' PROVE Kept(m)'
  BY DEF Kept
<1> DEFINE d == achunk[m]
<1>1. Local(c) /\ Held(m) /\ d \in Chunks /\ achunk'[m] = d /\ Kept(m)
  BY WorkerLocal, WorkerHeld, HeldLock DEF Local, KeepInv
<1>2. active' = active \/ ClearUsers(c)
  BY DEF WorkerStep, Authorize, CheckLock, OpenNothing, OpenAgain, OpenMine, OpenSafe, ApplyNothing,
         ApplyMine, ApplyScore, ApplyNoScore, SaveScore, SetRow, Publish, SaveFinished, ReadLock,
         DeleteLock, ReopenInWorker, redisVars
<1>3. \A u \in Users : active'[u] # m => active[u] # m
  BY <1>1, <1>2, KeysKept
<1>4. CASE d # c
  <2>1. /\ board'[d] = board[d] /\ wpc'[d] = wpc[d] /\ wop'[d] = wop[d]
        /\ wmatch'[d] = wmatch[d] /\ match'[m] = match[m]
    BY <1>1, <1>4 DEF Local
  <2>2. wpc[d] = "apply" => wop[d].user \in Users
    BY <1>1 DEF MatchInv, WorkerInv, Operations
  <2>3. Doomed(m) => Doomed(m)'
    BY <1>1, <1>3, <2>1, <2>2 DEF Doomed, HitMine
  <2>4. \A u \in Users : Score(m, u)' = Score(m, u)
    BY <2>1 DEF Score
  <2>5. QED
    BY <1>1, <1>3, <2>1, <2>3, <2>4 DEF Kept, readerVars
<1>5. CASE d = c /\ Doomed(m)
  <2>1. Doomed(m)' /\ board' = board /\ match'[m] = match[m] /\ wpc'[c] # "saveScore"
    BY <1>1, <1>5, DoomedStays
  <2>2. \A u \in Users : Score(m, u)' = Score(m, u)
    BY <2>1 DEF Score
  <2>3. QED
    BY <1>1, <1>3, <1>5, <2>1, <2>2 DEF Kept, readerVars
<1>6. CASE d = c /\ ~Doomed(m)
  <2>1. /\ ~board[c].closed /\ raced[c] = 0
        /\ \A r \in Readers : ~(copy[r] # NoCopy /\ copy[r].chunk = c)
    BY <1>1, <1>6 DEF Kept
  <2>2. board'[c].closed => Doomed(m)'
    BY <1>1, <1>6, <2>1, BoardGrows, MineDooms
  <2>3. \A u \in Users : active[u] # m => Score(m, u)' = 0
    <3>1. CASE match'[m] = match[m]
      BY <1>1, <3>1 DEF Kept, Score
    <3>2. CASE match'[m] # match[m]
      <4>1. SaveScore(c) \/ SaveFinished(c)
        BY <3>2
        DEF WorkerStep, Authorize, CheckLock, OpenNothing, OpenAgain, OpenMine, OpenSafe,
            ApplyNothing, ApplyMine, ApplyScore, ApplyNoScore, SetRow, Publish, ClearUsers,
            ReadLock, DeleteLock, ReopenInWorker, redisVars
      <4>2. SaveScore(c)
        BY <1>6, <4>1 DEF SaveFinished, Doomed, Ending
      <4>3. wpc[c] = "saveScore" /\ wid[c] = m
        BY <1>1, <1>6, <4>2, HeldApplied DEF SaveScore
      <4>4. match'[m] = wmatch[c]
        BY <4>2, <4>3 DEF SaveScore, MatchInv, TypeOK
      <4>5. QED
        BY <1>1, <1>6, <4>3, <4>4 DEF Kept, Score
    <3>3. QED
      BY <3>1, <3>2
  <2>4. ASSUME wpc'[c] = "saveScore", NEW u \in Users, active[u] # m
        PROVE  wmatch'[c].score[u] = 0
    <3>1. ApplyScore(c)
      BY <2>4
      DEF WorkerStep, Authorize, CheckLock, OpenNothing, OpenAgain, OpenMine, OpenSafe,
          ReopenInWorker, ApplyNothing, ApplyMine, ApplyNoScore, CompleteOrEnd, FinishWith,
          SaveScore, SetRow, Publish, SaveFinished, ClearUsers, ReadLock, DeleteLock, EndOperation,
          GotoW, workerVars, MatchInv, TypeOK
    <3> DEFINE o == AppliesTo(c)
               u0 == wop[c].user
    <3>2. /\ wpc[c] = "apply" /\ o # NoMatch
          /\ wmatch' = [wmatch EXCEPT ![c] =
                            [match[o] EXCEPT !.score[u0] = @ + wnew[c], !.last = u0]]
      BY <3>1 DEF ApplyScore
    <3>3. /\ o \in Matches /\ u0 \in Users /\ active[u0] = o
          /\ match[o] \in MatchStates /\ match[o] # NoState
          /\ match[o].status = "ongoing" /\ match[o].chunk = c
      BY <3>2, Applied
    <3>4. apc[o] = "assigned"
      BY <3>3, NullAssumption DEF MatchInv, LockInv
    <3>5. o = m
      BY <1>1, <1>6, <3>3, <3>4, HeldPlayed
    <3>6. wmatch'[c] = [match[m] EXCEPT !.score[u0] = @ + wnew[c], !.last = u0]
      BY <3>2, <3>5 DEF MatchInv, TypeOK
    <3>7. u # u0 /\ match[m] \in MatchStates /\ match[m] # NoState
      BY <2>4, <3>3, <3>5
    <3>8. wmatch'[c].score[u] = match[m].score[u]
      BY <3>6, <3>7 DEF MatchStates
    <3>9. QED
      BY <1>1, <2>4, <3>7, <3>8 DEF Kept, Score
  <2>5. QED
    BY <1>1, <1>3, <1>6, <2>1, <2>2, <2>3, <2>4 DEF Kept, readerVars
<1>7. QED
  BY <1>4, <1>5, <1>6

\* A reader copies the chunk of m only when m is doomed, with all of its cells, and so it
\* closes none of them.
LEMMA ReadKept ==
    ASSUME MatchInv, KeepInv, trouble = "none", NEW r \in Readers, ReaderStep(r),
           NEW m \in Matches
    PROVE  /\ Kept(m)'
           /\ Held(m) => board'[achunk[m]].opened = board[achunk[m]].opened
<1> DEFINE c == achunk[m]
<1>1. UNCHANGED <<lock, match, active, resultVars, assignVars, workerVars>>
  BY ReadStores
<1>2. /\ Held(m)' = Held(m) /\ Doomed(m)' = Doomed(m)
      /\ achunk' = achunk /\ wpc' = wpc /\ wmatch' = wmatch /\ active' = active
      /\ \A u \in Users : Score(m, u)' = Score(m, u)
  BY <1>1 DEF Held, Ongoing, Doomed, HitMine, Score, assignVars, workerVars
<1> SUFFICES ASSUME Held(m) PROVE Kept(m)' /\ board'[c].opened = board[c].opened
  BY <1>2 DEF Kept
<1>3. c \in Chunks /\ Kept(m)
  BY HeldLock DEF KeepInv
<1>4. /\ raced[c] = 0
      /\ board[c].closed => Doomed(m)
      /\ \A q \in Readers : copy[q] # NoCopy /\ copy[q].chunk = c =>
            Doomed(m) /\ copy[q].opened = board[c].opened
  BY <1>3 DEF Kept
<1>5. board \in [Chunks -> Boards] /\ copy \in [Readers -> Copies \union {NoCopy}]
  BY DEF MatchInv, TypeOK
<1> DEFINE Goal ==
            /\ raced'[c] = 0 /\ board'[c].opened = board[c].opened
            /\ board'[c].closed => Doomed(m)
            /\ \A q \in Readers : copy'[q] # NoCopy /\ copy'[q].chunk = c =>
                Doomed(m) /\ copy'[q].opened = board[c].opened
<1>6. ASSUME NEW e \in Chunks, LoadClosed(r, e) PROVE Goal
  <2>1. /\ board[e].closed /\ board' = board /\ raced' = raced
        /\ copy' = [copy EXCEPT ![r] = [chunk |-> e, opened |-> board[e].opened]]
    BY <1>6 DEF LoadClosed, redisVars
  <2>2. \A q \in Readers : copy'[q] =
            IF q = r THEN [chunk |-> e, opened |-> board[e].opened] ELSE copy[q]
    BY <1>5, <2>1
  <2>3. QED
    BY <1>4, <2>1, <2>2
<1>7. ASSUME StoreReopened(r) PROVE Goal
  <2> DEFINE e == copy[r].chunk
  <2>1. /\ copy[r] # NoCopy /\ e \in Chunks
        /\ board' = [board EXCEPT ![e] = [opened |-> copy[r].opened, closed |-> FALSE]]
        /\ copy' = [copy EXCEPT ![r] = NoCopy]
        /\ copy[r].opened = board[e].opened => raced' = raced
        /\ raced' = raced \/ raced' = [raced EXCEPT ![e] = @ + 1]
    BY <1>5, <1>7 DEF StoreReopened, Copies
  <2>2. \A q \in Readers : copy'[q] = IF q = r THEN NoCopy ELSE copy[q]
    BY <1>5, <2>1
  <2>3. raced'[c] = raced[c]
    BY <1>3, <1>4, <2>1 DEF MatchInv, TypeOK
  <2>4. board'[c] = IF c = e THEN [opened |-> copy[r].opened, closed |-> FALSE] ELSE board[c]
    BY <1>3, <1>5, <2>1
  <2>5. QED
    BY <1>4, <2>1, <2>2, <2>3, <2>4
<1>8. ASSUME EndRead(r) PROVE Goal
  <2>1. board' = board /\ raced' = raced /\ copy' = [copy EXCEPT ![r] = NoCopy]
    BY <1>8 DEF EndRead, redisVars
  <2>2. \A q \in Readers : copy'[q] = IF q = r THEN NoCopy ELSE copy[q]
    BY <1>5, <2>1
  <2>3. QED
    BY <1>4, <2>1, <2>2
<1>9. Goal
  BY <1>6, <1>7, <1>8 DEF ReaderStep
<1> HIDE DEF Goal
<1>10. Kept(m)'
  BY <1>2, <1>3, <1>9 DEF Kept, Goal
<1>11. QED
  BY <1>9, <1>10 DEF Goal

\* Cells are counted in numbers.
LEMMA Counts ==
    ASSUME MatchInv
    PROVE  /\ \A opened, u : Cardinality(CellsIn(opened, u)) \in Nat
           /\ \A c, u : OpenedBy(c, u) = CellsIn(board[c].opened, u)
           /\ \A m \in Matches : match[m] # NoState =>
                /\ match[m] \in MatchStates /\ match[m].chunk \in Chunks
                /\ \A u \in Users : Score(m, u) = match[m].score[u] /\ Score(m, u) \in Nat
<1>1. \A opened, u : Cardinality(CellsIn(opened, u)) \in Nat
  BY CellCounts DEF CellsIn
<1>2. \A c, u : OpenedBy(c, u) = CellsIn(board[c].opened, u)
  BY DEF OpenedBy, CellsIn
<1>3. \A m \in Matches : match[m] # NoState => match[m] \in MatchStates
  BY DEF MatchInv, TypeOK
<1>4. QED
  BY <1>1, <1>2, <1>3 DEF MatchStates, Score

\* A new match has no score.
LEMMA AssignEarned ==
    ASSUME MatchInv, MatchInv', EarnedInv, trouble = "none", UNCHANGED readerVars,
           NEW n \in Matches, AssignStep(n)
    PROVE  EarnedInv'
<1>1. UNCHANGED <<board, copy>>
  BY AssignLocal DEF readerVars
<1>2. SUFFICES ASSUME NEW m \in Matches, match'[m] # NoState, NEW u \in Users
               PROVE  LET k == match'[m].chunk IN
                      /\ Score(m, u)' <= Cardinality(CellsIn(board[k].opened, u))
                      /\ \A r \in Readers : copy[r] # NoCopy /\ copy[r].chunk = k =>
                            Score(m, u)' <= Cardinality(CellsIn(copy[r].opened, u))
  BY <1>1 DEF EarnedInv, OpenedBy, CellsIn
<1>3. CASE match'[m] = match[m]
  BY <1>2, <1>3, Counts DEF EarnedInv, Score
<1>4. CASE match'[m] # match[m]
  <2>1. SaveNewMatch(n)
    BY <1>4
    DEF AssignStep, StartMatch, TryChunk, NoChunkLeft, TryLock, Recheck, Activate, ReadOwnLock,
        DeleteOwnLock, redisVars
  <2>2. match'[m] = NewMatch(achunk[m]) /\ achunk[m] \in Chunks
    BY <1>4, <2>1 DEF SaveNewMatch, MatchInv, TypeOK, AssignInv, Locking
  <2>3. Score(m, u)' = 0
    BY <2>2, NewMatchType DEF Score
  <2>4. QED
    BY <2>3, Counts
<1>5. QED
  BY <1>3, <1>4

\* The scores that a worker stores are earned in its chunk, and a copy of it has all of
\* its cells then.
LEMMA WorkerEarned ==
    ASSUME MatchInv, KeepInv, EarnedInv, trouble = "none", UNCHANGED <<trouble, readerVars>>,
           NEW c \in Chunks, (\E op \in Operations : Authorize(c, op)) \/ WorkerStep(c)
    PROVE  EarnedInv'
<1>1. copy' = copy /\ raced' = raced
  BY DEF readerVars
<1>2. SUFFICES ASSUME NEW m \in Matches, match'[m] # NoState, NEW u \in Users
               PROVE  LET k == match'[m].chunk IN
                      /\ Score(m, u)' <= Cardinality(CellsIn(board'[k].opened, u))
                      /\ \A r \in Readers : copy[r] # NoCopy /\ copy[r].chunk = k =>
                            Score(m, u)' <= Cardinality(CellsIn(copy[r].opened, u))
  BY <1>1 DEF EarnedInv, OpenedBy, CellsIn
<1>3. CASE match'[m] = match[m]
  <2> DEFINE k == match[m].chunk
  <2>1. /\ k \in Chunks /\ Score(m, u) \in Nat /\ Score(m, u)' = Score(m, u)
        /\ Score(m, u) <= Cardinality(CellsIn(board[k].opened, u))
        /\ \A r \in Readers : copy[r] # NoCopy /\ copy[r].chunk = k =>
             Score(m, u) <= Cardinality(CellsIn(copy[r].opened, u))
    BY <1>2, <1>3, Counts DEF EarnedInv, Score
  <2>2. ASSUME NEW d \in Chunks
        PROVE  Cardinality(CellsIn(board[d].opened, u)) <= Cardinality(CellsIn(board'[d].opened, u))
    <3>1. Cardinality(OpenedBy(d, u)) <= Cardinality(OpenedBy(d, u)')
      BY BoardGrows
    <3>2. /\ OpenedBy(d, u) = CellsIn(board[d].opened, u)
          /\ OpenedBy(d, u)' = CellsIn(board'[d].opened, u)
      BY DEF OpenedBy, CellsIn
    <3>3. QED
      BY <3>1, <3>2
  <2> HIDE DEF k
  <2>3. Cardinality(CellsIn(board[k].opened, u)) <= Cardinality(CellsIn(board'[k].opened, u))
    BY <2>1, <2>2
  <2>4. /\ Cardinality(CellsIn(board[k].opened, u)) \in Nat
        /\ Cardinality(CellsIn(board'[k].opened, u)) \in Nat
    BY Counts
  <2>5. Score(m, u)' <= Cardinality(CellsIn(board'[k].opened, u))
    BY <2>1, <2>3, <2>4
  <2>6. match'[m].chunk = k
    BY <1>3 DEF k
  <2>7. QED
    BY <2>1, <2>5, <2>6
<1>4. CASE match'[m] # match[m]
  <2>1. SaveScore(c) \/ SaveFinished(c)
    BY <1>4
    DEF WorkerStep, Authorize, CheckLock, OpenNothing, OpenAgain, OpenMine, OpenSafe,
        ApplyNothing, ApplyMine, ApplyScore, ApplyNoScore, SetRow, Publish, ClearUsers,
        ReadLock, DeleteLock, ReopenInWorker, redisVars
  <2>2. wpc[c] \in {"saveScore", "saveFinished"} /\ wpc[c] \in Applying /\ wpc[c] \notin Ended
    BY <2>1 DEF SaveScore, SaveFinished, Applying, Ending, Ended
  <2>3. m = wid[c] /\ board' = board
    BY <1>4, <2>1 DEF SaveScore, SaveFinished, MatchInv, TypeOK
  <2>4. /\ match[m] # NoState /\ match[m].status = "ongoing" /\ match[m].chunk = c
        /\ wmatch[c] \in MatchStates /\ wmatch[c].chunk = c
    BY <2>2, <2>3, OwnMatch
  <2>5. apc[m] = "assigned" /\ achunk[m] = c
    BY <2>2, <2>3, <2>4 DEF MatchInv, LockInv
  <2>6. Held(m) /\ Kept(m)
    BY <2>4, <2>5 DEF Held, Ongoing, KeepInv
  <2>7. match'[m].score = wmatch[c].score /\ match'[m].chunk = c
    <3>1. match \in [Matches -> MatchStates \union {NoState}] /\ m \in Matches
      BY DEF MatchInv, TypeOK
    <3>2. CASE SaveScore(c)
      BY <2>3, <2>4, <3>1, <3>2 DEF SaveScore
    <3>3. CASE SaveFinished(c)
      <4>1. match'[m] = [wmatch[c] EXCEPT !.status = "finished", !.winner = wwin[c]]
        BY <2>3, <3>1, <3>3 DEF SaveFinished
      <4>2. QED
        BY <2>4, <4>1 DEF MatchStates
    <3>4. QED
      BY <2>1, <3>2, <3>3
  <2>8. Score(m, u)' = wmatch[c].score[u]
    BY <1>2, <2>7 DEF Score
  <2>9. wmatch[c].score[u] <= Cardinality(OpenedBy(c, u))
    BY <2>2, <2>5, <2>6 DEF Kept, MatchInv, ScoreInv
  <2>10. OpenedBy(c, u) = CellsIn(board'[c].opened, u)
    BY <2>3 DEF OpenedBy, CellsIn
  <2>11. ASSUME NEW r \in Readers, copy[r] # NoCopy, copy[r].chunk = c
         PROVE  CellsIn(copy[r].opened, u) = OpenedBy(c, u)
    BY <2>5, <2>6, <2>11 DEF Kept, CellsIn, OpenedBy
  <2>12. QED
    BY <2>7, <2>8, <2>9, <2>10, <2>11
<1>5. QED
  BY <1>3, <1>4

\* What is earned in a chunk is earned in the copy that is taken, and what is earned in a
\* copy is earned in the chunk that it is stored over.
LEMMA ReadEarned ==
    ASSUME MatchInv, EarnedInv, trouble = "none", UNCHANGED trouble,
           NEW r \in Readers, ReaderStep(r)
    PROVE  EarnedInv'
<1>1. match' = match /\ board \in [Chunks -> Boards] /\ copy \in [Readers -> Copies \union {NoCopy}]
  BY ReadStores DEF MatchInv, TypeOK
<1>2. SUFFICES ASSUME NEW m \in Matches, match[m] # NoState, NEW u \in Users
               PROVE  LET k == match[m].chunk IN
                      /\ Score(m, u) <= Cardinality(CellsIn(board'[k].opened, u))
                      /\ \A q \in Readers : copy'[q] # NoCopy /\ copy'[q].chunk = k =>
                            Score(m, u) <= Cardinality(CellsIn(copy'[q].opened, u))
  BY <1>1 DEF EarnedInv, Score, OpenedBy, CellsIn
<1> DEFINE k == match[m].chunk
           Fits(opened) == Score(m, u) <= Cardinality(CellsIn(opened, u))
<1>3. /\ k \in Chunks /\ Fits(board[k].opened)
      /\ \A q \in Readers : copy[q] # NoCopy /\ copy[q].chunk = k => Fits(copy[q].opened)
  BY <1>2, Counts DEF EarnedInv
<1> DEFINE Goal ==
            /\ Fits(board'[k].opened)
            /\ \A q \in Readers : copy'[q] # NoCopy /\ copy'[q].chunk = k => Fits(copy'[q].opened)
<1>4. SUFFICES Goal
  OBVIOUS
<1> HIDE DEF Fits, k
<1>5. ASSUME NEW e \in Chunks, LoadClosed(r, e) PROVE Goal
  <2>1. /\ board' = board
        /\ copy' = [copy EXCEPT ![r] = [chunk |-> e, opened |-> board[e].opened]]
    BY <1>5 DEF LoadClosed, redisVars
  <2>2. \A q \in Readers : copy'[q] =
            IF q = r THEN [chunk |-> e, opened |-> board[e].opened] ELSE copy[q]
    BY <1>1, <2>1
  <2>3. QED
    BY <1>3, <2>1, <2>2
<1>6. ASSUME StoreReopened(r) PROVE Goal
  <2> DEFINE e == copy[r].chunk
  <2>1. /\ copy[r] # NoCopy /\ e \in Chunks
        /\ board' = [board EXCEPT ![e] = [opened |-> copy[r].opened, closed |-> FALSE]]
        /\ copy' = [copy EXCEPT ![r] = NoCopy]
    BY <1>1, <1>6 DEF StoreReopened, Copies
  <2>2. \A q \in Readers : copy'[q] = IF q = r THEN NoCopy ELSE copy[q]
    BY <1>1, <2>1
  <2>3. board'[k] = IF k = e THEN [opened |-> copy[r].opened, closed |-> FALSE] ELSE board[k]
    BY <1>1, <1>3, <2>1
  <2>4. QED
    BY <1>3, <2>1, <2>2, <2>3
<1>7. ASSUME EndRead(r) PROVE Goal
  <2>1. board' = board /\ copy' = [copy EXCEPT ![r] = NoCopy]
    BY <1>7 DEF EndRead, redisVars
  <2>2. \A q \in Readers : copy'[q] = IF q = r THEN NoCopy ELSE copy[q]
    BY <1>1, <2>1
  <2>3. QED
    BY <1>3, <2>1, <2>2
<1>8. QED
  BY <1>5, <1>6, <1>7 DEF ReaderStep

CreditInv == DirtyInv /\ CountInv /\ KeepInv /\ EarnedInv

\* Without failures every step keeps what the scores rest on.
LEMMA CreditStep ==
    ASSUME MatchInv, MatchInv', CreditInv, [Next]_vars
    PROVE  CreditInv'
<1>1. DirtyInv'
  BY DirtyStep DEF CreditInv
<1>2. SUFFICES ASSUME trouble' = "none" PROVE CountInv' /\ KeepInv' /\ EarnedInv'
  BY <1>1 DEF CreditInv, CountInv, KeepInv, EarnedInv
<1>3. ASSUME NEW m \in Matches, AssignFails(m) \/ ReplyLost(m) PROVE FALSE
  BY <1>2, <1>3 DEF AssignFails, ReplyLost, Fail
<1>4. ASSUME NEW c \in Chunks, OperationFails(c) PROVE FALSE
  BY <1>2, <1>4 DEF OperationFails, Fail
<1>5. trouble = "none" /\ UNCHANGED trouble
  BY <1>2, <1>3, <1>4 DEF Next, vars
<1>6. MatchInv /\ DirtyInv /\ CountInv /\ KeepInv /\ EarnedInv
  BY DEF CreditInv
<1>7. ASSUME NEW n \in Matches, AssignStep(n), UNCHANGED readerVars
      PROVE  CountInv' /\ KeepInv' /\ EarnedInv'
  BY <1>5, <1>6, <1>7, AssignCounts, AssignKept, AssignEarned DEF KeepInv
<1>8. ASSUME NEW c \in Chunks, (\E op \in Operations : Authorize(c, op)) \/ WorkerStep(c),
             UNCHANGED readerVars
      PROVE  CountInv' /\ KeepInv' /\ EarnedInv'
  BY <1>5, <1>6, <1>8, WorkerCounts, WorkerKept, WorkerEarned DEF KeepInv
<1>9. ASSUME NEW r \in Readers, ReaderStep(r) PROVE CountInv' /\ KeepInv' /\ EarnedInv'
  <2>1. UNCHANGED <<lock, match, active, resultVars, assignVars, workerVars>>
    BY <1>9, ReadStores
  <2>2. ASSUME NEW m \in Matches
        PROVE  Kept(m)' /\ (Held(m) => board'[achunk[m]].opened = board[achunk[m]].opened)
    BY <1>5, <1>6, <1>9, ReadKept
  <2>3. ASSUME NEW m \in Matches PROVE Counted(m)'
    <3>1. Counted(m) /\ Held(m)' = Held(m) /\ Stray(m)' = Stray(m)
      BY <1>5, <1>6, <2>1 DEF CountInv, Held, Ongoing, Stray, assignVars, workerVars
    <3>2. QED
      BY <1>6, <2>1, <2>2, <3>1, Elsewhere DEF Counted, assignVars, workerVars
  <2>4. CountInv'
    BY <1>5, <1>6, <2>1, <2>3 DEF CountInv, HitMine, workerVars
  <2>5. QED
    BY <1>5, <1>6, <1>9, <2>2, <2>4, ReadEarned DEF KeepInv
<1>10. ASSUME UNCHANGED <<redisVars, assignVars, workerVars, readerVars>>
       PROVE  CountInv' /\ KeepInv' /\ EarnedInv'
  <2>1. UNCHANGED <<match, active, board, apc, achunk, wpc, wop, wnew, wmatch, copy, raced, trouble>>
    BY <1>5, <1>10 DEF redisVars, assignVars, workerVars, readerVars
  <2>2. ASSUME NEW m \in Matches PROVE Counted(m)' /\ Kept(m)'
    <3>1. Counted(m) /\ Kept(m)
      BY <1>5, <1>6 DEF CountInv, KeepInv
    <3>2. /\ Held(m)' = Held(m) /\ Stray(m)' = Stray(m) /\ Missed(m)' = Missed(m)
          /\ Doomed(m)' = Doomed(m) /\ \A u \in Users : Score(m, u)' = Score(m, u)
      BY <2>1 DEF Held, Ongoing, Stray, Missed, Credit, Score, OpenedBy, Doomed, HitMine
    <3>3. QED
      BY <2>1, <3>1, <3>2 DEF Counted, Kept
  <2>3. CountInv' /\ KeepInv'
    BY <1>6, <2>1, <2>2 DEF CountInv, KeepInv, HitMine
  <2>4. EarnedInv'
    BY <1>6, <2>1 DEF EarnedInv, Score, OpenedBy, CellsIn
  <2>5. QED
    BY <2>3, <2>4
<1>11. CASE PostStep
  BY <1>10, <1>11 DEF PostStep
<1>12. CASE UNCHANGED vars
  BY <1>10, <1>12 DEF vars
<1>13. QED
  BY <1>3, <1>4, <1>7, <1>8, <1>9, <1>11, <1>12 DEF Next

\* CreditInv holds in every state: without failures the scores count the cells of all but
\* one user, an old copy never touches a match that is played, and scores stay earned in
\* every copy that may still be stored.
THEOREM CreditInvariant == Spec => []CreditInv
<1>1. Init => CreditInv
  BY DEF Init, CreditInv, DirtyInv, CountInv, Counted, Held, KeepInv, Kept, EarnedInv
<1>2. MatchInv /\ MatchInv' /\ CreditInv /\ [Next]_vars => CreditInv'
  BY CreditStep
<1>3. QED
  BY <1>1, <1>2, MatchInvariant, PTL DEF Spec

\* No player scores more than the cells they opened, for any boards and any number of
\* matches and readers: without failures always, and after one until cells of the chunk
\* are closed again.
THEOREM ScoresAreEarned == Spec => []ScoreEarned
<1>1. MatchInv /\ CreditInv => ScoreEarned
  <2> SUFFICES ASSUME MatchInv, CreditInv,
                      NEW m \in Matches, match[m] # NoState,
                      trouble = "none" \/ raced[match[m].chunk] = 0, NEW u \in Users
               PROVE  match[m].score[u] <= Cardinality(OpenedBy(match[m].chunk, u))
    BY DEF ScoreEarned
  <2>1. CASE trouble = "none"
    BY <2>1 DEF CreditInv, EarnedInv, Score
  <2>2. CASE raced[match[m].chunk] = 0
    <3>1. match[m].chunk \in Chunks
      BY Counts
    <3>2. QED
      BY <2>2, <3>1 DEF MatchInv, ScoreInv, Earned
  <2>3. QED
    BY <2>1, <2>2
<1>2. QED
  BY <1>1, MatchInvariant, CreditInvariant, PTL

\* Without failures and between operations, the scores of a match that is played count
\* every cell opened in its chunk but those of one user.
THEOREM OneUserUncounted == Spec => []OneUncounted
<1>1. MatchInv /\ CreditInv => OneUncounted
  <2> SUFFICES ASSUME MatchInv, CreditInv, trouble = "none",
                      NEW m \in Matches, Played(m), wpc[match[m].chunk] = "idle"
               PROVE  Cardinality(Uncounted(m)) <= 1
    BY DEF OneUncounted
  <2>1. Held(m) /\ match[m].chunk = achunk[m] /\ match[m] # NoState
    <3>1. PICK u \in Users : active[u] = m
      BY DEF Played, Players
    <3>2. apc[m] = "assigned"
      BY <3>1, NullAssumption DEF MatchInv, LockInv
    <3>3. QED
      BY <3>2 DEF Played, Held, Ongoing, MatchInv, LockInv
  <2>2. Uncounted(m) = Missed(m)
    BY <2>1 DEF Uncounted, Missed, Credit, Score
  <2>3. \A u, v \in Uncounted(m) : u = v
    BY <2>1, <2>2 DEF CreditInv, CountInv, Counted
  <2>4. CASE Uncounted(m) = {}
    BY <2>4, FS_EmptySet
  <2>5. CASE Uncounted(m) # {}
    <3>1. PICK u : Uncounted(m) = {u}
      BY <2>3, <2>5
    <3>2. Cardinality({u}) = 1
      BY FS_Singleton
    <3>3. QED
      BY <3>1, <3>2
  <2>6. QED
    BY <2>4, <2>5
<1>2. QED
  BY <1>1, MatchInvariant, CreditInvariant, PTL
=============================================================================
