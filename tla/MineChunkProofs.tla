--------------------------- MODULE MineChunkProofs ---------------------------
(***************************************************************************)
(* Proofs about MineChunk, for every board, any number of chunks, players  *)
(* and readers, and every length of a closure: the stored boards are       *)
(* legal, only players who had opened a cell close chunks, and nothing     *)
(* stored is lost before a reader has stored a stale copy.  About          *)
(* FloodFill, for every board: the loop opens the area that MineChunk says *)
(* it does.                                                                *)
(***************************************************************************)
EXTENDS MineChunk, FloodFill, FiniteSetTheorems, SequenceTheorems, TLAPS

\* A legal state of chunk c.
Sound(c, st) ==
    /\ st \in States
    /\ Opened(st) \cap (Mines[c] \union st.flagged) = {}
    /\ st.closed <=> st.until # NoTime
    /\ st.closed => \E x \in Cells : st.opened[x] = st.closedBy

\* What is stored and every copy of it are legal.
Boards ==
    /\ \A c \in Chunks :
        /\ store[c] # NoState => Sound(c, store[c])
        /\ c \in closedSet <=> store[c] # NoState /\ store[c].closed
        /\ wpc[c] # "idle" => Sound(c, wst[c]) /\ wop[c] \in Operations
    /\ \A r \in Readers : rst[r] # NoState => Sound(rchunk[r], rst[r])

\* Operations run before the horizon, and readers do not see the future.
Clocks ==
    /\ now <= MaxTime
    /\ \A c \in Chunks : wpc[c] # "idle" => now <= Horizon
    /\ \A r \in Readers : rtime[r] # NoTime => rtime[r] <= now

\* The copy a worker works on is what is stored for its chunk, except that a
\* reader may have lifted its expired closure already.
Current(c) ==
    \/ store[c] = wst[c]
    \/ store[c] = NoState /\ wst[c] = NewState
    \/ Expired(wst[c], now) /\ store[c] = Reopened(wst[c])

Workers ==
    \A c \in Chunks : c \notin raced /\ wpc[c] # "idle" => Current(c)

ChunkInv == TypeOK /\ Boards /\ Clocks /\ Workers

\* What no step does to a chunk that no reader has stored a stale copy of.
Harmless(c) == c \notin raced' => ~Loses(c) /\ ~LiftsEarly(c)

-----------------------------------------------------------------------------
(* Chunk states *)

\* A new state is legal.
LEMMA NewStateSound == ASSUME NEW c \in Chunks PROVE NewState # NoState /\ Sound(c, NewState)
<1>1. NewState \in States
  BY DEF NewState, States
<1>2. Opened(NewState) = {}
  BY DEF NewState, Opened
<1>3. QED
  BY <1>1, <1>2, NoStateAssumption DEF NewState, Sound

\* Reopening keeps a state legal and what was opened in it.
LEMMA ReopenedSound ==
    ASSUME NEW c \in Chunks, NEW st, Sound(c, st)
    PROVE  /\ Sound(c, Reopened(st))
           /\ Reopened(st) # NoState
           /\ ~Reopened(st).closed
           /\ Reopened(st).opened = st.opened
           /\ Reopened(st).version = st.version + 1
           /\ st.version \in Nat
<1>1. st \in States /\ st.version \in Nat /\ st.version + 1 \in Nat
  BY DEF Sound, States
<1>2. /\ Reopened(st) \in States
      /\ Reopened(st).closed = FALSE
      /\ Reopened(st).until = NoTime
      /\ Reopened(st).opened = st.opened
      /\ Reopened(st).flagged = st.flagged
      /\ Reopened(st).version = st.version + 1
      /\ st.version \in Nat
  BY <1>1 DEF Reopened, States
<1>3. QED
  BY <1>2, NoStateAssumption DEF Sound, Opened

\* The flood opens only cells that may be opened, among them the first.
LEMMA AreaOpenable ==
    ASSUME NEW c \in Chunks, NEW st, NEW x \in Openable(c, st)
    PROVE  Area(c, st, x) \subseteq Openable(c, st)
<1>1. x \in Cells /\ Openable(c, st) \subseteq Cells
  BY DEF Openable
<1>2. Flooded(c, st, Openable(c, st))
  BY DEF Flooded
<1>3. ZeroArea(c, st, x) \subseteq Openable(c, st)
  BY <1>1, <1>2 DEF ZeroArea
<1>4. QED
  BY <1>3 DEF Area

\* Opening openable cells keeps a state legal and what was opened in it.
LEMMA OpenedSound ==
    ASSUME NEW c \in Chunks, NEW st, Sound(c, st), ~st.closed,
           NEW u \in Users, NEW S, S \subseteq Openable(c, st)
    PROVE  /\ Sound(c, WithOpened(st, S, u))
           /\ \A x \in Opened(st) : WithOpened(st, S, u).opened[x] = st.opened[x]
           /\ WithOpened(st, S, u).version = st.version + 1
<1> DEFINE new == WithOpened(st, S, u)
<1>1. /\ st \in States /\ st.version \in Nat /\ st.version + 1 \in Nat
      /\ S \subseteq Cells /\ S \cap (Opened(st) \union Mines[c]) = {}
  BY DEF Sound, Openable, States
<1>2. /\ new \in States
      /\ new.opened = [x \in Cells |-> IF x \in S THEN u ELSE st.opened[x]]
      /\ new.flagged = st.flagged \ S
      /\ new.closed = st.closed /\ new.until = st.until
      /\ new.version = st.version + 1
  BY <1>1 DEF WithOpened, States
<1> HIDE DEF new
<1>3. Opened(new) \subseteq Opened(st) \union S
  BY <1>2 DEF Opened
<1>4. Opened(st) \subseteq Cells
  BY DEF Opened
<1>5. QED
  BY <1>1, <1>2, <1>3, <1>4 DEF Sound, new

\* A closure by a player who has opened a cell keeps a state legal.
LEMMA ClosureSound ==
    ASSUME NEW c \in Chunks, NEW st, Sound(c, st), NEW u \in Users, HasOpened(st, u),
           now + Closure \in Times
    PROVE  /\ Sound(c, WithClosure(st, u))
           /\ WithClosure(st, u).opened = st.opened
           /\ WithClosure(st, u).version = st.version + 1
<1> DEFINE new == WithClosure(st, u)
<1>1. st \in States /\ st.version \in Nat /\ st.version + 1 \in Nat
  BY DEF Sound, States
<1>2. /\ new \in States
      /\ new.opened = st.opened /\ new.flagged = st.flagged
      /\ new.closed = TRUE /\ new.closedBy = u /\ new.until = now + Closure
      /\ new.version = st.version + 1
  BY <1>1 DEF WithClosure, States
<1>3. now + Closure # NoTime
  BY NullAssumption, TimeAssumption DEF Times
<1> HIDE DEF new
<1>4. QED
  BY <1>2, <1>3 DEF Sound, HasOpened, Opened, new

WithFlags(st, F) == [st EXCEPT !.flagged = F, !.version = @ + 1]

\* Flags go on closed cells only.
LEMMA FlagSound ==
    ASSUME NEW c \in Chunks, NEW st, Sound(c, st), NEW F, F \subseteq Cells, F \cap Opened(st) = {}
    PROVE  /\ Sound(c, WithFlags(st, F))
           /\ WithFlags(st, F).opened = st.opened
           /\ WithFlags(st, F).version = st.version + 1
<1> DEFINE new == WithFlags(st, F)
<1>1. st \in States /\ st.version \in Nat /\ st.version + 1 \in Nat
  BY DEF Sound, States
<1>2. /\ new \in States
      /\ new.opened = st.opened /\ new.flagged = F
      /\ new.closed = st.closed /\ new.closedBy = st.closedBy /\ new.until = st.until
      /\ new.version = st.version + 1
  BY <1>1 DEF States, WithFlags
<1> HIDE DEF new
<1>3. QED
  BY <1>2 DEF Sound, Opened, new

\* What an operation that stores something stores is legal, and adds to what was
\* opened.
LEMMA ResultSound ==
    ASSUME ChunkInv, NEW c \in Chunks, wpc[c] = "ready", ~NothingToStore(c)
    PROVE  /\ Sound(c, Result(c))
           /\ \A x \in Opened(wst[c]) : Result(c).opened[x] = wst[c].opened[x]
           /\ Result(c).version = wst[c].version + 1
           /\ wst[c].version \in Nat
           /\ ~wst[c].closed
<1> DEFINE st == wst[c]
           op == wop[c]
<1>1. Sound(c, st) /\ op \in Operations /\ now <= Horizon /\ now \in Times
  BY DEF ChunkInv, Boards, Clocks, TypeOK
<1>2. /\ op.kind \in {"open", "flag", "unflag"} /\ op.user \in Users /\ op.cell \in Cells
      /\ st \in States /\ st.version \in Nat /\ st.flagged \subseteq Cells
  BY <1>1 DEF Operations, Sound, States
<1>3. /\ ~st.closed /\ st.opened[op.cell] = Nobody
      /\ op.kind = "open" =>
            op.cell \notin st.flagged /\ (op.cell \in Mines[c] => HasOpened(st, op.user))
  BY DEF NothingToStore
<1>4. now + Closure \in Times
  BY <1>1, TimeAssumption DEF Times, Horizon
<1>5. CASE op.kind = "flag"
  <2>1. Result(c) = WithFlags(st, st.flagged \union {op.cell})
    BY <1>5 DEF Result, WithFlags
  <2>2. (st.flagged \union {op.cell}) \cap Opened(st) = {}
    BY <1>1, <1>3 DEF Sound, Opened
  <2>3. QED
    BY <1>1, <1>2, <1>3, <2>1, <2>2, FlagSound
<1>6. CASE op.kind = "unflag"
  <2>1. Result(c) = WithFlags(st, st.flagged \ {op.cell})
    BY <1>6 DEF Result, WithFlags
  <2>2. (st.flagged \ {op.cell}) \cap Opened(st) = {}
    BY <1>1 DEF Sound
  <2>3. QED
    BY <1>1, <1>2, <1>3, <2>1, <2>2, FlagSound
<1>7. CASE op.kind = "open" /\ op.cell \in Mines[c]
  <2>1. Result(c) = WithClosure(st, op.user)
    BY <1>7 DEF Result
  <2>2. QED
    BY <1>1, <1>2, <1>3, <1>4, <1>7, <2>1, ClosureSound
<1>8. CASE op.kind = "open" /\ op.cell \notin Mines[c]
  <2>1. Result(c) = WithOpened(st, Area(c, st, op.cell), op.user)
    BY <1>8 DEF Result
  <2>2. op.cell \in Openable(c, st)
    BY <1>2, <1>3, <1>8 DEF Openable, Opened
  <2>3. QED
    BY <1>1, <1>2, <1>3, <2>1, <2>2, AreaOpenable, OpenedSound
<1>9. QED
  BY <1>2, <1>5, <1>6, <1>7, <1>8

-----------------------------------------------------------------------------
(* Steps *)

\* The invariant holds when nothing is stored.
LEMMA InitChunk == Init => ChunkInv
  BY TimeAssumption
  DEF Init, ChunkInv, TypeOK, Boards, Clocks, Workers, Times

\* Storing a legal state keeps what is stored legal.
LEMMA SaveKeeps ==
    ASSUME TypeOK, NEW c \in Chunks, NEW st, Sound(c, st), Save(c, st),
           \A d \in Chunks :
                /\ store[d] # NoState => Sound(d, store[d])
                /\ d \in closedSet <=> store[d] # NoState /\ store[d].closed
    PROVE  /\ store' = [store EXCEPT ![c] = st]
           /\ store' \in [Chunks -> States \union {NoState}]
           /\ closedSet' \subseteq Chunks
           /\ \A d \in Chunks :
                /\ store'[d] # NoState => Sound(d, store'[d])
                /\ d \in closedSet' <=> store'[d] # NoState /\ store'[d].closed
<1>1. st \in States /\ st # NoState
  BY NoStateAssumption DEF Sound
<1>2. store' = [store EXCEPT ![c] = st]
  BY DEF Save
<1>3. store' \in [Chunks -> States \union {NoState}]
  BY <1>1, <1>2 DEF TypeOK
<1>4. closedSet' = IF st.closed THEN closedSet \union {c} ELSE closedSet \ {c}
  BY DEF Save
<1>5. closedSet' \subseteq Chunks
  BY <1>4 DEF TypeOK
<1>6. ASSUME NEW d \in Chunks
      PROVE  /\ store'[d] # NoState => Sound(d, store'[d])
             /\ d \in closedSet' <=> store'[d] # NoState /\ store'[d].closed
  <2>1. CASE d = c
    BY <1>1, <1>2, <1>4, <2>1 DEF TypeOK
  <2>2. CASE d # c
    BY <1>2, <1>4, <2>2 DEF TypeOK
  <2>3. QED
    BY <2>1, <2>2
<1>7. QED
  BY <1>2, <1>3, <1>5, <1>6

\* Time passes only while no operation runs past the horizon.
LEMMA TickKeeps ==
    ASSUME ChunkInv, Tick
    PROVE  ChunkInv' /\ \A c \in Chunks : Harmless(c)
<1> USE DEF ChunkInv
<1>1. /\ now < MaxTime /\ now' = now + 1
      /\ now >= Horizon => \A c \in Chunks : wpc[c] = "idle"
      /\ UNCHANGED <<store, closedSet, wpc, wop, wst, rpc, rchunk, rst, rtime, rtodo, raced>>
  BY DEF Tick, storeVars, workerVars, readerVars
<1>2. now \in Nat /\ MaxTime \in Nat /\ Horizon \in Nat
  BY TimeAssumption DEF TypeOK, Times, Horizon
<1>3. TypeOK'
  BY <1>1, <1>2 DEF TypeOK, Times
<1>4. Boards'
  BY <1>1 DEF Boards, Sound, Opened
<1>5. Clocks'
  <2>1. \A r \in Readers : rtime[r] # NoTime => rtime[r] \in Nat
    BY DEF TypeOK, Times
  <2>2. QED
    BY <1>1, <1>2, <2>1 DEF Clocks
<1>6. Workers'
  <2>1. ASSUME NEW c \in Chunks, wpc[c] # "idle", Expired(wst[c], now)
        PROVE  Expired(wst[c], now')
    <3>1. wst[c].until \in Nat
      BY <2>1 DEF Expired, Boards, Sound, States, Times
    <3>2. QED
      BY <1>1, <1>2, <2>1, <3>1 DEF Expired
  <2>2. QED
    BY <1>1, <2>1 DEF Workers, Current
<1>7. \A c \in Chunks : Harmless(c)
  <2>1. \A c \in Chunks : store'[c] = store[c]
    BY <1>1
  <2>2. \A c \in Chunks : store[c] # NoState => ~(store[c].version < store[c].version)
    BY DEF TypeOK, States
  <2>3. QED
    BY <2>1, <2>2 DEF Harmless, Loses, LiftsEarly
<1>8. QED
  BY <1>3, <1>4, <1>5, <1>6, <1>7

\* A step that stores nothing loses nothing.
LEMMA NothingStored ==
    ASSUME TypeOK, store' = store
    PROVE  \A c \in Chunks : Harmless(c)
<1>1. \A c \in Chunks : store[c] # NoState => ~(store[c].version < store[c].version)
  BY DEF TypeOK, States
<1>2. QED
  BY <1>1 DEF Harmless, Loses, LiftsEarly

\* A worker starts on what is stored.
LEMMA LoadKeeps ==
    ASSUME ChunkInv, NEW c \in Chunks, NEW op \in Operations, LoadOperation(c, op)
    PROVE  ChunkInv'
<1> USE DEF ChunkInv
<1> DEFINE st == IF store[c] = NoState THEN NewState ELSE store[c]
<1>1. /\ wpc[c] = "idle" /\ now <= Horizon
      /\ wop' = [wop EXCEPT ![c] = op]
      /\ wst' = [wst EXCEPT ![c] = st]
      /\ wpc' = [wpc EXCEPT ![c] = "loaded"]
      /\ UNCHANGED <<now, store, closedSet, rpc, rchunk, rst, rtime, rtodo, raced>>
  BY DEF LoadOperation, storeVars, readerVars
<1>2. Sound(c, st)
  BY NewStateSound DEF Boards
<1>3. st \in States
  BY <1>2 DEF Sound
<1>4. store[c] = st \/ (store[c] = NoState /\ st = NewState)
  OBVIOUS
<1> HIDE DEF st
<1>5. TypeOK'
  BY <1>1, <1>3 DEF TypeOK
<1>6. Boards'
  BY <1>1, <1>2 DEF TypeOK, Boards, Sound, Opened
<1>7. Clocks' /\ Workers'
  BY <1>1, <1>4 DEF TypeOK, Clocks, Workers, Current
<1>8. QED
  BY <1>5, <1>6, <1>7

\* What a worker stores, from a copy that is current or has been reopened, adds to
\* what is stored.
LEMMA WorkerStores ==
    ASSUME ChunkInv, NEW c \in Chunks, wpc[c] # "idle", NEW st, Sound(c, st), Save(c, st),
           \A x \in Opened(wst[c]) : st.opened[x] = wst[c].opened[x],
           st.version = wst[c].version + 1,
           \/ ~wst[c].closed
           \/ st = Reopened(wst[c]) /\ Expired(wst[c], now),
           raced' = raced
    PROVE  \A d \in Chunks : Harmless(d)
<1> USE DEF ChunkInv
<1>1. store' = [store EXCEPT ![c] = st]
  BY DEF Save
<1>2. \A d \in Chunks : store[d] # NoState => store[d].version \in Nat
  BY DEF TypeOK, States
<1>3. ASSUME NEW d \in Chunks, d # c PROVE Harmless(d)
  BY <1>1, <1>2, <1>3 DEF TypeOK, Harmless, Loses, LiftsEarly
<1>4. Harmless(c)
  <2> SUFFICES ASSUME c \notin raced, store[c] # NoState PROVE ~Loses(c) /\ ~LiftsEarly(c)
    BY DEF Harmless, Loses, LiftsEarly
  <2>1. store'[c] = st
    BY <1>1 DEF TypeOK
  <2>2. Sound(c, wst[c]) /\ Sound(c, store[c]) /\ Current(c)
    BY DEF Boards, Workers
  <2>3. CASE store[c] = wst[c]
    <3>1. store[c].version \in Nat
      BY <1>2
    <3>2. ~Loses(c)
      BY <2>1, <2>3, <3>1 DEF Loses
    <3>3. ~LiftsEarly(c)
      <4>1. CASE ~wst[c].closed
        BY <2>3, <4>1 DEF LiftsEarly
      <4>2. CASE Expired(wst[c], now)
        <5>1. wst[c].until \in Nat /\ now \in Nat /\ now >= wst[c].until
          BY <2>2, <4>2 DEF Sound, States, Times, Expired, TypeOK
        <5>2. QED
          BY <2>3, <5>1 DEF LiftsEarly
      <4>3. QED
        BY <4>1, <4>2
    <3>4. QED
      BY <3>2, <3>3
  <2>4. CASE Expired(wst[c], now) /\ store[c] = Reopened(wst[c])
    <3>1. st = store[c]
      BY <2>4 DEF Expired
    <3>2. QED
      BY <1>2, <2>1, <3>1 DEF Loses, LiftsEarly
  <2>5. QED
    BY <2>2, <2>3, <2>4 DEF Current
<1>5. QED
  BY <1>3, <1>4

\* A worker's step that stores nothing keeps the invariant.
LEMMA WorkerKeeps ==
    ASSUME ChunkInv, NEW c \in Chunks, NothingToReopen(c) \/ ReturnUnchanged(c)
    PROVE  ChunkInv' /\ store' = store
<1> USE DEF ChunkInv
<1>1. /\ UNCHANGED <<now, store, closedSet, rpc, rchunk, rst, rtime, rtodo, raced>>
      /\ wpc[c] # "idle"
      /\ \/ UNCHANGED <<wop, wst>> /\ wpc' = [wpc EXCEPT ![c] = "ready"]
         \/ EndOperation(c)
  BY DEF NothingToReopen, ReturnUnchanged, storeVars, readerVars
<1>2. TypeOK'
  BY <1>1 DEF TypeOK, EndOperation
<1>3. Boards'
  BY <1>1 DEF TypeOK, Boards, Sound, Opened, EndOperation
<1>4. Clocks' /\ Workers'
  BY <1>1 DEF TypeOK, Clocks, Workers, Current, EndOperation
<1>5. QED
  BY <1>1, <1>2, <1>3, <1>4

\* A worker that lifts a closure stores what it goes on with.
LEMMA WorkerReopens ==
    ASSUME ChunkInv, NEW c \in Chunks, ReopenInWorker(c)
    PROVE  ChunkInv' /\ \A d \in Chunks : Harmless(d)
<1> USE DEF ChunkInv
<1> DEFINE st == Reopened(wst[c])
<1>1. /\ wpc[c] = "loaded" /\ Expired(wst[c], now)
      /\ Save(c, st)
      /\ wst' = [wst EXCEPT ![c] = st]
      /\ wpc' = [wpc EXCEPT ![c] = "ready"]
      /\ UNCHANGED <<now, wop, rpc, rchunk, rst, rtime, rtodo, raced>>
  BY DEF ReopenInWorker, readerVars
<1>2. /\ Sound(c, st)
      /\ st.opened = wst[c].opened
      /\ st.version = wst[c].version + 1
  BY <1>1, ReopenedSound DEF Boards
<1>3. st \in States
  BY <1>2 DEF Sound
<1>4. \A d \in Chunks : Harmless(d)
  BY <1>1, <1>2, WorkerStores
<1> HIDE DEF st
<1>5. /\ store' = [store EXCEPT ![c] = st]
      /\ store' \in [Chunks -> States \union {NoState}]
      /\ closedSet' \subseteq Chunks
      /\ \A d \in Chunks :
            /\ store'[d] # NoState => Sound(d, store'[d])
            /\ d \in closedSet' <=> store'[d] # NoState /\ store'[d].closed
  BY <1>1, <1>2, SaveKeeps DEF Boards
<1>6. TypeOK'
  BY <1>1, <1>3, <1>5 DEF TypeOK
<1>7. Boards'
  <2>1. ASSUME NEW d \in Chunks, wpc'[d] # "idle"
        PROVE  Sound(d, wst'[d]) /\ wop'[d] \in Operations
    <3>1. CASE d = c
      BY <1>1, <1>2, <3>1 DEF TypeOK, Boards
    <3>2. CASE d # c
      BY <1>1, <2>1, <3>2 DEF TypeOK, Boards
    <3>3. QED
      BY <3>1, <3>2
  <2>2. QED
    BY <1>1, <1>5, <2>1 DEF Boards, Sound, Opened
<1>8. Clocks' /\ Workers'
  BY <1>1, <1>5 DEF TypeOK, Clocks, Workers, Current
<1>9. QED
  BY <1>4, <1>6, <1>7, <1>8

\* A worker that ends its operation, having stored its result or not.
LEMMA WorkerEnds ==
    ASSUME ChunkInv, NEW c \in Chunks, ReopenInWorkerFails(c) \/ StoreResult(c)
    PROVE  ChunkInv' /\ \A d \in Chunks : Harmless(d)
<1> USE DEF ChunkInv
<1>1. /\ wpc[c] # "idle"
      /\ EndOperation(c)
      /\ UNCHANGED <<now, rpc, rchunk, rst, rtime, rtodo, raced>>
  BY DEF ReopenInWorkerFails, StoreResult, readerVars
<1>2. PICK st :
        /\ UNCHANGED <<store, closedSet>> \/ Save(c, st)
        /\ Sound(c, st)
        /\ \A x \in Opened(wst[c]) : st.opened[x] = wst[c].opened[x]
        /\ st.version = wst[c].version + 1
        /\ \/ ~wst[c].closed
           \/ st = Reopened(wst[c]) /\ Expired(wst[c], now)
  <2>1. CASE ReopenInWorkerFails(c)
    <3>1. /\ Sound(c, Reopened(wst[c]))
          /\ Reopened(wst[c]).opened = wst[c].opened
          /\ Reopened(wst[c]).version = wst[c].version + 1
      BY <1>1, ReopenedSound DEF Boards
    <3>2. QED
      BY <2>1, <3>1 DEF ReopenInWorkerFails, SaveFails, storeVars
  <2>2. CASE StoreResult(c)
    BY <2>2, ResultSound DEF StoreResult, SaveFails, storeVars
  <2>3. QED
    BY <2>1, <2>2
<1>3. \A d \in Chunks : Harmless(d)
  BY <1>1, <1>2, WorkerStores, NothingStored
<1>4. /\ \A d \in Chunks : d # c => store'[d] = store[d]
      /\ store' \in [Chunks -> States \union {NoState}]
      /\ closedSet' \subseteq Chunks
      /\ \A d \in Chunks :
            /\ store'[d] # NoState => Sound(d, store'[d])
            /\ d \in closedSet' <=> store'[d] # NoState /\ store'[d].closed
  <2>1. CASE UNCHANGED <<store, closedSet>>
    BY <2>1 DEF TypeOK, Boards
  <2>2. CASE Save(c, st)
    <3>1. /\ store' = [store EXCEPT ![c] = st]
          /\ store' \in [Chunks -> States \union {NoState}]
          /\ closedSet' \subseteq Chunks
          /\ \A d \in Chunks :
                /\ store'[d] # NoState => Sound(d, store'[d])
                /\ d \in closedSet' <=> store'[d] # NoState /\ store'[d].closed
      BY <1>2, <2>2, SaveKeeps DEF Boards
    <3>2. QED
      BY <3>1 DEF TypeOK
  <2>3. QED
    BY <1>2, <2>1, <2>2
<1>5. TypeOK'
  BY <1>1, <1>4 DEF TypeOK, EndOperation
<1>6. /\ wpc'[c] = "idle"
      /\ \A d \in Chunks : d # c =>
            wpc'[d] = wpc[d] /\ wop'[d] = wop[d] /\ wst'[d] = wst[d]
  BY <1>1 DEF TypeOK, EndOperation
<1>7. Boards'
  BY <1>1, <1>4, <1>6 DEF Boards, Sound, Opened
<1>8. Clocks' /\ Workers'
  BY <1>1, <1>4, <1>6 DEF Clocks, Workers, Current
<1>9. QED
  BY <1>3, <1>5, <1>7, <1>8

\* A reader that looks at a chunk, or at the next one, or that ends.
LEMMA ReaderKeeps ==
    ASSUME ChunkInv, NEW r \in Readers,
           \/ \E c \in Chunks : LoadForRead(r, c)
           \/ StartList(r) \/ LoadForList(r) \/ ReadUnchanged(r)
    PROVE  ChunkInv' /\ store' = store
<1> USE DEF ChunkInv
<1>1. UNCHANGED <<now, store, closedSet, wpc, wop, wst, raced>>
  BY DEF LoadForRead, StartList, LoadForList, ReadUnchanged, storeVars, workerVars
<1>2. TypeOK'
  BY <1>1
  DEF LoadForRead, StartList, LoadForList, ReadUnchanged, ContinueRead, EndRead, TypeOK
<1>3. /\ \A q \in Readers : q # r =>
            rchunk'[q] = rchunk[q] /\ rst'[q] = rst[q] /\ rtime'[q] = rtime[q]
      /\ rtime'[r] \in {rtime[r], now, NoTime}
      /\ \/ rst'[r] = NoState
         \/ rst'[r] = rst[r] /\ rchunk'[r] = rchunk[r]
         \/ rchunk'[r] \in Chunks /\ rst'[r] = store[rchunk'[r]]
  BY DEF LoadForRead, StartList, LoadForList, ReadUnchanged, ContinueRead, EndRead, TypeOK
<1>4. Boards'
  BY <1>1, <1>3 DEF Boards, Sound, Opened
<1>5. Clocks'
  <2>1. now \in Nat
    BY DEF TypeOK, Times
  <2>2. QED
    BY <1>1, <1>3, <2>1 DEF Clocks
<1>6. Workers'
  BY <1>1 DEF Workers, Current
<1>7. QED
  BY <1>1, <1>2, <1>4, <1>5, <1>6

\* A reader that stores the reopened copy, or fails to: if its copy is stale, that
\* is noted; if not, it lifts a closure whose time has come, and a worker at work
\* on the chunk is about to lift it too.
LEMMA ReaderStores ==
    ASSUME ChunkInv, NEW r \in Readers, ReopenInRead(r) \/ ReopenInReadFails(r)
    PROVE  ChunkInv' /\ \A c \in Chunks : Harmless(c)
<1> USE DEF ChunkInv
<1> DEFINE c == rchunk[r]
           st == rst[r]
           new == Reopened(rst[r])
<1>1. /\ Expired(st, ClockOf(r))
      /\ UNCHANGED <<store, closedSet>> \/ Save(c, new)
      /\ raced' = IF Stale(r) /\ store' # store THEN raced \union {c} ELSE raced
      /\ UNCHANGED <<now, wpc, wop, wst>>
      /\ ContinueRead(r) \/ EndRead(r)
  BY DEF ReopenInRead, ReopenInReadFails, SaveFails, NoteStore, storeVars, workerVars
<1>2. c \in Chunks /\ st # NoState /\ Sound(c, st)
  BY <1>1 DEF Expired, Boards, TypeOK
<1>3. /\ Sound(c, new) /\ new # NoState /\ ~new.closed
      /\ new.opened = st.opened
      /\ new.version = st.version + 1 /\ st.version \in Nat
  BY <1>2, ReopenedSound
<1>4. Expired(st, now) /\ now \in Nat /\ st.until \in Nat
  <2>1. /\ now \in Nat /\ ClockOf(r) \in Nat /\ ClockOf(r) <= now
    BY <1>1 DEF ClockOf, Listing, Clocks, TypeOK, Times
  <2>2. st.until \in Nat
    BY <1>1, <1>2 DEF Expired, Sound, States, Times
  <2>3. QED
    BY <1>1, <2>1, <2>2 DEF Expired
<1>5. /\ store' = store \/ store' = [store EXCEPT ![c] = new]
      /\ store' \in [Chunks -> States \union {NoState}]
      /\ closedSet' \subseteq Chunks
      /\ \A d \in Chunks :
            /\ store'[d] # NoState => Sound(d, store'[d])
            /\ d \in closedSet' <=> store'[d] # NoState /\ store'[d].closed
  <2>1. CASE UNCHANGED <<store, closedSet>>
    BY <2>1 DEF TypeOK, Boards
  <2>2. CASE Save(c, new)
    <3> HIDE DEF new
    <3>1. QED
      BY <1>2, <1>3, <2>2, SaveKeeps DEF Boards
  <2>3. QED
    BY <1>1, <2>1, <2>2
<1>6. TypeOK'
  BY <1>1, <1>2, <1>5 DEF TypeOK, ContinueRead, EndRead
<1>7. /\ \A q \in Readers : q # r =>
            rchunk'[q] = rchunk[q] /\ rst'[q] = rst[q] /\ rtime'[q] = rtime[q]
      /\ rst'[r] = NoState
      /\ rtime'[r] \in {rtime[r], NoTime}
  BY <1>1 DEF ContinueRead, EndRead, TypeOK
<1>8. Boards'
  BY <1>1, <1>5, <1>7 DEF Boards, Sound, Opened
<1>9. Clocks'
  BY <1>1, <1>7 DEF Clocks
<1>10. ASSUME NEW d \in Chunks, d \notin raced', store'[d] # store[d]
       PROVE  d = c /\ d \notin raced /\ store[d] = st /\ store'[d] = new
  BY <1>1, <1>2, <1>5, <1>10 DEF Stale, TypeOK
<1>11. Workers'
  <2> SUFFICES ASSUME NEW d \in Chunks, d \notin raced', wpc[d] # "idle"
               PROVE  Current(d)'
    BY <1>1 DEF Workers
  <2>1. Current(d)
    BY <1>1 DEF Workers
  <2>2. CASE store'[d] = store[d]
    BY <1>1, <2>1, <2>2 DEF Current
  <2>3. CASE store'[d] # store[d]
    <3>1. d = c /\ store[d] = st /\ store'[d] = new
      BY <1>10, <2>3
    <3>2. Sound(d, wst[d])
      BY DEF Boards
    <3>3. ~(Expired(wst[d], now) /\ store[d] = Reopened(wst[d]))
      BY <1>4, <3>1, <3>2, ReopenedSound DEF Expired
    <3>4. wst[d] = st
      BY <1>2, <2>1, <3>1, <3>3 DEF Current
    <3>5. QED
      BY <1>1, <1>4, <3>1, <3>4 DEF Current
  <2>4. QED
    BY <2>2, <2>3
<1>12. \A d \in Chunks : Harmless(d)
  <2> SUFFICES ASSUME NEW d \in Chunks, d \notin raced'
               PROVE  ~Loses(d) /\ ~LiftsEarly(d)
    BY DEF Harmless
  <2>1. CASE store'[d] = store[d]
    <3>1. store[d] # NoState => store[d].version \in Nat
      BY DEF TypeOK, States
    <3>2. QED
      BY <2>1, <3>1 DEF Loses, LiftsEarly
  <2>2. CASE store'[d] # store[d]
    <3>1. d = c /\ store[d] = st /\ store'[d] = new
      BY <1>10, <2>2
    <3>2. ~Loses(d)
      BY <1>3, <3>1 DEF Loses
    <3>3. ~LiftsEarly(d)
      BY <1>4, <3>1 DEF LiftsEarly, Expired
    <3>4. QED
      BY <3>2, <3>3
  <2>3. QED
    BY <2>1, <2>2
<1>13. QED
  BY <1>6, <1>8, <1>9, <1>11, <1>12

\* Every step keeps the invariant, and none harms a chunk that no reader has stored
\* a stale copy of.
LEMMA NextChunk ==
    ASSUME ChunkInv, [Next]_vars
    PROVE  ChunkInv' /\ \A c \in Chunks : Harmless(c)
<1>1. CASE UNCHANGED vars
  <2>1. ChunkInv'
    BY <1>1 DEF vars, storeVars, workerVars, readerVars, ChunkInv, TypeOK, Boards, Sound, Opened,
                Clocks, Workers, Current
  <2>2. QED
    BY <1>1, <2>1, NothingStored DEF vars, storeVars, ChunkInv
<1>2. CASE \E c \in Chunks, op \in Operations : LoadOperation(c, op)
  BY <1>2, LoadKeeps, NothingStored DEF LoadOperation, storeVars, ChunkInv
<1>3. CASE \E c \in Chunks : NothingToReopen(c) \/ ReturnUnchanged(c)
  BY <1>3, WorkerKeeps, NothingStored DEF ChunkInv
<1>4. CASE \E r \in Readers :
             \/ \E c \in Chunks : LoadForRead(r, c)
             \/ StartList(r) \/ LoadForList(r) \/ ReadUnchanged(r)
  BY <1>4, ReaderKeeps, NothingStored DEF ChunkInv
<1>5. QED
  BY <1>1, <1>2, <1>3, <1>4, TickKeeps, WorkerReopens, WorkerEnds, ReaderStores
  DEF Next, WorkerStep, ReaderStep

-----------------------------------------------------------------------------
(* Theorems *)

\* The invariant, for every instance.
THEOREM ChunkInvariant == Spec => []ChunkInv
<1>1. ChunkInv /\ [Next]_vars => ChunkInv'
  BY NextChunk
<1>2. QED
  BY <1>1, InitChunk, PTL DEF Spec

\* Every variable keeps its type.
THEOREM ChunkTypes == Spec => []TypeOK
<1>1. ChunkInv => TypeOK
  BY DEF ChunkInv
<1>2. QED
  BY <1>1, ChunkInvariant, PTL

\* What is stored is a legal board, and the closed set is exact.
THEOREM BoardsAreSound == Spec => []BoardSound
<1>1. ChunkInv => BoardSound
  BY DEF ChunkInv, Boards, Sound, BoardSound
<1>2. QED
  BY <1>1, ChunkInvariant, PTL

\* A closed chunk was closed by a player who had opened one of its cells.
THEOREM FirstOpensAreProtected == Spec => []ClosedByExperienced
<1>1. ChunkInv => ClosedByExperienced
  BY DEF ChunkInv, Boards, Sound, ClosedByExperienced
<1>2. QED
  BY <1>1, ChunkInvariant, PTL

\* An opened cell, a version or the time of a closure is lost only after a reader
\* has stored a stale copy of the chunk, for any number of readers.
THEOREM OnlyStaleReadersLose == Spec => LossNeedsStaleReader
<1>1. ChunkInv /\ [Next]_vars =>
        [\A c \in Chunks : Loses(c) \/ LiftsEarly(c) => c \in raced']_vars
  BY NextChunk DEF Harmless
<1>2. QED
  BY <1>1, ChunkInvariant, PTL DEF Spec, LossNeedsStaleReader

-----------------------------------------------------------------------------
(* The loop of openZeroArea *)

\* The cells of a queue.
Queued(q) == {q[i] : i \in DOMAIN q}
InQueue == Queued(queue)

\* The board is one of the chunk and the start one that the loop may open.
FloodBoard ==
    /\ chunk \in Nat \X Nat
    /\ mines \subseteq World \X World
    /\ start \in Revealable

\* The loop opens what it may of the cells it has seen; the cells around a clear
\* one are seen or in the queue; and every set that must be opened together with
\* the start holds what was opened and what the queue will open.
FloodInv ==
    /\ FloodBoard
    /\ queue \in Seq(Int \X Int)
    /\ visited \subseteq ChunkCells /\ fresh = Revealable \intersect visited
    /\ start \in visited \union InQueue
    /\ \A c \in fresh : Clear(c) => Neighbours(c) \intersect ChunkCells \subseteq visited \union InQueue
    /\ \A X : start \in X /\ Closed(X) =>
                fresh \subseteq X /\ InQueue \intersect Revealable \subseteq X

\* Cells have coordinates.
LEMMA CellCoordinates ==
    ASSUME NEW c \in ChunkCells
    PROVE  /\ c = <<c[1], c[2]>> /\ c[1] \in Int /\ c[2] \in Int
           /\ Neighbours(c) \subseteq Int \X Int
           /\ Neighbours(c) \subseteq (c[1] - 1 .. c[1] + 1) \X (c[2] - 1 .. c[2] + 1)
<1>1. c = <<c[1], c[2]>> /\ c[1] \in Int /\ c[2] \in Int
  BY SizeAssumption DEF ChunkCells, Local
<1>2. \A d \in Offsets : d[1] \in -1 .. 1 /\ d[2] \in -1 .. 1
  BY DEF Offsets
<1>3. \A d \in Offsets : /\ c[1] + d[1] \in c[1] - 1 .. c[1] + 1 /\ c[1] + d[1] \in Int
                         /\ c[2] + d[2] \in c[2] - 1 .. c[2] + 1 /\ c[2] + d[2] \in Int
  BY <1>1, <1>2
<1>4. QED
  BY <1>1, <1>3 DEF Neighbours

\* The count of mines around a cell is zero exactly if the cell is clear, across
\* the borders of chunk and world.
LEMMA ClearIsZero ==
    ASSUME FloodBoard, NEW c \in Revealable
    PROVE  Clear(c) <=> AdjacentMineCount(c) = 0
<1> DEFINE a == chunk[1] * ChunkSize
           b == chunk[2] * ChunkSize
           N == {n \in Neighbours(c) : IsMine(n)}
<1>1. c \in ChunkCells /\ ~ IsMine(c) /\ c = <<c[1], c[2]>> /\ c[1] \in Int /\ c[2] \in Int
  BY CellCoordinates DEF Revealable
<1>2. IsFiniteSet(N)
  <2>1. IsFiniteSet(c[1] - 1 .. c[1] + 1) /\ IsFiniteSet(c[2] - 1 .. c[2] + 1)
    <3>1. c[1] - 1 \in Int /\ c[1] + 1 \in Int /\ c[2] - 1 \in Int /\ c[2] + 1 \in Int
      BY <1>1
    <3>2. QED
      BY <3>1, FS_Interval
  <2>2. IsFiniteSet((c[1] - 1 .. c[1] + 1) \X (c[2] - 1 .. c[2] + 1))
    BY <2>1, FS_Product
  <2>3. N \subseteq (c[1] - 1 .. c[1] + 1) \X (c[2] - 1 .. c[2] + 1)
    BY <1>1, CellCoordinates
  <2>4. QED
    BY <2>2, <2>3, FS_Subset
<1>3. AdjacentMineCount(c) = 0 <=> N = {}
  BY <1>2, FS_EmptySet DEF AdjacentMineCount
<1>4. a \in Int /\ b \in Int
  BY SizeAssumption DEF FloodBoard
<1>5. /\ \A n : WorldCell(n) = <<a + n[1], b + n[2]>>
      /\ \A m : Near(c, m) <=> m[1] - a - c[1] \in -1 .. 1 /\ m[2] - b - c[2] \in -1 .. 1
  BY DEF WorldCell, Near
<1>6. \A n : IsMine(n) <=> WorldCell(n) \in mines
  BY DEF IsMine, FloodBoard
<1>7. \A m \in mines : m = <<m[1], m[2]>> /\ m[1] \in Int /\ m[2] \in Int
  <2>1. \A i \in World : i \in Int
    BY DEF World
  <2>2. QED
    BY <2>1 DEF FloodBoard
<1> HIDE DEF a, b
<1>8. ASSUME NEW m \in mines, Near(c, m) PROVE N # {}
  <2> DEFINE d == <<m[1] - a - c[1], m[2] - b - c[2]>>
             n == <<c[1] + d[1], c[2] + d[2]>>
  <2>1. d[1] \in -1 .. 1 /\ d[2] \in -1 .. 1 /\ a + n[1] = m[1] /\ b + n[2] = m[2]
    BY <1>1, <1>4, <1>5, <1>7, <1>8
  <2>2. WorldCell(n) = m
    BY <1>5, <1>7, <2>1
  <2>3. d # <<0, 0>>
    <3>1. ASSUME d = <<0, 0>> PROVE n = c
      BY <1>1, <3>1
    <3>2. QED
      BY <1>1, <1>6, <1>8, <2>2, <3>1
  <2>4. d \in Offsets
    BY <2>1, <2>3 DEF Offsets
  <2>5. n \in Neighbours(c)
    BY <2>4 DEF Neighbours
  <2>6. QED
    BY <1>6, <2>2, <2>5
<1>9. ASSUME NEW n \in Neighbours(c), IsMine(n) PROVE \E m \in mines : Near(c, m)
  <2>1. PICK d \in Offsets : n = <<c[1] + d[1], c[2] + d[2]>>
    BY DEF Neighbours
  <2>2. d[1] \in -1 .. 1 /\ d[2] \in -1 .. 1
    BY DEF Offsets
  <2>3. WorldCell(n) \in mines /\ WorldCell(n) = <<a + (c[1] + d[1]), b + (c[2] + d[2])>>
    BY <1>5, <1>6, <1>9, <2>1
  <2>4. Near(c, WorldCell(n))
    <3>1. /\ WorldCell(n)[1] - a - c[1] = d[1] /\ WorldCell(n)[2] - b - c[2] = d[2]
      BY <1>1, <1>4, <2>2, <2>3
    <3>2. QED
      BY <1>5, <2>2, <3>1
  <2>5. QED
    BY <2>3, <2>4
<1>10. QED
  BY <1>3, <1>8, <1>9 DEF Clear

\* The loop appends the neighbours of a cell, each once.
LEMMA AroundIsNeighbours ==
    ASSUME NEW c \in ChunkCells
    PROVE  /\ Around(c) \in Seq(Int \X Int)
           /\ Queued(Around(c)) = Neighbours(c)
<1>1. c[1] \in Int /\ c[2] \in Int
  BY CellCoordinates
<1>2. /\ Around(c)[1] = <<c[1] - 1, c[2] - 1>> /\ Around(c)[2] = <<c[1], c[2] - 1>>
      /\ Around(c)[3] = <<c[1] + 1, c[2] - 1>> /\ Around(c)[4] = <<c[1] - 1, c[2]>>
      /\ Around(c)[5] = <<c[1] + 1, c[2]>>     /\ Around(c)[6] = <<c[1] - 1, c[2] + 1>>
      /\ Around(c)[7] = <<c[1], c[2] + 1>>     /\ Around(c)[8] = <<c[1] + 1, c[2] + 1>>
  BY <1>1 DEF Around
<1>3. DOMAIN Around(c) = 1 .. 8
  BY DEF Around
<1>4. Around(c) = [i \in 1 .. 8 |-> Around(c)[i]]
  BY DEF Around
<1>5. \A i \in 1 .. 8 : i = 1 \/ i = 2 \/ i = 3 \/ i = 4 \/ i = 5 \/ i = 6 \/ i = 7 \/ i = 8
  OBVIOUS
<1>6. {Around(c)[i] : i \in DOMAIN Around(c)} =
        {<<c[1] - 1, c[2] - 1>>, <<c[1], c[2] - 1>>, <<c[1] + 1, c[2] - 1>>, <<c[1] - 1, c[2]>>,
         <<c[1] + 1, c[2]>>, <<c[1] - 1, c[2] + 1>>, <<c[1], c[2] + 1>>, <<c[1] + 1, c[2] + 1>>}
  <2>1. 1 \in 1 .. 8 /\ 2 \in 1 .. 8 /\ 3 \in 1 .. 8 /\ 4 \in 1 .. 8
        /\ 5 \in 1 .. 8 /\ 6 \in 1 .. 8 /\ 7 \in 1 .. 8 /\ 8 \in 1 .. 8
    OBVIOUS
  <2>2. QED
    BY <1>2, <1>3, <1>5, <2>1
<1>7. Offsets = {<<-1, -1>>, <<0, -1>>, <<1, -1>>, <<-1, 0>>, <<1, 0>>, <<-1, 1>>, <<0, 1>>, <<1, 1>>}
  <2>1. \A i \in -1 .. 1 : i = -1 \/ i = 0 \/ i = 1
    OBVIOUS
  <2>2. -1 \in -1 .. 1 /\ 0 \in -1 .. 1 /\ 1 \in -1 .. 1
    OBVIOUS
  <2>3. QED
    BY <2>1, <2>2 DEF Offsets
<1>8. Neighbours(c) =
        {<<c[1] - 1, c[2] - 1>>, <<c[1], c[2] - 1>>, <<c[1] + 1, c[2] - 1>>, <<c[1] - 1, c[2]>>,
         <<c[1] + 1, c[2]>>, <<c[1] - 1, c[2] + 1>>, <<c[1], c[2] + 1>>, <<c[1] + 1, c[2] + 1>>}
  <2>1. \A d \in Offsets : <<c[1] + d[1], c[2] + d[2]>> \in 
        {<<c[1] - 1, c[2] - 1>>, <<c[1], c[2] - 1>>, <<c[1] + 1, c[2] - 1>>, <<c[1] - 1, c[2]>>,
         <<c[1] + 1, c[2]>>, <<c[1] - 1, c[2] + 1>>, <<c[1], c[2] + 1>>, <<c[1] + 1, c[2] + 1>>}
    BY <1>1, <1>7
  <2>2. QED
    BY <1>1, <1>7, <2>1 DEF Neighbours
<1>9. Around(c) \in Seq(Int \X Int)
  <2>1. \A i \in 1 .. 8 : Around(c)[i] \in Int \X Int
    BY <1>3, <1>6, <1>8, CellCoordinates
  <2>2. QED
    BY <1>4, <2>1, IsASeq
<1>10. QED
  BY <1>6, <1>8, <1>9 DEF Queued

\* The elements of what is left of the queue, and of what is appended to it.
LEMMA QueueFacts ==
    ASSUME NEW S, NEW q \in Seq(S), q # <<>>, NEW r \in Seq(S)
    PROVE  /\ Head(q) \in S /\ Tail(q) \in Seq(S) /\ Tail(q) \o r \in Seq(S)
           /\ Queued(q) = {Head(q)} \union Queued(Tail(q))
           /\ Queued(Tail(q) \o r) = Queued(Tail(q)) \union Queued(r)
<1>1. /\ Head(q) \in S /\ Tail(q) \in Seq(S) /\ Len(q) \in Nat /\ Len(q) > 0
      /\ Len(Tail(q)) = Len(q) - 1 /\ \A i \in 1 .. Len(Tail(q)) : Tail(q)[i] = q[i + 1]
      /\ DOMAIN q = 1 .. Len(q) /\ DOMAIN Tail(q) = 1 .. Len(Tail(q)) /\ Head(q) = q[1]
  BY HeadTailProperties
<1>2. \A i \in 1 .. Len(q) : i = 1 \/ (i - 1 \in 1 .. Len(q) - 1 /\ i = (i - 1) + 1)
  BY <1>1
<1>3. \A i \in 1 .. Len(q) - 1 : i + 1 \in 1 .. Len(q)
  BY <1>1
<1>4. {q[i] : i \in DOMAIN q} = {Head(q)} \union {Tail(q)[i] : i \in DOMAIN Tail(q)}
  <2>1. 1 \in DOMAIN q
    BY <1>1
  <2>2. ASSUME NEW i \in DOMAIN q PROVE q[i] \in {Head(q)} \union {Tail(q)[j] : j \in DOMAIN Tail(q)}
    <3>1. q[i] = Head(q) \/ \E j \in DOMAIN Tail(q) : q[i] = Tail(q)[j]
      BY <1>1, <1>2
    <3>2. QED
      BY <3>1
  <2>3. ASSUME NEW j \in DOMAIN Tail(q) PROVE Tail(q)[j] \in {q[i] : i \in DOMAIN q}
    <3>1. \E i \in DOMAIN q : Tail(q)[j] = q[i]
      BY <1>1, <1>3
    <3>2. QED
      BY <3>1
  <2>4. Head(q) = q[1] /\ 1 \in DOMAIN q
    BY <1>1, <2>1
  <2>5. QED
    BY <2>2, <2>3, <2>4, Zenon
<1>5. /\ Tail(q) \o r \in Seq(S)
      /\ Range(Tail(q) \o r) = Range(Tail(q)) \union Range(r)
  <2>1. Tail(q) \in Seq(S)
    BY <1>1
  <2>2. Tail(q) \o r \in Seq(S)
    BY <2>1, ConcatProperties
  <2>3. ASSUME NEW t \in Seq(S) PROVE Range(t \o r) = Range(t) \union Range(r)
    BY RangeConcatenation
  <2>4. QED
    BY <2>1, <2>2, <2>3, Zenon
<1>6. Queued(q) = {Head(q)} \union Queued(Tail(q))
  BY <1>4 DEF Queued
<1>7. Queued(Tail(q) \o r) = Queued(Tail(q)) \union Queued(r)
  <2>1. Queued(Tail(q)) = Range(Tail(q)) /\ Queued(r) = Range(r)
        /\ Queued(Tail(q) \o r) = Range(Tail(q) \o r)
    BY Zenon DEF Range, Queued
  <2>2. QED
    BY <1>5, <2>1
<1>8. QED
  BY <1>1, <1>5, <1>6, <1>7

\* A queue of the start alone.
LEMMA FirstQueue ==
    ASSUME NEW S, NEW x \in S
    PROVE  <<x>> \in Seq(S) /\ Queued(<<x>>) = {x}
  BY DEF Queued

\* The invariant holds before the loop.
LEMMA FloodStarts == FloodInit => FloodInv
<1> SUFFICES ASSUME FloodInit PROVE FloodInv
  OBVIOUS
<1>1. FloodBoard
  BY FloodAssumption DEF FloodInit, FloodBoard, Revealable
<1>2. queue = <<start>> /\ visited = {} /\ fresh = {} /\ start \in Int \X Int
  BY <1>1, CellCoordinates DEF FloodInit, FloodBoard, Revealable
<1>3. queue \in Seq(Int \X Int) /\ InQueue = {start}
  BY <1>2, FirstQueue DEF InQueue
<1>4. QED
  BY <1>1, <1>2, <1>3 DEF FloodInv

\* Every step of the loop keeps the invariant.
LEMMA FloodSteps == FloodInv /\ [FloodNext]_floodVars => FloodInv'
<1> SUFFICES ASSUME FloodInv, [FloodNext]_floodVars PROVE FloodInv'
  OBVIOUS
<1>1. /\ UNCHANGED <<chunk, mines, flagged, before, start>>
      /\ Revealable' = Revealable /\ FloodBoard'
      /\ \A X : Closed(X)' <=> Closed(X)
      /\ \A x : Clear(x)' <=> Clear(x)
  <2>1. UNCHANGED <<chunk, mines, flagged, before, start>>
    BY DEF FloodNext, floodVars, boardVars
  <2>2. QED
    BY <2>1 DEF FloodInv, FloodBoard, Revealable, IsMine, WorldCell, Closed, Clear, Near
<1>2. CASE UNCHANGED floodVars
  <2>1. UNCHANGED <<chunk, mines, flagged, before, start, fresh, queue, visited>>
    BY <1>2 DEF floodVars, boardVars
  <2>2. InQueue' = InQueue
    BY <2>1 DEF InQueue
  <2>3. QED
    BY <1>1, <2>1, <2>2 DEF FloodInv
<1>3. CASE FloodNext
  <2> DEFINE c == Head(queue)
             rest == Queued(Tail(queue))
  <2>1. queue # <<>>
    BY <1>3 DEF FloodNext
  <2>2. /\ start' = start /\ Revealable' = Revealable /\ FloodBoard'
        /\ \A X : Closed(X)' <=> Closed(X)
        /\ \A x : Clear(x)' <=> Clear(x)
    BY <1>1
  <2>3. /\ Tail(queue) \in Seq(Int \X Int) /\ InQueue = {c} \union rest
    BY <2>1, QueueFacts DEF FloodInv, InQueue
  <2>4. start \in Revealable /\ Revealable \subseteq ChunkCells
    BY DEF FloodInv, FloodBoard, Revealable
  <2>5. ASSUME queue' = Tail(queue) PROVE queue' \in Seq(Int \X Int) /\ InQueue' = rest
    BY <2>3, <2>5 DEF InQueue
  <2>6. Hidden(c) /\ c \in ChunkCells <=> c \in Revealable \ fresh
    BY DEF Hidden, Revealable
  <2> HIDE DEF c, rest
  <2>7. CASE SkipCell(c)
    <3>1. (c \notin ChunkCells \/ c \in visited) /\ queue' = Tail(queue) /\ fresh' = fresh /\ visited' = visited
      BY <2>7 DEF SkipCell, c
    <3>2. QED
      BY <2>1, <2>2, <2>3, <2>4, <2>5, <3>1 DEF FloodInv
  <2>8. CASE LeaveCell(c)
    <3>1. /\ c \in ChunkCells \ visited /\ visited' = visited \union {c}
          /\ queue' = Tail(queue) /\ fresh' = fresh /\ c \notin Revealable
      BY <2>6, <2>8 DEF LeaveCell, Seen, c, FloodInv
    <3>2. QED
      BY <2>1, <2>2, <2>3, <2>4, <2>5, <3>1 DEF FloodInv
  <2>9. CASE OpenNumber(c)
    <3>1. /\ c \in ChunkCells \ visited /\ visited' = visited \union {c}
          /\ queue' = Tail(queue) /\ fresh' = fresh \union {c} /\ c \in Revealable
          /\ AdjacentMineCount(c) # 0
      BY <2>6, <2>9 DEF OpenNumber, Seen, c
    <3>2. ~ Clear(c)
      BY <3>1, ClearIsZero DEF FloodInv
    <3>3. QED
      BY <2>1, <2>2, <2>3, <2>4, <2>5, <3>1, <3>2 DEF FloodInv
  <2>10. CASE OpenZero(c)
    <3>1. /\ c \in ChunkCells \ visited /\ visited' = visited \union {c}
          /\ queue' = Tail(queue) \o Around(c) /\ fresh' = fresh \union {c} /\ c \in Revealable
          /\ AdjacentMineCount(c) = 0
      BY <2>6, <2>10 DEF OpenZero, Seen, c
    <3>2. Clear(c)
      BY <3>1, ClearIsZero DEF FloodInv
    <3>3. queue' \in Seq(Int \X Int) /\ InQueue' = rest \union Neighbours(c)
      <4>1. Around(c) \in Seq(Int \X Int) /\ Queued(Around(c)) = Neighbours(c)
        BY <3>1, AroundIsNeighbours
      <4>2. /\ Tail(queue) \o Around(c) \in Seq(Int \X Int)
            /\ Queued(Tail(queue) \o Around(c)) = rest \union Queued(Around(c))
        BY <2>1, <4>1, QueueFacts DEF FloodInv, rest
      <4>3. QED
        BY <3>1, <4>1, <4>2 DEF InQueue
    <3>4. \A X : start \in X /\ Closed(X) =>
                    fresh' \subseteq X /\ InQueue' \intersect Revealable \subseteq X
      <4> SUFFICES ASSUME NEW X, start \in X, Closed(X)
                   PROVE  fresh' \subseteq X /\ InQueue' \intersect Revealable \subseteq X
        OBVIOUS
      <4>1. fresh \subseteq X /\ InQueue \intersect Revealable \subseteq X
        BY DEF FloodInv
      <4>2. c \in X
        BY <2>3, <3>1, <4>1
      <4>3. Neighbours(c) \intersect Revealable \subseteq X
        BY <3>2, <4>2 DEF Closed
      <4>4. QED
        BY <2>3, <3>1, <3>3, <4>1, <4>2, <4>3
    <3>5. \A x \in fresh' : Clear(x) => Neighbours(x) \intersect ChunkCells \subseteq visited' \union InQueue'
      BY <2>3, <3>1, <3>3 DEF FloodInv
    <3>6. start \in visited' \union InQueue'
      BY <2>3, <3>1, <3>3 DEF FloodInv
    <3>7. visited' \subseteq ChunkCells /\ fresh' = Revealable \intersect visited'
      BY <3>1 DEF FloodInv
    <3>8. QED
      BY <2>1, <2>2, <3>3, <3>4, <3>5, <3>6, <3>7 DEF FloodInv
  <2>11. QED
    BY <1>3, <2>7, <2>8, <2>9, <2>10 DEF FloodNext, c
<1>4. QED
  BY <1>2, <1>3

\* When nothing is left in the queue, what was opened is the least closed set.
LEMMA FloodEnds ==
    ASSUME FloodInv, queue = <<>>
    PROVE  /\ start \in fresh /\ fresh \subseteq Revealable /\ Closed(fresh)
           /\ \A X : start \in X /\ Closed(X) => fresh \subseteq X
<1>1. InQueue = {}
  BY DEF InQueue, Queued
<1>2. start \in Revealable /\ Revealable \subseteq ChunkCells
  BY DEF FloodInv, FloodBoard, Revealable
<1>3. Closed(fresh)
  BY <1>1, <1>2 DEF FloodInv, Closed
<1>4. QED
  BY <1>1, <1>2, <1>3 DEF FloodInv

\* FloodExact: the flood of openZeroArea opens the least closed set around the cell
\* that was clicked, for any size of chunk and world, any mines, flags and cells
\* opened before.
THEOREM TheFloodIsExact == FloodInit /\ [][FloodNext]_floodVars => []FloodExact
<1>1. FloodInv => FloodExact
  <2> SUFFICES ASSUME FloodInv, queue = <<>>
               PROVE  /\ start \in fresh /\ fresh \subseteq Revealable /\ Closed(fresh)
                      /\ \A X \in SUBSET fresh : start \in X /\ Closed(X) => X = fresh
    BY DEF FloodExact
  <2>1. /\ start \in fresh /\ fresh \subseteq Revealable /\ Closed(fresh)
        /\ \A X : start \in X /\ Closed(X) => fresh \subseteq X
    BY FloodEnds
  <2>2. QED
    BY <2>1
<1>2. QED
  BY <1>1, FloodStarts, FloodSteps, PTL

\* State st of chunk c of MineChunk describes the board of FloodFill.
SameBoard(c, st) ==
    /\ Cells = ChunkCells
    /\ \A x \in Cells : Neighbors[x] = Neighbours(x) \intersect Cells
    /\ Mines[c] = {x \in Cells : IsMine(x)}
    /\ Zeros[c] = {x \in Cells : Clear(x)}
    /\ st.flagged = flagged /\ Opened(st) = before

\* What MineChunk takes as the result of openZeroArea, the least set that the flood
\* does not leave, is what the loop has opened when it ends.
THEOREM TheAreaIsFlooded ==
    FloodInit /\ [][FloodNext]_floodVars =>
        [](queue = <<>> => \A c \in Chunks : \A st \in States :
                SameBoard(c, st) => fresh = ZeroArea(c, st, start))
<1>1. ASSUME FloodInv, queue = <<>>, NEW c \in Chunks, NEW st \in States, SameBoard(c, st)
      PROVE  fresh = ZeroArea(c, st, start)
  <2>1. /\ start \in fresh /\ fresh \subseteq Revealable /\ Closed(fresh)
        /\ \A X : start \in X /\ Closed(X) => fresh \subseteq X
    BY <1>1, FloodEnds
  <2>2. Openable(c, st) = Revealable /\ Revealable \subseteq Cells
    BY <1>1 DEF SameBoard, Openable, Revealable
  <2>3. ASSUME NEW S \in SUBSET Cells PROVE Flooded(c, st, S) <=> Closed(S)
    <3>1. \A z \in S : /\ z \in Zeros[c] <=> Clear(z)
                       /\ Neighbors[z] \intersect Openable(c, st) = Neighbours(z) \intersect Revealable
      BY <1>1, <2>2 DEF SameBoard
    <3>2. QED
      BY <3>1 DEF Flooded, Closed
  <2>4. fresh \in SUBSET Cells
    BY <2>1, <2>2
  <2>5. ASSUME NEW y \in fresh PROVE y \in ZeroArea(c, st, start)
    BY <2>1, <2>3, <2>4 DEF ZeroArea
  <2>6. ASSUME NEW y \in ZeroArea(c, st, start) PROVE y \in fresh
    BY <2>1, <2>3, <2>4 DEF ZeroArea
  <2>7. QED
    BY <2>5, <2>6
<1>2. FloodInv => (queue = <<>> => \A c \in Chunks : \A st \in States :
                        SameBoard(c, st) => fresh = ZeroArea(c, st, start))
  BY <1>1
<1>3. QED
  BY <1>2, FloodStarts, FloodSteps, PTL

=============================================================================
