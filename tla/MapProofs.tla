----------------------------- MODULE MapProofs ------------------------------
(***************************************************************************)
(* Proofs about the map.  About MapView, for any cells, any number of      *)
(* snapshots on their way and any bounds: a page never draws a cell open   *)
(* that never was, and until a reader stores an old board, none that is    *)
(* not open, and one that believes to be up to date draws the chunk as it  *)
(* is.  About ChunkMap, for any number of levels, any width of a leaf and  *)
(* any box: the chunks that a listing holds, the closed leaves that a      *)
(* chunk counts and what a summary says are right.                         *)
(***************************************************************************)
EXTENDS MapView, ChunkMap, FiniteSetTheorems, SequenceTheorems, WellFoundedInduction, TLAPS

\* A result speaks of cells that were open once.
Honest(r) == r.kind \in {"opened", "again"} => r.cells \subseteq wasOpen

\* The boards that the worker and the readers have loaded are boards of the chunk,
\* and until an old one is stored, the worker's is the chunk's, or another has
\* reopened it meanwhile; and all that was open once is open.
LoadedInv ==
    /\ board.opened \subseteq wasOpen
    /\ held # None => held.opened \subseteq wasOpen
    /\ \A b \in copies : b.closed /\ b.opened \subseteq wasOpen
    /\ ~raced =>
        /\ wasOpen = board.opened
        /\ held # None => held = board \/ (held.closed /\ board = Reopened(held))

\* Whatever is on its way to the page, and what it draws, was open once.
OpenInv ==
    /\ \A r \in late : Honest(r)
    /\ \A i \in DOMAIN inbox : Honest(inbox[i])
    /\ reply # None => Honest(reply)
    /\ \A f \in Fetches : fetch[f] \in Boards => fetch[f].opened \subseteq wasOpen
    /\ view # None => view.opened \subseteq wasOpen

ViewInv == TypeOK /\ LoadedInv /\ OpenInv

\* A chunk nobody has touched, and a page that shows nothing.
LEMMA InitView == Init => ViewInv
<1> SUFFICES ASSUME Init PROVE ViewInv
  OBVIOUS
<1>1. TypeOK
  <2>1. 1 \in Versions
    BY BoundAssumption DEF Versions
  <2>2. board \in Boards
    BY <2>1 DEF Init, Boards
  <2>3. inbox \in Seq(Results)
    BY EmptySeq DEF Init
  <2>4. QED
    BY <2>2, <2>3 DEF Init, TypeOK
<1>2. fetch = [f \in Fetches |-> None]
  BY DEF Init
<1>3. \A f \in Fetches : fetch[f] \in Boards => fetch[f].opened \subseteq wasOpen
  BY <1>2, <1>1, NoneAssumption
<1>4. OpenInv
  BY <1>3 DEF Init, OpenInv
<1>5. LoadedInv
  BY DEF Init, LoadedInv
<1>6. QED
  BY <1>1, <1>4, <1>5 DEF ViewInv

-----------------------------------------------------------------------------
(* The worker and the readers *)

\* A step of theirs opens cells or none, and adds at most one honest result.
LEMMA OperationKeeps ==
    ASSUME ViewInv, board' \in Boards, held' \in Boards \union {None}, copies' \subseteq Boards,
           wasOpen \subseteq wasOpen', wasOpen' \subseteq Cells, raced' \in BOOLEAN, LoadedInv',
           acting' \in BOOLEAN, UNCHANGED <<ws, inbox, fetch, view, flags, reply, slipped>>,
           late' \subseteq Results,
           \A r \in late' : r \in late \/ (r.kind \in {"opened", "again"} => r.cells \subseteq wasOpen')
    PROVE  ViewInv'
<1> USE DEF ViewInv
<1>1. TypeOK'
  BY DEF TypeOK
<1>2. OpenInv'
  <2>1. \A r \in late' : Honest(r)'
    BY DEF OpenInv, Honest
  <2>2. \A i \in DOMAIN inbox : Honest(inbox[i])'
    BY DEF OpenInv, Honest
  <2>3. reply # None => Honest(reply)'
    BY DEF OpenInv, Honest
  <2>4. /\ \A f \in Fetches : fetch[f] \in Boards => fetch[f].opened \subseteq wasOpen'
        /\ view # None => view.opened \subseteq wasOpen'
    BY DEF OpenInv
  <2>5. QED
    BY <2>1, <2>2, <2>3, <2>4 DEF OpenInv
<1>3. QED
  BY <1>1, <1>2

\* The worker stores a board made from the one it has loaded.
LEMMA StoreLoaded ==
    ASSUME ViewInv, NEW own, Requested(own),
           NEW opened \in SUBSET Cells, NEW flagged \in SUBSET Cells, NEW shut \in BOOLEAN,
           held.opened \subseteq opened, Store(opened, flagged, shut)
    PROVE  /\ board' \in Boards /\ board'.version = held.version + 1
           /\ board'.opened = opened /\ board'.flagged = flagged /\ board'.closed = shut
           /\ wasOpen \subseteq wasOpen' /\ opened \subseteq wasOpen' /\ wasOpen' \subseteq Cells
           /\ LoadedInv'
<1>1. /\ held \in Boards /\ ~held.closed /\ held.version < MaxVersion
      /\ held' = None /\ UNCHANGED <<copies, raced>> /\ wasOpen' = wasOpen \union opened
      /\ board' = [version |-> held.version + 1, opened |-> opened, flagged |-> flagged, closed |-> shut]
  BY DEF Requested, Store, ViewInv, TypeOK
<1>2. board' \in Boards
  <2>1. held.version \in Versions /\ held.version + 1 \in Versions
    BY <1>1, BoundAssumption DEF Boards, Versions
  <2>2. QED
    BY <1>1, <2>1 DEF Boards
<1>3. /\ ~raced => wasOpen = held.opened
      /\ \A b \in copies : b.closed /\ b.opened \subseteq wasOpen
  BY <1>1, NoneAssumption DEF ViewInv, LoadedInv
<1>4. board'.opened = opened /\ wasOpen \subseteq wasOpen' /\ opened \subseteq wasOpen'
  BY <1>1
<1>5. ~raced' => wasOpen' = board'.opened
  BY <1>1, <1>3, <1>4
<1>6. LoadedInv'
  BY <1>1, <1>3, <1>4, <1>5 DEF LoadedInv
<1>7. QED
  BY <1>1, <1>2, <1>4, <1>6 DEF ViewInv, TypeOK

\* The worker ends an operation that stores nothing.
LEMMA StoreNothing ==
    ASSUME ViewInv, held' = None, UNCHANGED <<board, copies, wasOpen, raced>>
    PROVE  LoadedInv'
  BY DEF ViewInv, LoadedInv

\* The operations of the worker.
LEMMA WorkerKeeps ==
    ASSUME ViewInv,
           \/ \E own \in BOOLEAN :
                \/ \E X \in SUBSET Cells : Open(X, own)
                \/ \E x \in Cells : OpenAgain(x, own)
                \/ \E x \in Cells, on \in BOOLEAN : Flag(x, on, own)
                \/ HitMine(own)
           \/ \E x \in Cells : Cancelled(x)
           \/ \E X \in SUBSET Cells : OpenUntold(X)
           \/ HitMineUntold
           \/ \E x \in Cells, on \in BOOLEAN : FlagUntold(x, on)
    PROVE  ViewInv'
<1> USE DEF ViewInv
<1>1. /\ held \in Boards /\ held.version \in Versions /\ held.opened \subseteq Cells /\ held.flagged \subseteq Cells
      /\ held.version < MaxVersion => held.version + 1 \in Versions
      /\ held.opened \subseteq wasOpen
      /\ late \subseteq Results /\ held' = None /\ UNCHANGED <<copies, raced>>
      /\ acting' \in BOOLEAN /\ UNCHANGED <<ws, inbox, fetch, view, flags, reply, slipped>>
  <2>1. PICK own \in BOOLEAN : Requested(own)
    BY DEF Open, OpenAgain, Flag, HitMine, Cancelled, OpenUntold, HitMineUntold, FlagUntold
  <2>2. acting' \in BOOLEAN
    BY <2>1, Zenon DEF Requested, TypeOK
  <2>3. QED
    BY <2>1, <2>2, BoundAssumption DEF Requested, TypeOK, LoadedInv, Boards, Versions
<1>2. copies' \subseteq Boards /\ held' \in Boards \union {None} /\ raced' \in BOOLEAN
  BY <1>1 DEF TypeOK
<1>3. ASSUME NEW own, Requested(own), NEW opened \in SUBSET Cells, NEW flagged \in SUBSET Cells,
             NEW shut \in BOOLEAN, held.opened \subseteq opened, Store(opened, flagged, shut),
             \/ late' = late
             \/ \E kind \in Kinds, C \in SUBSET opened, o \in BOOLEAN :
                    Answered(kind, held.version + 1, C, o)
             \/ \E kind \in Kinds \ {"opened", "again"}, C \in SUBSET Cells, o \in BOOLEAN :
                    Answered(kind, held.version + 1, C, o)
      PROVE  ViewInv'
  <2>1. /\ board' \in Boards /\ LoadedInv'
        /\ wasOpen \subseteq wasOpen' /\ opened \subseteq wasOpen' /\ wasOpen' \subseteq Cells
    BY <1>3, StoreLoaded
  <2>2. held.version + 1 \in Versions
    BY <1>1, <1>3 DEF Store
  <2>3. /\ late' \subseteq Results
        /\ \A r \in late' :
                r \in late \/ (r.kind \in {"opened", "again"} => r.cells \subseteq wasOpen')
    BY <1>1, <1>3, <2>1, <2>2 DEF Answered, Results
  <2>4. QED
    BY <1>1, <1>2, <2>1, <2>3, OperationKeeps
<1>4. ASSUME UNCHANGED <<board, wasOpen>>, late' \subseteq Results,
             \A r \in late' : r \in late \/ r.cells \subseteq wasOpen
      PROVE  ViewInv'
  <2>1. LoadedInv'
    BY <1>1, <1>4, StoreNothing
  <2>2. QED
    BY <1>1, <1>2, <1>4, <2>1, OperationKeeps DEF TypeOK
<1>5. ASSUME NEW own \in BOOLEAN, NEW X \in SUBSET Cells, Open(X, own) PROVE ViewInv'
  <2>1. "opened" \in Kinds /\ held.opened \union X \in SUBSET Cells
    BY <1>1 DEF Kinds
  <2>2. QED
    BY <1>1, <1>3, <1>5, <2>1 DEF Open
<1>6. ASSUME NEW own \in BOOLEAN, NEW x \in Cells, OpenAgain(x, own) PROVE ViewInv'
  <2>1. "again" \in Kinds /\ x \in wasOpen
    BY <1>1, <1>6 DEF Kinds, OpenAgain
  <2>2. QED
    BY <1>1, <1>4, <1>6, <2>1 DEF OpenAgain, Answered, Results
<1>7. ASSUME NEW own \in BOOLEAN, NEW x \in Cells, NEW on \in BOOLEAN, Flag(x, on, own)
      PROVE  ViewInv'
  <2>1. PICK k \in {"flagged", "unflagged"} : Answered(k, held.version + 1, {x}, own)
    BY <1>7 DEF Flag
  <2>2. k \in Kinds \ {"opened", "again"} /\ {x} \in SUBSET Cells /\ Flagged(x, on) \in SUBSET Cells
    BY <1>1 DEF Kinds, Flagged
  <2>3. QED
    BY <1>1, <1>3, <1>7, <2>1, <2>2 DEF Flag
<1>8. ASSUME NEW own \in BOOLEAN, HitMine(own) PROVE ViewInv'
  <2>1. "closed" \in Kinds \ {"opened", "again"} /\ {} \in SUBSET Cells
    BY DEF Kinds
  <2>2. QED
    BY <1>1, <1>3, <1>8, <2>1 DEF HitMine
<1>9. ASSUME NEW x \in Cells, Cancelled(x) PROVE ViewInv'
  BY <1>1, <1>4, <1>9 DEF Cancelled, CancelledUntold
<1>10. ASSUME NEW X \in SUBSET Cells, OpenUntold(X) PROVE ViewInv'
  BY <1>1, <1>3, <1>10 DEF OpenUntold
<1>11. CASE HitMineUntold
  BY <1>1, <1>3, <1>11 DEF HitMineUntold
<1>12. ASSUME NEW x \in Cells, NEW on \in BOOLEAN, FlagUntold(x, on) PROVE ViewInv'
  <2>1. Flagged(x, on) \in SUBSET Cells
    BY <1>1 DEF Flagged
  <2>2. QED
    BY <1>1, <1>3, <1>12, <2>1 DEF FlagUntold
<1>13. QED
  BY <1>5, <1>6, <1>7, <1>8, <1>9, <1>10, <1>11, <1>12

\* The worker loads the board, reopens it or leaves it; readers load it and may store
\* it reopened.
LEMMA LoadKeeps ==
    ASSUME ViewInv,
           Load \/ Refused \/ Reopen \/ LoadClosed \/ \E b \in copies : StoreReopened(b) \/ EndRead(b)
    PROVE  ViewInv'
<1> USE DEF ViewInv
<1>1. ASSUME NEW b \in Boards, b.version < MaxVersion
      PROVE  Reopened(b) \in Boards /\ Reopened(b).opened = b.opened /\ Reopened(b).closed = FALSE
  <2>1. b.version + 1 \in Versions
    BY <1>1, BoundAssumption DEF Boards, Versions
  <2>2. QED
    BY <1>1, <2>1 DEF Reopened, Boards
<1>2. /\ board' \in Boards /\ held' \in Boards \union {None} /\ copies' \subseteq Boards
      /\ raced' \in BOOLEAN /\ UNCHANGED <<wasOpen, late, pageVars>>
  <2>1. CASE Load \/ Refused \/ LoadClosed \/ \E b \in copies : EndRead(b)
    BY <2>1 DEF TypeOK, Load, Refused, LoadClosed, EndRead, boardVars
  <2>2. CASE Reopen
    BY <1>1, <2>2 DEF TypeOK, Reopen
  <2>3. ASSUME NEW b \in copies, StoreReopened(b) PROVE <1>2!:
    <3>1. raced' \in BOOLEAN
      BY <2>3, Zenon DEF StoreReopened, TypeOK
    <3>2. QED
      BY <1>1, <2>3, <3>1 DEF TypeOK, StoreReopened
  <2>4. QED
    BY <2>1, <2>2, <2>3
<1>3. LoadedInv'
  <2>1. CASE Load
    BY <2>1 DEF Load, LoadedInv
  <2>2. CASE Refused
    BY <2>2 DEF Refused, LoadedInv
  <2>3. CASE Reopen
    <3>1. /\ board' = Reopened(held) /\ held' = board' /\ board'.opened = held.opened
          /\ UNCHANGED <<copies, wasOpen, raced>> /\ held.opened \subseteq wasOpen
          /\ board'.closed = FALSE
      BY <1>1, <2>3 DEF Reopen, TypeOK, LoadedInv
    <3>2. ~raced => held.opened = wasOpen
      <4>1. CASE held = board
        BY <4>1 DEF LoadedInv
      <4>2. CASE board = Reopened(held)
        BY <3>1, <4>2 DEF LoadedInv
      <4>3. QED
        BY <2>3, <4>1, <4>2 DEF Reopen, LoadedInv
    <3>3. QED
      BY <3>1, <3>2 DEF LoadedInv
  <2>4. CASE LoadClosed
    BY <2>4 DEF LoadClosed, LoadedInv
  <2>5. ASSUME NEW b \in copies, StoreReopened(b) PROVE LoadedInv'
    <3>1. /\ board' = Reopened(b) /\ board'.opened = b.opened /\ board'.closed = FALSE
          /\ b.closed /\ b.opened \subseteq wasOpen
          /\ copies' \subseteq copies /\ UNCHANGED <<held, wasOpen>>
          /\ raced' = (raced \/ board \notin {b, Reopened(b)})
      BY <1>1, <2>5 DEF StoreReopened, TypeOK, LoadedInv
    <3>2. ASSUME ~raced'
          PROVE  /\ wasOpen = board'.opened
                 /\ held # None => held = board' \/ (held.closed /\ board' = Reopened(held))
      <4>1. ~raced /\ board \in {b, Reopened(b)}
        BY <3>1, <3>2
      <4>2. CASE board = b
        <5>1. (Reopened(held)).closed = FALSE \/ held = None
          BY <1>2 DEF TypeOK, Boards, Reopened
        <5>2. QED
          BY <3>1, <4>1, <4>2, <5>1 DEF LoadedInv
      <4>3. CASE board = Reopened(b)
        BY <3>1, <4>1, <4>3 DEF LoadedInv
      <4>4. QED
        BY <4>1, <4>2, <4>3
    <3>3. QED
      BY <3>1, <3>2 DEF LoadedInv
  <2>6. ASSUME NEW b \in copies, EndRead(b) PROVE LoadedInv'
    BY <2>6 DEF EndRead, LoadedInv
  <2>7. QED
    BY <2>1, <2>2, <2>3, <2>4, <2>5, <2>6
<1>4. acting' \in BOOLEAN /\ UNCHANGED <<ws, inbox, fetch, view, flags, reply, slipped>>
  BY <1>2 DEF pageVars, TypeOK
<1>5. QED
  BY <1>2, <1>3, <1>4, OperationKeeps DEF TypeOK

-----------------------------------------------------------------------------
(* The page *)

\* Steps of the page and of the handlers leave the chunk and its copies alone.
LEMMA LoadedKeeps == ASSUME ViewInv, UNCHANGED boardVars
    PROVE  LoadedInv' /\ UNCHANGED <<board, held, copies, wasOpen, raced>>
  BY DEF ViewInv, LoadedInv, boardVars

\* Applying an honest result draws only cells that were open once.
LEMMA ApplyHonest ==
    ASSUME ViewInv, NEW r \in Results, Honest(r), Apply(r), UNCHANGED wasOpen
    PROVE  /\ view' \in Snapshots \union {None}
           /\ flags' \subseteq Cells
           /\ view' # None => view'.opened \subseteq wasOpen'
           /\ Slips(r) \in BOOLEAN
<1>1. /\ r.kind \in Kinds /\ r.version \in Versions /\ r.cells \subseteq Cells
  BY DEF Results
<1>2. ASSUME NEW v \in Snapshots, v.opened \subseteq wasOpen
      PROVE  Updated(v, r) \in Snapshots /\ Updated(v, r).opened \subseteq wasOpen
  <2>1. v.opened \subseteq Cells /\ v.closed \in BOOLEAN
    BY DEF Snapshots
  <2>2. Updated(v, r).opened \subseteq Cells /\ Updated(v, r).opened \subseteq wasOpen
    BY <1>1, <1>2, <2>1 DEF Updated, Honest
  <2>3. (v.closed \/ r.kind = "closed") \in BOOLEAN
    BY Zenon
  <2>4. QED
    BY <1>1, <2>2, <2>3 DEF Updated, Snapshots
<1>3. Made \in Snapshots /\ Made.opened = {}
  BY BoundAssumption DEF Made, Snapshots, Versions
<1>4. view # None => view \in Snapshots /\ view.opened \subseteq wasOpen
  BY DEF ViewInv, TypeOK, OpenInv
<1>5. view' \in Snapshots \union {None} /\ (view' # None => view'.opened \subseteq wasOpen')
  BY <1>2, <1>3, <1>4 DEF Apply
<1>6. flags' \subseteq Cells
  BY <1>1 DEF Apply, ViewInv, TypeOK
<1>7. Slips(r) \in BOOLEAN
  BY Zenon DEF Slips
<1>8. QED
  BY <1>5, <1>6, <1>7

\* The broadcast puts results on their way to the page.
LEMMA BroadcastKeeps == ASSUME ViewInv, NEW r \in late, Broadcast(r) PROVE ViewInv'
<1> USE DEF ViewInv
<1>1. /\ UNCHANGED <<board, held, copies, wasOpen, raced, ws, fetch, view, flags, acting, slipped>>
      /\ late' \subseteq late
      /\ inbox' = Append(inbox, r) \/ inbox' = inbox
      /\ reply' \in {r, reply}
      /\ inbox \in Seq(Results) /\ r \in Results
      /\ LoadedInv'
  BY LoadedKeeps DEF Broadcast, TypeOK
<1>2. inbox' \in Seq(Results) /\ \A i \in DOMAIN inbox' : inbox'[i] = r \/ (i \in DOMAIN inbox /\ inbox'[i] = inbox[i])
  BY <1>1, AppendProperties
<1>3. TypeOK'
  BY <1>1, <1>2 DEF TypeOK
<1>4. OpenInv'
  <2>1. \A q : Honest(q)' <=> Honest(q')
    BY <1>1 DEF Honest
  <2>2. Honest(r)
    BY DEF OpenInv
  <2>3. \A i \in DOMAIN inbox' : Honest(inbox'[i])
    BY <1>2, <2>2 DEF OpenInv
  <2>4. view' # None => view'.opened \subseteq wasOpen'
    BY <1>1 DEF OpenInv
  <2>5. QED
    BY <1>1, <2>1, <2>2, <2>3, <2>4 DEF OpenInv, Honest
<1>5. QED
  BY <1>1, <1>3, <1>4

\* The page applies what arrives, or asks for a snapshot instead.
LEMMA EventKeeps == ASSUME ViewInv, Gap \/ ApplyEvent PROVE ViewInv'
<1> USE DEF ViewInv
<1>1. /\ inbox \in Seq(Results) /\ inbox # <<>>
      /\ inbox' = Tail(inbox)
      /\ UNCHANGED <<board, held, copies, wasOpen, raced, late, ws, acting, reply>>
      /\ LoadedInv'
  BY LoadedKeeps DEF Gap, ApplyEvent, TypeOK
<1>2. /\ Tail(inbox) \in Seq(Results) /\ Head(inbox) \in Results
      /\ \A i \in DOMAIN Tail(inbox) : Tail(inbox)[i] = inbox[i + 1] /\ i + 1 \in DOMAIN inbox
      /\ Head(inbox) = inbox[1] /\ 1 \in DOMAIN inbox
  BY <1>1, HeadTailProperties
<1>3. Honest(Head(inbox)) /\ \A i \in DOMAIN inbox' : Honest(inbox'[i])
  BY <1>1, <1>2 DEF OpenInv
<1>4. \A q : Honest(q)' <=> Honest(q')
  BY <1>1 DEF Honest
<1>5. \A i \in DOMAIN inbox' : Honest(inbox[i])'
  BY <1>1, <1>3, <1>4
<1>6. CASE Gap
  <2>1. PICK f \in Fetches : fetch' = [fetch EXCEPT ![f] = Asked]
    BY <1>6 DEF Gap
  <2>2. UNCHANGED <<view, flags, slipped>>
    BY <1>6 DEF Gap
  <2>3. TypeOK'
    BY <1>1, <1>2, <2>1, <2>2 DEF TypeOK
  <2>4. OpenInv'
    BY <1>1, <1>5, <2>1, <2>2, NoneAssumption DEF OpenInv, Honest, TypeOK
  <2>5. QED
    BY <1>1, <2>3, <2>4
<1>7. CASE ApplyEvent
  <2>1. /\ fetch' = fetch /\ Apply(Head(inbox))
        /\ slipped' = (slipped \/ Slips(Head(inbox)))
    BY <1>7 DEF ApplyEvent
  <2>2. /\ view' \in Snapshots \union {None} /\ flags' \subseteq Cells
        /\ (view' # None => view'.opened \subseteq wasOpen') /\ Slips(Head(inbox)) \in BOOLEAN
    BY <1>1, <1>2, <1>3, <2>1, ApplyHonest
  <2>3. slipped' \in BOOLEAN
    BY <2>1, <2>2 DEF TypeOK
  <2>4. TypeOK'
    BY <1>1, <1>2, <2>1, <2>2, <2>3 DEF TypeOK
  <2>5. OpenInv'
    BY <1>1, <1>5, <2>1, <2>2 DEF OpenInv, Honest
  <2>6. QED
    BY <1>1, <2>4, <2>5
<1>8. QED
  BY <1>6, <1>7

\* The answer to the page's own operation arrives or is lost.
LEMMA ReplyKeeps == ASSUME ViewInv, ApplyReply \/ ReplyLost PROVE ViewInv'
<1> USE DEF ViewInv
<1>1. /\ reply # None /\ reply \in Results /\ Honest(reply)
      /\ reply' = None /\ acting' = FALSE
      /\ UNCHANGED <<board, held, copies, wasOpen, raced, late, ws, inbox, fetch>>
      /\ LoadedInv'
  BY LoadedKeeps DEF ApplyReply, ReplyLost, TypeOK, OpenInv
<1>2. /\ view' \in Snapshots \union {None} /\ flags' \subseteq Cells
      /\ (view' # None => view'.opened \subseteq wasOpen') /\ slipped' \in BOOLEAN
  <2>1. CASE ApplyReply
    <3>1. Apply(reply) /\ slipped' = (slipped \/ Slips(reply))
      BY <2>1 DEF ApplyReply
    <3>2. QED
      BY <1>1, <3>1, ApplyHonest DEF TypeOK
  <2>2. CASE ReplyLost
    BY <1>1, <2>2 DEF ReplyLost, TypeOK, OpenInv
  <2>3. QED
    BY <2>1, <2>2
<1>3. TypeOK'
  BY <1>1, <1>2 DEF TypeOK
<1>4. OpenInv'
  BY <1>1, <1>2 DEF OpenInv, Honest
<1>5. QED
  BY <1>1, <1>3, <1>4

\* A snapshot is asked for, is read from the board, arrives or is lost.
LEMMA FetchKeeps ==
    ASSUME ViewInv, LoadVisible \/ \E f \in Fetches : Serve(f) \/ Arrive(f) \/ FetchFails(f)
    PROVE  ViewInv'
<1> USE DEF ViewInv
<1>1. /\ UNCHANGED <<board, held, copies, wasOpen, raced, late, ws, inbox, acting, reply>>
      /\ \E f \in Fetches, v \in {None, Asked, board} : fetch' = [fetch EXCEPT ![f] = v]
      /\ LoadedInv'
  <2>1. UNCHANGED boardVars /\ UNCHANGED <<late, ws, inbox, acting, reply>>
    BY DEF LoadVisible, Serve, Arrive, FetchFails
  <2>2. \E f \in Fetches, v \in {None, Asked, board} : fetch' = [fetch EXCEPT ![f] = v]
    BY FetchAssumption DEF LoadVisible, Serve, Arrive, FetchFails
  <2>3. QED
    BY <2>1, <2>2, LoadedKeeps
<1>2. /\ fetch' \in [Fetches -> Boards \union {None, Asked}]
      /\ \A f \in Fetches : fetch'[f] \in Boards => fetch'[f].opened \subseteq wasOpen
  BY <1>1, NoneAssumption DEF TypeOK, LoadedInv, OpenInv
<1>3. /\ view' \in Snapshots \union {None} /\ flags' \subseteq Cells
      /\ (view' # None => view'.opened \subseteq wasOpen') /\ slipped' \in BOOLEAN
  <2>1. CASE UNCHANGED <<view, flags, slipped>>
    BY <1>1, <2>1 DEF TypeOK, OpenInv
  <2>2. ASSUME NEW f \in Fetches, Arrive(f) PROVE <1>3!:
    <3>1. /\ fetch[f] \in Boards /\ slipped' = FALSE
          /\ view' = [version |-> fetch[f].version, opened |-> fetch[f].opened, closed |-> fetch[f].closed]
          /\ flags' = fetch[f].flagged
      BY <2>2 DEF Arrive, Take
    <3>2. QED
      BY <1>1, <3>1 DEF Boards, Snapshots, OpenInv
  <2>3. QED
    BY <2>1, <2>2 DEF LoadVisible, Serve, FetchFails
<1>4. TypeOK'
  BY <1>1, <1>2, <1>3 DEF TypeOK
<1>5. OpenInv'
  BY <1>1, <1>2, <1>3 DEF OpenInv, Honest
<1>6. QED
  BY <1>1, <1>4, <1>5

\* The page subscribes, loses its connection, moves, or drops its copy.
LEMMA PageKeeps ==
    ASSUME ViewInv, Subscribe \/ Disconnect \/ MoveAway \/ ClosureTimer
    PROVE  ViewInv'
<1> USE DEF ViewInv
<1>1. /\ UNCHANGED <<board, held, copies, wasOpen, raced, late, fetch, acting, reply>>
      /\ ws' \in {"none", "on", "lost"}
      /\ inbox' \in {inbox, <<>>} /\ view' \in {view, None} /\ flags' \in {flags, {}}
      /\ slipped' \in BOOLEAN
      /\ LoadedInv'
  BY LoadedKeeps DEF Subscribe, Disconnect, MoveAway, ClosureTimer, TypeOK
<1>2. inbox' \in Seq(Results) /\ \A i \in DOMAIN inbox' : i \in DOMAIN inbox /\ inbox'[i] = inbox[i]
  <2>1. inbox \in Seq(Results)
    BY DEF TypeOK
  <2>2. <<>> \in Seq(Results) /\ DOMAIN <<>> = {}
    BY EmptySeq
  <2>3. QED
    BY <1>1, <2>1, <2>2
<1>3. TypeOK'
  BY <1>1, <1>2 DEF TypeOK
<1>4. OpenInv'
  BY <1>1, <1>2 DEF OpenInv, Honest
<1>5. QED
  BY <1>1, <1>3, <1>4

-----------------------------------------------------------------------------
(* The invariant *)

\* Every step keeps the invariant.
LEMMA ViewStep == ViewInv /\ [Next]_vars => ViewInv'
<1> SUFFICES ASSUME ViewInv, [Next]_vars PROVE ViewInv'
  OBVIOUS
<1>1. CASE UNCHANGED vars
  BY <1>1 DEF vars, boardVars, pageVars, ViewInv, TypeOK, LoadedInv, OpenInv, Honest
<1>2. CASE Next
  BY <1>2, WorkerKeeps, LoadKeeps, BroadcastKeeps, EventKeeps, ReplyKeeps, FetchKeeps, PageKeeps DEF Next
<1>3. QED
  BY <1>1, <1>2

\* ViewInv holds in every state (chunk_handler.go, chunk_service.go, app.js).
THEOREM ViewInvariant == Spec => []ViewInv
  BY InitView, ViewStep, PTL DEF Spec

\* The shape of every variable.
THEOREM ViewTypes == Spec => []TypeOK
<1>1. ViewInv => TypeOK
  BY DEF ViewInv
<1>2. QED
  BY <1>1, ViewInvariant, PTL

\* No page draws a cell open that never was, nor one that is not until a reader has
\* stored an old board, for any number of cells, of operations, of readers and of
\* snapshots on their way.
THEOREM DrawnCellsAreOpen == Spec => []OpenedTrue
<1>1. ViewInv => OpenedTrue
  BY DEF ViewInv, LoadedInv, OpenInv, OpenedTrue
<1>2. QED
  BY <1>1, ViewInvariant, PTL

-----------------------------------------------------------------------------
(* A page that believes to be up to date *)

\* The results on their way to the page, and those of them that changed the chunk.
Pending == late \union {inbox[i] : i \in DOMAIN inbox} \union ({reply} \ {None})
Changes == {r \in Pending : r.kind # "again"}

\* Every change of the board b after version n is on its way, in C.
AllKnown(n, b, C) == \A k \in n + 1 .. b.version : \E r \in C : r.version = k

\* What is on its way, C, agrees with the board b: each version has one change, and
\* when all that follow it are known, the last change of a cell's flag is how it is.
Agrees(C, b) ==
    /\ \A r \in C : r.version <= b.version /\ (r.kind = "closed" => r.cells = {})
    /\ \A r, s \in C : r.version = s.version => r = s
    /\ \A r \in C : AllKnown(r.version, b, C) =>
        /\ r.kind = "closed" => b.closed
        /\ \A x \in r.cells :
            (\A s \in C : s.version > r.version => x \notin s.cells)
                => (x \in b.flagged <=> r.kind = "flagged")

\* A copy v with flags F needs nothing but the changes on their way to become the
\* board b, if all that are missing are among them.
Follows(v, F, b, C) ==
    /\ v.version <= b.version
    /\ AllKnown(v.version, b, C) =>
        /\ (\A s \in C : s.version > v.version => s.kind # "closed") => (v.closed <=> b.closed)
        /\ \A x \in Cells : (\A s \in C : s.version > v.version => x \notin s.cells)
                => (x \in F <=> x \in b.flagged)
        /\ \A x \in Cells : (\A s \in C : s.version > v.version /\ s.kind = "opened" => x \notin s.cells)
                => (x \in v.opened <=> x \in b.opened)

\* The page's copy follows, unless something slipped, and so do the snapshots.
Tracks ==
    /\ board.opened \intersect board.flagged = {}
    /\ \A r \in Pending : r.version <= board.version
    /\ Agrees(Changes, board)
    /\ \A f \in Fetches : fetch[f] \in Boards => Follows(fetch[f], fetch[f].flagged, board, Changes)
    /\ view # None /\ ~slipped => Follows(view, flags, board, Changes)

\* They do until a reader stores an old board.
CopyInv == ~raced => Tracks

-----------------------------------------------------------------------------
(* Lemmas about the changes on their way *)

\* With fewer changes on their way, a copy that still sees all it misses follows.
LEMMA FollowsLess ==
    ASSUME NEW b \in Boards, NEW C \in SUBSET Results, NEW D \in SUBSET C, Agrees(C, b),
           NEW v \in Boards \union Snapshots, NEW F, Follows(v, F, b, C)
    PROVE  Follows(v, F, b, D)
<1>1. b.version \in Nat /\ v.version \in Nat
  BY DEF Boards, Snapshots, Versions
<1>2. \A r \in C : r.version \in Nat /\ r.version <= b.version
  BY DEF Results, Versions, Agrees
<1> SUFFICES ASSUME AllKnown(v.version, b, D)
             PROVE  /\ AllKnown(v.version, b, C)
                    /\ \A s \in C : s.version > v.version => s \in D
  BY DEF Follows
<1>3. AllKnown(v.version, b, C)
  BY DEF AllKnown
<1>4. ASSUME NEW s \in C, s.version > v.version PROVE s \in D
  <2>1. s.version \in v.version + 1 .. b.version
    BY <1>1, <1>2, <1>4
  <2>2. PICK r \in D : r.version = s.version
    BY <2>1 DEF AllKnown
  <2>3. QED
    BY <2>2 DEF Agrees
<1>5. QED
  BY <1>3, <1>4

\* So do the changes themselves.
LEMMA AgreesLess ==
    ASSUME NEW b \in Boards, NEW C \in SUBSET Results, NEW D \in SUBSET C, Agrees(C, b)
    PROVE  Agrees(D, b)
<1>1. b.version \in Nat /\ \A r \in C : r.version \in Nat /\ r.version <= b.version
  BY DEF Boards, Results, Versions, Agrees
<1>2. ASSUME NEW r \in D, AllKnown(r.version, b, D)
      PROVE  AllKnown(r.version, b, C) /\ \A s \in C : s.version > r.version => s \in D
  <2>1. AllKnown(r.version, b, C)
    BY <1>2 DEF AllKnown
  <2>2. ASSUME NEW s \in C, s.version > r.version PROVE s \in D
    <3>1. s.version \in r.version + 1 .. b.version
      BY <1>1, <2>2
    <3>2. PICK q \in D : q.version = s.version
      BY <1>2, <3>1 DEF AllKnown
    <3>3. QED
      BY <3>2 DEF Agrees
  <2>3. QED
    BY <2>1, <2>2
<1>3. QED
  BY <1>2 DEF Agrees

\* A change nobody is told of leaves every copy behind for good.
LEMMA Untold ==
    ASSUME NEW b \in Boards, NEW c \in Boards, c.version = b.version + 1,
           NEW C \in SUBSET Results, Agrees(C, b)
    PROVE  /\ Agrees(C, c)
           /\ \A v \in Boards \union Snapshots : \A F : Follows(v, F, b, C) => Follows(v, F, c, C)
<1>1. b.version \in Nat /\ c.version \in Nat /\ \A r \in C : r.version \in Nat /\ r.version <= b.version
  BY DEF Boards, Results, Versions, Agrees
<1>2. \A n \in Nat : n <= b.version => ~ AllKnown(n, c, C)
  <2> SUFFICES ASSUME NEW n \in Nat, n <= b.version, AllKnown(n, c, C) PROVE FALSE
    OBVIOUS
  <2>1. c.version \in n + 1 .. c.version
    BY <1>1
  <2>2. QED
    BY <1>1, <2>1 DEF AllKnown
<1>3. Agrees(C, c)
  BY <1>1, <1>2 DEF Agrees
<1>4. ASSUME NEW v \in Boards \union Snapshots, NEW F, Follows(v, F, b, C)
      PROVE  Follows(v, F, c, C)
  <2>1. v.version \in Nat /\ v.version <= b.version
    BY <1>4 DEF Boards, Snapshots, Versions, Follows
  <2>2. QED
    BY <1>1, <1>2, <2>1 DEF Follows
<1>5. QED
  BY <1>3, <1>4

\* Result r is the change that makes board c of board b.
Makes(r, b, c) ==
    /\ r.version = b.version + 1 /\ c.version = b.version + 1
    /\ ~b.closed /\ (c.closed <=> r.kind = "closed") /\ (r.kind = "closed" => r.cells = {})
    /\ \A x \in Cells : x \in c.flagged <=> IF x \in r.cells THEN r.kind = "flagged" ELSE x \in b.flagged
    /\ b.opened \subseteq c.opened
    /\ \A x \in Cells : x \in c.opened =>
            x \in b.opened \/ (r.kind = "opened" /\ x \in r.cells)

\* Whatever followed the board still does, when the change is on its way.
LEMMA Told ==
    ASSUME NEW b \in Boards, NEW c \in Boards, NEW r \in Results, Makes(r, b, c),
           NEW C \in SUBSET Results, Agrees(C, b),
           r.kind = "opened" => r.cells = c.opened
    PROVE  /\ Agrees(C \union {r}, c)
           /\ \A v \in Boards \union Snapshots : \A F :
                Follows(v, F, b, C) => Follows(v, F, c, C \union {r})
<1> DEFINE D == C \union {r}
<1>1. /\ b.version \in Nat /\ c.version \in Nat /\ c.version = b.version + 1 /\ r.version = c.version
      /\ \A s \in C : s.version \in Nat /\ s.version <= b.version
      /\ r.cells \subseteq Cells
  BY DEF Boards, Results, Versions, Agrees, Makes
<1>2. ASSUME NEW n \in Nat, n <= b.version, AllKnown(n, c, D) PROVE AllKnown(n, b, C)
  <2> SUFFICES ASSUME NEW k \in n + 1 .. b.version PROVE \E s \in C : s.version = k
    BY DEF AllKnown
  <2>1. k \in n + 1 .. c.version /\ k # r.version
    BY <1>1, <1>2
  <2>2. QED
    BY <1>2, <2>1 DEF AllKnown
<1>3. Agrees(D, c)
  <2>1. \A s \in D : s.version <= c.version /\ (s.kind = "closed" => s.cells = {})
    BY <1>1 DEF Agrees, Makes
  <2>2. \A s, t \in D : s.version = t.version => s = t
    <3> SUFFICES ASSUME NEW s \in D, NEW t \in D, s.version = t.version PROVE s = t
      OBVIOUS
    <3>1. CASE s \in C /\ t \in C
      BY <3>1 DEF Agrees
    <3>2. CASE s = r \/ t = r
      <4>1. \A q \in C : q.version # r.version
        BY <1>1
      <4>2. QED
        BY <3>2, <4>1
    <3>3. QED
      BY <3>1, <3>2
  <2>3. ASSUME NEW s \in D, AllKnown(s.version, c, D)
        PROVE  /\ s.kind = "closed" => c.closed
               /\ \A x \in s.cells :
                    (\A t \in D : t.version > s.version => x \notin t.cells)
                        => (x \in c.flagged <=> s.kind = "flagged")
    <3>1. CASE s = r
      BY <1>1, <3>1 DEF Makes
    <3>2. CASE s \in C
      <4>1. AllKnown(s.version, b, C)
        BY <1>1, <1>2, <2>3, <3>2
      <4>2. s.kind # "closed"
        BY <3>2, <4>1 DEF Agrees, Makes
      <4>3. ASSUME NEW x \in s.cells, \A t \in D : t.version > s.version => x \notin t.cells
            PROVE  x \in c.flagged <=> s.kind = "flagged"
        <5>1. x \notin r.cells /\ x \in Cells
          BY <1>1, <3>2, <4>3 DEF Results
        <5>2. x \in b.flagged <=> s.kind = "flagged"
          BY <3>2, <4>1, <4>3 DEF Agrees
        <5>3. QED
          BY <5>1, <5>2 DEF Makes
      <4>4. QED
        BY <4>2, <4>3
    <3>3. QED
      BY <3>1, <3>2
  <2> HIDE DEF D
  <2>4. QED
    BY <2>1, <2>2, <2>3 DEF Agrees
<1>4. ASSUME NEW v \in Boards \union Snapshots, NEW F, Follows(v, F, b, C)
      PROVE  Follows(v, F, c, D)
  <2>1. v.version \in Nat /\ v.version <= b.version /\ v.version <= c.version /\ r.version > v.version
    BY <1>1, <1>4 DEF Boards, Snapshots, Versions, Follows
  <2>2. ASSUME AllKnown(v.version, c, D)
        PROVE  /\ (\A s \in D : s.version > v.version => s.kind # "closed") => (v.closed <=> c.closed)
               /\ \A x \in Cells : (\A s \in D : s.version > v.version => x \notin s.cells)
                    => (x \in F <=> x \in c.flagged)
               /\ \A x \in Cells : (\A s \in D : s.version > v.version /\ s.kind = "opened" => x \notin s.cells)
                    => (x \in v.opened <=> x \in c.opened)
    <3>1. AllKnown(v.version, b, C)
      BY <1>2, <2>1, <2>2
    <3>2. ASSUME \A s \in D : s.version > v.version => s.kind # "closed"
          PROVE  v.closed <=> c.closed
      BY <1>4, <2>1, <3>1, <3>2 DEF Follows, Makes
    <3>3. ASSUME NEW x \in Cells, \A s \in D : s.version > v.version => x \notin s.cells
          PROVE  x \in F <=> x \in c.flagged
      BY <1>4, <2>1, <3>1, <3>3 DEF Follows, Makes
    <3>4. ASSUME NEW x \in Cells, \A s \in D : s.version > v.version /\ s.kind = "opened" => x \notin s.cells
          PROVE  x \in v.opened <=> x \in c.opened
      <4>1. x \in v.opened <=> x \in b.opened
        BY <1>4, <3>1, <3>4 DEF Follows
      <4>2. r.kind = "opened" => x \notin r.cells
        BY <2>1, <3>4
      <4>3. QED
        BY <4>1, <4>2 DEF Makes
    <3>5. QED
      BY <3>2, <3>3, <3>4
  <2> HIDE DEF D
  <2>3. QED
    BY <2>1, <2>2 DEF Follows
<1>5. QED
  BY <1>3, <1>4

\* What the page makes of its flags.
Redrawn(F, r) ==
    CASE r.kind = "flagged" -> F \union r.cells
      [] r.kind = "closed"  -> F
      [] OTHER              -> F \ r.cells

\* A result that is older than the copy or the next one keeps it following.
LEMMA ApplyFollows ==
    ASSUME NEW b \in Boards, b.opened \intersect b.flagged = {},
           NEW C \in SUBSET Results, Agrees(C, b),
           NEW r \in Results, r.version <= b.version, r.kind # "again" => r \in C,
           r.kind \in {"opened", "again"} => r.cells \subseteq b.opened,
           NEW v \in Snapshots, v.opened \subseteq b.opened, NEW F, Follows(v, F, b, C),
           r.version <= v.version + 1, r.kind = "again" => r.version <= v.version
    PROVE  Follows(Updated(v, r), Redrawn(F, r), b, C)
<1> DEFINE u == Updated(v, r)
<1>1. /\ b.version \in Nat /\ v.version \in Nat /\ r.version \in Nat
      /\ r.kind \in Kinds /\ r.cells \subseteq Cells
      /\ \A s \in C : s.version \in Nat
  BY DEF Boards, Snapshots, Results, Versions
<1>2. /\ u.version = r.version
      /\ u.opened = IF r.kind \in {"opened", "again"} THEN v.opened \union r.cells ELSE v.opened
      /\ u.closed = (v.closed \/ r.kind = "closed")
  BY DEF Updated
<1> HIDE DEF u
<1>3. ASSUME AllKnown(r.version, b, C)
      PROVE  AllKnown(v.version, b, C)
  <2> SUFFICES ASSUME NEW k \in v.version + 1 .. b.version PROVE \E s \in C : s.version = k
    BY DEF AllKnown
  <2>1. CASE k = r.version
    BY <1>1, <2>1
  <2>2. CASE k # r.version
    <3>1. k \in r.version + 1 .. b.version
      BY <1>1, <2>2
    <3>2. QED
      BY <1>3, <3>1 DEF AllKnown
  <2>3. QED
    BY <2>1, <2>2
<1>4. ASSUME NEW s \in C, s.version > v.version PROVE s.version > r.version \/ s = r
  <2>1. CASE s.version = r.version
    <3>1. r \in C
      BY <1>1, <1>4, <2>1
    <3>2. QED
      BY <2>1, <3>1 DEF Agrees
  <2>2. QED
    BY <1>1, <1>4, <2>1
<1>5. ASSUME AllKnown(r.version, b, C), \A s \in C : s.version > r.version => s.kind # "closed"
      PROVE  u.closed <=> b.closed
  <2>1. CASE r.kind = "closed"
    BY <1>2, <1>5, <2>1 DEF Agrees
  <2>2. CASE r.kind # "closed"
    <3>1. \A s \in C : s.version > v.version => s.kind # "closed"
      BY <1>4, <1>5, <2>2
    <3>2. v.closed <=> b.closed
      BY <1>3, <1>5, <3>1 DEF Follows
    <3>3. QED
      BY <1>2, <2>2, <3>2
  <2>3. QED
    BY <2>1, <2>2
<1>6. ASSUME AllKnown(r.version, b, C), NEW x \in Cells,
             \A s \in C : s.version > r.version => x \notin s.cells
      PROVE  x \in Redrawn(F, r) <=> x \in b.flagged
  <2>1. CASE x \in r.cells
    <3>1. r.kind # "closed"
      BY <2>1 DEF Agrees
    <3>2. x \in Redrawn(F, r) <=> r.kind = "flagged"
      BY <2>1, <3>1 DEF Redrawn
    <3>3. CASE r.kind = "again"
      BY <2>1, <3>2, <3>3
    <3>4. CASE r.kind # "again"
      BY <1>6, <2>1, <3>2, <3>4 DEF Agrees
    <3>5. QED
      BY <3>3, <3>4
  <2>2. CASE x \notin r.cells
    <3>1. \A s \in C : s.version > v.version => x \notin s.cells
      BY <1>4, <1>6, <2>2
    <3>2. x \in F <=> x \in b.flagged
      BY <1>3, <1>6, <3>1 DEF Follows
    <3>3. QED
      BY <2>2, <3>2 DEF Redrawn
  <2>3. QED
    BY <2>1, <2>2
<1>7. ASSUME AllKnown(r.version, b, C), NEW x \in Cells,
             \A s \in C : s.version > r.version /\ s.kind = "opened" => x \notin s.cells
      PROVE  x \in u.opened <=> x \in b.opened
  <2>1. CASE r.kind \in {"opened", "again"} /\ x \in r.cells
    BY <1>2, <2>1
  <2>2. CASE ~(r.kind \in {"opened", "again"} /\ x \in r.cells)
    <3>1. \A s \in C : s.version > v.version /\ s.kind = "opened" => x \notin s.cells
      BY <1>4, <1>7, <2>2
    <3>2. x \in v.opened <=> x \in b.opened
      BY <1>3, <1>7, <3>1 DEF Follows
    <3>3. QED
      BY <1>2, <2>2, <3>2
  <2>3. QED
    BY <2>1, <2>2
<1>8. QED
  BY <1>2, <1>5, <1>6, <1>7 DEF Follows, u

-----------------------------------------------------------------------------
(* The invariant of the page's copy *)

\* Everything on its way is a result, and the board follows itself.
LEMMA PendingTypes ==
    ASSUME TypeOK
    PROVE  /\ Pending \in SUBSET Results /\ Changes \in SUBSET Results
           /\ Changes \in SUBSET Pending
           /\ board \in Boards /\ board.version \in Nat
           /\ \A C : Follows(board, board.flagged, board, C)
<1>1. \A i \in DOMAIN inbox : inbox[i] \in Results
  BY ElementOfSeq, LenProperties DEF TypeOK
<1>2. Pending \in SUBSET Results
  BY <1>1 DEF Pending, TypeOK
<1>3. board \in Boards /\ board.version \in Nat
  BY DEF TypeOK, Boards, Versions
<1>4. QED
  BY <1>2, <1>3 DEF Changes, Follows

\* A step that leaves the chunk alone and puts nothing on its way but what was.
LEMMA CopyLess ==
    ASSUME ViewInv, Tracks, UNCHANGED board, Pending' \subseteq Pending,
           \A f \in Fetches : fetch'[f] \in Boards => fetch'[f] \in {board, fetch[f]},
           view' # None /\ ~slipped' => Follows(view', flags', board, Changes),
           view' \in Snapshots \union {None}
    PROVE  Tracks'
<1> DEFINE C == Changes
           D == Changes'
           P == Pending
           Q == Pending'
<1>1. /\ C \in SUBSET Results /\ D \in SUBSET C /\ Q \subseteq P
      /\ board \in Boards /\ Agrees(C, board) /\ Follows(board, board.flagged, board, C)
      /\ \A r \in P : r.version <= board.version
      /\ board.opened \intersect board.flagged = {}
  BY PendingTypes DEF Changes, Tracks, ViewInv
<1>2. \A f \in Fetches : fetch'[f] \in Boards => Follows(fetch'[f], fetch'[f].flagged, board, C)
  BY <1>1 DEF Tracks
<1>3. Tracks' <=> /\ board.opened \intersect board.flagged = {}
                  /\ \A r \in Q : r.version <= board.version
                  /\ Agrees(D, board)
                  /\ \A f \in Fetches : fetch'[f] \in Boards => Follows(fetch'[f], fetch'[f].flagged, board, D)
                  /\ view' # None /\ ~slipped' => Follows(view', flags', board, D)
  BY DEF Tracks
<1>4. view' # None /\ ~slipped' => Follows(view', flags', board, C)
  OBVIOUS
<1> HIDE DEF C, D, P, Q
<1>5. Agrees(D, board)
  BY <1>1, AgreesLess
<1>6. \A f \in Fetches : fetch'[f] \in Boards => Follows(fetch'[f], fetch'[f].flagged, board, D)
  BY <1>1, <1>2, FollowsLess
<1>7. view' # None /\ ~slipped' => Follows(view', flags', board, D)
  BY <1>1, <1>4, FollowsLess
<1>8. QED
  BY <1>1, <1>3, <1>5, <1>6, <1>7

\* An operation of the worker puts at most its result on its way.
LEMMA CopyMore ==
    ASSUME ViewInv, Tracks, UNCHANGED <<inbox, fetch, view, flags, reply, slipped>>,
           board' \in Boards, board'.opened \intersect board'.flagged = {},
           \/ board'.version = board.version + 1 /\ late' = late
           \/ /\ board' = board
              /\ \/ late' = late
                 \/ \E r \in Results : /\ r.kind = "again" /\ r.version = board.version
                                       /\ late' = late \union {r}
           \/ \E r \in Results : /\ late' = late \union {r} /\ r.kind # "again"
                                 /\ Makes(r, board, board')
                                 /\ r.kind = "opened" => r.cells = board'.opened
    PROVE  Tracks'
<1> DEFINE C == Changes
           D == Changes'
           P == Pending
           Q == Pending'
<1>1. /\ C \in SUBSET Results /\ P \in SUBSET Results
      /\ board \in Boards /\ board.version \in Nat /\ Agrees(C, board)
      /\ \A r \in P : r.version \in Nat /\ r.version <= board.version
      /\ \A f \in Fetches : fetch[f] \in Boards => Follows(fetch[f], fetch[f].flagged, board, C)
      /\ view # None /\ ~slipped => Follows(view, flags, board, C)
      /\ view \in Snapshots \union {None}
  BY PendingTypes DEF Tracks, ViewInv, TypeOK, Results, Versions
<1>2. ASSUME late' = late PROVE Q = P /\ D = C
  BY <1>2 DEF Changes, Pending
<1>3. ASSUME NEW r \in Results, late' = late \union {r}
      PROVE  Q = P \union {r} /\ D = IF r.kind = "again" THEN C ELSE C \union {r}
  BY <1>3 DEF Changes, Pending
<1>4. SUFFICES /\ \A r \in Q : r.version <= board'.version
               /\ Agrees(D, board')
               /\ \A v \in Boards \union Snapshots : \A F : Follows(v, F, board, C) => Follows(v, F, board', D)
  <2> SUFFICES ASSUME \A r \in Q : r.version <= board'.version,
                      Agrees(D, board'),
                      \A v \in Boards \union Snapshots : \A F : Follows(v, F, board, C) => Follows(v, F, board', D)
               PROVE  Tracks'
    OBVIOUS
  <2>1. Tracks' <=> /\ board'.opened \intersect board'.flagged = {}
                    /\ \A r \in Q : r.version <= board'.version
                    /\ Agrees(D, board')
                    /\ \A f \in Fetches : fetch[f] \in Boards => Follows(fetch[f], fetch[f].flagged, board', D)
                    /\ view # None /\ ~slipped => Follows(view, flags, board', D)
    BY DEF Tracks
  <2> HIDE DEF C, D, P, Q
  <2>2. \A f \in Fetches : fetch[f] \in Boards => Follows(fetch[f], fetch[f].flagged, board', D)
    BY <1>1
  <2>3. view # None /\ ~slipped => Follows(view, flags, board', D)
    BY <1>1
  <2>4. QED
    BY <2>1, <2>2, <2>3
<1> HIDE DEF C, D, P, Q
<1>5. CASE board'.version = board.version + 1 /\ late' = late
  BY <1>1, <1>2, <1>5, Untold
<1>6. CASE board' = board /\ (late' = late \/ \E r \in Results : /\ r.kind = "again" /\ r.version = board.version
                                                               /\ late' = late \union {r})
  BY <1>1, <1>2, <1>3, <1>6
<1>7. ASSUME NEW r \in Results, late' = late \union {r}, r.kind # "again", Makes(r, board, board'),
             r.kind = "opened" => r.cells = board'.opened
      PROVE  <1>4!1
  <2>1. Q = P \union {r} /\ D = C \union {r}
    BY <1>3, <1>7
  <2>2. r.version = board.version + 1 /\ board'.version = board.version + 1
    BY <1>7 DEF Makes
  <2>3. \A q \in Q : q.version <= board'.version
    BY <1>1, <2>1, <2>2
  <2>4. QED
    BY <1>1, <1>7, <2>1, <2>3, Told
<1>8. QED
  BY <1>5, <1>6, <1>7

\* The operations of the worker.
LEMMA WorkerCopies ==
    ASSUME ViewInv, ~raced, Tracks,
           \/ \E own \in BOOLEAN :
                \/ \E X \in SUBSET Cells : Open(X, own)
                \/ \E x \in Cells : OpenAgain(x, own)
                \/ \E x \in Cells, on \in BOOLEAN : Flag(x, on, own)
                \/ HitMine(own)
           \/ \E x \in Cells : Cancelled(x)
           \/ \E X \in SUBSET Cells : OpenUntold(X)
           \/ HitMineUntold
           \/ \E x \in Cells, on \in BOOLEAN : FlagUntold(x, on)
    PROVE  Tracks'
<1>1. /\ board \in Boards /\ board.version \in Versions
      /\ board.version < MaxVersion => board.version + 1 \in Versions
      /\ board.opened \subseteq Cells /\ board.flagged \subseteq Cells
      /\ board.opened \intersect board.flagged = {}
  BY BoundAssumption DEF ViewInv, TypeOK, Boards, Versions, Tracks
<1>2. ASSUME NEW own, Requested(own)
      PROVE  held = board /\ ~board.closed /\ UNCHANGED <<inbox, fetch, view, flags, reply, slipped>>
  BY <1>2 DEF Requested, ViewInv, LoadedInv
<1>3. ASSUME NEW own \in BOOLEAN, NEW X \in SUBSET Cells, Open(X, own) PROVE Tracks'
  <2>1. /\ board' \in Boards /\ board'.version = board.version + 1
        /\ board'.opened = board.opened \union X /\ board'.flagged = board.flagged
        /\ board'.closed = FALSE /\ ~board.closed
        /\ X \intersect board.flagged = {}
    BY <1>1, <1>2, <1>3 DEF Open, Store, Hidden, Boards
  <2> DEFINE r == [kind |-> "opened", version |-> board'.version, cells |-> board'.opened, own |-> own]
  <2>2. late' = late \union {r} /\ Requested(own)
    BY <1>2, <1>3, <2>1 DEF Open, Answered
  <2>3. r \in Results /\ r.kind = "opened" /\ r.cells = board'.opened /\ r.version = board'.version
    BY <2>1 DEF Results, Kinds, Boards
  <2> HIDE DEF r
  <2>4. board'.opened \intersect board'.flagged = {}
    BY <1>1, <2>1
  <2>5. Makes(r, board, board')
    BY <2>1, <2>3, <2>4 DEF Makes
  <2>6. QED
    BY <1>2, <2>1, <2>2, <2>3, <2>4, <2>5, CopyMore
<1>4. ASSUME NEW own \in BOOLEAN, NEW x \in Cells, OpenAgain(x, own) PROVE Tracks'
  <2> DEFINE r == [kind |-> "again", version |-> board'.version, cells |-> {x}, own |-> own]
  <2>1. board' = board /\ late' = late \union {r} /\ Requested(own)
    BY <1>2, <1>4 DEF OpenAgain, Answered
  <2>2. r \in Results /\ r.kind = "again" /\ r.version = board.version
    BY <1>1, <2>1 DEF Results, Kinds
  <2> HIDE DEF r
  <2>3. QED
    BY <1>1, <1>2, <2>1, <2>2, CopyMore
<1>5. ASSUME NEW own \in BOOLEAN, NEW x \in Cells, NEW on \in BOOLEAN, Flag(x, on, own)
      PROVE  Tracks'
  <2>1. /\ board' \in Boards /\ board'.version = board.version + 1
        /\ board'.opened = board.opened /\ x \notin board.opened
        /\ board'.flagged = IF on THEN board.flagged \union {x} ELSE board.flagged \ {x}
        /\ board'.closed = FALSE /\ ~board.closed
    BY <1>1, <1>2, <1>5 DEF Flag, Store, Flagged, Boards
  <2> DEFINE k == IF on THEN "flagged" ELSE "unflagged"
             r == [kind |-> k, version |-> board'.version, cells |-> {x}, own |-> own]
  <2>2. late' = late \union {r} /\ Requested(own)
    BY <1>2, <1>5, <2>1 DEF Flag, Answered
  <2>3. r \in Results /\ r.kind = k /\ r.cells = {x} /\ r.version = board'.version
    BY <2>1 DEF Results, Kinds, Boards
  <2> HIDE DEF r
  <2>4. board'.opened \intersect board'.flagged = {}
    BY <1>1, <2>1
  <2>5. Makes(r, board, board')
    BY <2>1, <2>3 DEF Makes
  <2>6. QED
    BY <1>2, <2>1, <2>2, <2>3, <2>4, <2>5, CopyMore
<1>6. ASSUME NEW own \in BOOLEAN, HitMine(own) PROVE Tracks'
  <2>1. /\ board' \in Boards /\ board'.version = board.version + 1
        /\ board'.opened = board.opened /\ board'.flagged = board.flagged
        /\ board'.closed = TRUE /\ ~board.closed
    BY <1>1, <1>2, <1>6 DEF HitMine, Store, Boards
  <2> DEFINE r == [kind |-> "closed", version |-> board'.version, cells |-> {}, own |-> own]
  <2>2. late' = late \union {r} /\ Requested(own)
    BY <1>2, <1>6, <2>1 DEF HitMine, Answered
  <2>3. r \in Results /\ r.kind = "closed" /\ r.cells = {} /\ r.version = board'.version
    BY <2>1 DEF Results, Kinds, Boards
  <2> HIDE DEF r
  <2>4. Makes(r, board, board')
    BY <2>1, <2>3 DEF Makes
  <2>5. QED
    BY <1>1, <1>2, <2>1, <2>2, <2>3, <2>4, CopyMore
<1>7. ASSUME NEW x \in Cells, Cancelled(x) PROVE Tracks'
  BY <1>1, <1>2, <1>7, CopyMore DEF Cancelled, CancelledUntold
<1>8. ASSUME NEW X \in SUBSET Cells, OpenUntold(X) PROVE Tracks'
  <2>1. /\ board' \in Boards /\ board'.version = board.version + 1 /\ late' = late
        /\ board'.opened = board.opened \union X /\ board'.flagged = board.flagged
        /\ X \intersect board.flagged = {} /\ Requested(FALSE)
    BY <1>1, <1>2, <1>8 DEF OpenUntold, Store, Hidden, Boards
  <2>2. QED
    BY <1>1, <1>2, <2>1, CopyMore
<1>9. CASE HitMineUntold
  <2>1. /\ board' \in Boards /\ board'.version = board.version + 1 /\ late' = late
        /\ board'.opened = board.opened /\ board'.flagged = board.flagged /\ Requested(FALSE)
    BY <1>1, <1>2, <1>9 DEF HitMineUntold, Store, Boards
  <2>2. QED
    BY <1>1, <1>2, <2>1, CopyMore
<1>10. ASSUME NEW x \in Cells, NEW on \in BOOLEAN, FlagUntold(x, on) PROVE Tracks'
  <2>1. /\ board' \in Boards /\ board'.version = board.version + 1 /\ late' = late
        /\ board'.opened = board.opened /\ board'.flagged \subseteq board.flagged \union {x}
        /\ x \notin board.opened /\ Requested(FALSE)
    BY <1>1, <1>2, <1>10 DEF FlagUntold, Store, Flagged, Boards
  <2>2. board'.opened \intersect board'.flagged = {}
    BY <1>1, <2>1
  <2>3. QED
    BY <1>1, <1>2, <2>1, <2>2, CopyMore
<1>11. QED
  BY <1>3, <1>4, <1>5, <1>6, <1>7, <1>8, <1>9, <1>10

\* The worker and the readers load the board and reopen it; nobody is told.
LEMMA LoadCopies ==
    ASSUME ViewInv, ~raced, ~raced', Tracks,
           Load \/ Refused \/ Reopen \/ LoadClosed \/ \E b \in copies : StoreReopened(b) \/ EndRead(b)
    PROVE  Tracks'
<1>1. /\ ViewInv' /\ UNCHANGED <<late, inbox, fetch, view, flags, reply, slipped>>
  BY LoadKeeps DEF Load, Refused, Reopen, LoadClosed, StoreReopened, EndRead, pageVars
<1>2. board \in Boards /\ board' \in Boards
  BY <1>1 DEF ViewInv, TypeOK
<1>3. board' \in {board, Reopened(board)}
  <2>1. CASE Load \/ Refused \/ LoadClosed \/ \E b \in copies : EndRead(b)
    BY <2>1 DEF Load, Refused, LoadClosed, EndRead
  <2>2. CASE Reopen
    BY <2>2 DEF Reopen, ViewInv, LoadedInv
  <2>3. CASE \E b \in copies : StoreReopened(b)
    BY <2>3 DEF StoreReopened
  <2>4. QED
    BY <2>1, <2>2, <2>3
<1>4. CASE board' = board
  BY <1>1, <1>2, <1>4, CopyMore DEF Tracks
<1>5. CASE board' = Reopened(board)
  <2>1. /\ board'.version = board.version + 1 /\ board'.opened = board.opened
        /\ board'.flagged = board.flagged
    BY <1>2, <1>5 DEF Reopened, Boards
  <2>2. QED
    BY <1>1, <1>2, <2>1, CopyMore DEF Tracks
<1>6. QED
  BY <1>3, <1>4, <1>5

\* A result that does not slip past the copy keeps it following.
LEMMA ResultCopies ==
    ASSUME ViewInv, ~raced, Tracks, NEW r \in Pending, Honest(r), Apply(r),
           slipped' = (slipped \/ Slips(r))
    PROVE  view' # None /\ ~slipped' => Follows(view', flags', board, Changes)
<1> SUFFICES ASSUME view' # None, ~slipped' PROVE Follows(view', flags', board, Changes)
  OBVIOUS
<1>1. /\ view # None /\ view \in Snapshots /\ ~slipped /\ ~Slips(r)
      /\ view.opened \subseteq board.opened /\ wasOpen = board.opened
  BY DEF Slips, ViewInv, TypeOK, LoadedInv, OpenInv
<1>2. /\ r \in Results /\ r.version <= board.version /\ (r.kind # "again" => r \in Changes)
      /\ Changes \in SUBSET Results /\ board \in Boards
      /\ r.version \in Nat /\ view.version \in Nat
  BY <1>1, PendingTypes DEF ViewInv, Tracks, Changes, Results, Snapshots, Versions
<1>3. r.version <= view.version + 1 /\ (r.kind = "again" => r.version <= view.version)
  BY <1>1, <1>2 DEF Slips
<1>4. view' = Updated(view, r) /\ flags' = Redrawn(flags, r)
  BY <1>1, <1>2 DEF Apply, Redrawn
<1>5. Follows(view, flags, board, Changes) /\ Agrees(Changes, board)
      /\ board.opened \intersect board.flagged = {}
  BY <1>1 DEF Tracks
<1>6. QED
  BY <1>1, <1>2, <1>3, <1>4, <1>5, ApplyFollows DEF Honest

\* The broadcast moves a result, and the page takes or drops what arrives.
LEMMA PageCopies ==
    ASSUME ViewInv, ~raced, Tracks,
           \/ \E r \in late : Broadcast(r)
           \/ Gap \/ ApplyEvent \/ ApplyReply \/ ReplyLost \/ LoadVisible
           \/ \E f \in Fetches : Serve(f) \/ Arrive(f) \/ FetchFails(f)
           \/ Subscribe \/ Disconnect \/ MoveAway \/ ClosureTimer
    PROVE  Tracks'
<1>1. ViewInv'
  BY BroadcastKeeps, EventKeeps, ReplyKeeps, FetchKeeps, PageKeeps
<1>2. view' \in Snapshots \union {None} /\ UNCHANGED board
  BY <1>1 DEF boardVars, ViewInv, TypeOK, Broadcast, Gap, ApplyEvent, ApplyReply, ReplyLost, LoadVisible, Serve,
              Arrive, FetchFails, Subscribe, Disconnect, MoveAway, ClosureTimer
<1>3. Pending' \subseteq Pending
  <2>1. inbox \in Seq(Results)
    BY DEF ViewInv, TypeOK
  <2>2. ASSUME NEW r \in late, Broadcast(r) PROVE Pending' \subseteq Pending
    <3>1. /\ late' \subseteq late /\ reply' \in {r, reply}
          /\ inbox' = Append(inbox, r) \/ inbox' = inbox
      BY <2>2 DEF Broadcast
    <3>2. \A i \in DOMAIN inbox' : inbox'[i] = r \/ (i \in DOMAIN inbox /\ inbox'[i] = inbox[i])
      BY <2>1, <3>1, PendingTypes, AppendProperties DEF ViewInv, TypeOK
    <3>3. r \in Pending /\ late \subseteq Pending
      BY DEF Pending
    <3>4. QED
      BY <3>1, <3>2, <3>3 DEF Pending
  <2>3. CASE Gap \/ ApplyEvent
    <3>1. inbox # <<>> /\ inbox' = Tail(inbox) /\ UNCHANGED <<late, reply>>
      BY <2>3 DEF Gap, ApplyEvent
    <3>2. \A i \in DOMAIN inbox' : inbox'[i] = inbox[i + 1] /\ i + 1 \in DOMAIN inbox
      BY <2>1, <3>1, HeadTailProperties
    <3>3. QED
      BY <3>1, <3>2 DEF Pending
  <2>4. CASE UNCHANGED late /\ reply' \in {reply, None} /\ inbox' \in {inbox, <<>>}
    <3>1. DOMAIN <<>> = {}
      BY EmptySeq
    <3>2. \A i \in DOMAIN inbox' : i \in DOMAIN inbox /\ inbox'[i] = inbox[i]
      BY <2>4, <3>1
    <3>3. QED
      BY <2>4, <3>2 DEF Pending
  <2>5. QED
    BY <2>2, <2>3, <2>4 DEF ApplyReply, ReplyLost, LoadVisible, Serve,
              Arrive, FetchFails, Subscribe, Disconnect, MoveAway, ClosureTimer
<1>4. \A f \in Fetches : fetch'[f] \in Boards => fetch'[f] \in {board, fetch[f]}
  BY NoneAssumption DEF boardVars, ViewInv, TypeOK, Broadcast, Gap, ApplyEvent, ApplyReply, ReplyLost, LoadVisible, Serve,
              Arrive, FetchFails, Subscribe, Disconnect, MoveAway, ClosureTimer
<1>5. view' # None /\ ~slipped' => Follows(view', flags', board, Changes)
  <2>1. CASE ApplyEvent
    <3>1. /\ inbox \in Seq(Results) /\ inbox # <<>> /\ Apply(Head(inbox))
          /\ slipped' = (slipped \/ Slips(Head(inbox)))
      BY <2>1 DEF ApplyEvent, ViewInv, TypeOK
    <3>2. Head(inbox) = inbox[1] /\ 1 \in DOMAIN inbox
      BY <3>1, HeadTailProperties
    <3>3. Head(inbox) \in Pending /\ Honest(Head(inbox))
      BY <3>2 DEF Pending, ViewInv, OpenInv
    <3>4. QED
      BY <3>1, <3>3, ResultCopies
  <2>2. CASE ApplyReply
    <3>1. /\ reply # None /\ Apply(reply) /\ slipped' = (slipped \/ Slips(reply))
      BY <2>2 DEF ApplyReply
    <3>2. reply \in Pending /\ Honest(reply)
      BY <3>1 DEF Pending, ViewInv, OpenInv
    <3>3. QED
      BY <3>1, <3>2, ResultCopies
  <2>3. ASSUME NEW f \in Fetches, Arrive(f) PROVE <1>5!:
    <3>1. /\ fetch[f] \in Boards /\ flags' = fetch[f].flagged
          /\ view' = [version |-> fetch[f].version, opened |-> fetch[f].opened, closed |-> fetch[f].closed]
      BY <2>3 DEF Arrive, Take
    <3>2. Follows(fetch[f], fetch[f].flagged, board, Changes)
      BY <3>1 DEF Tracks
    <3>3. QED
      BY <3>1, <3>2 DEF Follows
  <2>4. CASE UNCHANGED <<view, flags, slipped>> \/ view' = None \/ slipped' = TRUE
    BY <2>4 DEF Tracks
  <2>5. QED
    BY <2>1, <2>2, <2>3, <2>4 DEF Broadcast, Gap, ReplyLost, LoadVisible, Serve,
              FetchFails, Subscribe, Disconnect, MoveAway, ClosureTimer
<1>6. QED
  BY <1>2, <1>3, <1>4, <1>5, CopyLess

\* Nothing is on its way at first.
LEMMA InitCopy == Init => CopyInv
<1> SUFFICES ASSUME Init PROVE CopyInv
  OBVIOUS
<1>1. /\ board.opened = {} /\ view = None /\ late = {} /\ reply = None /\ inbox = <<>>
      /\ \A f \in Fetches : fetch[f] = None
  BY DEF Init
<1>2. Pending = {} /\ Changes = {}
  BY <1>1, EmptySeq DEF Pending, Changes
<1>3. QED
  BY <1>1, <1>2, NoneAssumption DEF CopyInv, Tracks, Agrees

\* Every step keeps the invariant.
LEMMA CopyStep == ViewInv /\ CopyInv /\ [Next]_vars => CopyInv'
<1> SUFFICES ASSUME ViewInv, CopyInv, [Next]_vars, ~raced' PROVE Tracks'
  BY DEF CopyInv
<1>1. CASE UNCHANGED vars
  <2>1. UNCHANGED <<board, raced, late, inbox, reply, fetch, view, flags, slipped>>
    BY <1>1 DEF vars, boardVars, pageVars
  <2>2. Pending' = Pending /\ Changes' = Changes
    BY <2>1 DEF Pending, Changes
  <2>3. QED
    BY <2>1, <2>2 DEF CopyInv, Tracks
<1>2. CASE Next
  <2>1. ~raced /\ Tracks
    <3>1. raced' = raced \/ \E b \in copies : StoreReopened(b)
      BY <1>2 DEF Next, boardVars, Open, OpenAgain, Flag, HitMine, Cancelled, OpenUntold, HitMineUntold,
            FlagUntold, Requested, Load, Refused, Reopen, LoadClosed, EndRead, Broadcast, Gap, ApplyEvent,
            ApplyReply, ReplyLost, LoadVisible, Serve, Arrive, FetchFails, Subscribe, Disconnect, MoveAway,
            ClosureTimer
    <3>2. (\E b \in copies : StoreReopened(b)) => ~raced
      BY Zenon DEF StoreReopened
    <3>3. QED
      BY <3>1, <3>2 DEF CopyInv
  <2>2. QED
    BY <1>2, <2>1, WorkerCopies, LoadCopies, PageCopies DEF Next
<1>3. QED
  BY <1>1, <1>2

\* A page that believes to be up to date is, whatever overtakes what on the way, for any
\* number of cells, versions, operations, readers and snapshots: exactly five things
\* slip past.
THEOREM UpToDateIsRight == Spec => []CurrentIsRight
<1>1. ViewInv /\ CopyInv => CurrentIsRight
  <2> SUFFICES ASSUME ViewInv, CopyInv, view # None, view.version = board.version, ~slipped, ~raced
               PROVE  view.opened = board.opened /\ flags = board.flagged /\ view.closed = board.closed
    BY DEF CurrentIsRight
  <2>1. /\ Follows(view, flags, board, Changes) /\ Agrees(Changes, board)
        /\ board.version \in Nat /\ Changes \in SUBSET Results
        /\ \A s \in Changes : s.version \in Nat
    BY PendingTypes DEF CopyInv, Tracks, ViewInv, Results, Versions
  <2>2. /\ AllKnown(view.version, board, Changes)
        /\ \A s \in Changes : ~ (s.version > view.version)
    BY <2>1 DEF AllKnown, Agrees
  <2>3. /\ view.closed <=> board.closed
        /\ \A x \in Cells : x \in flags <=> x \in board.flagged
        /\ \A x \in Cells : x \in view.opened <=> x \in board.opened
    BY <2>1, <2>2 DEF Follows
  <2>4. /\ view.opened \subseteq Cells /\ board.opened \subseteq Cells
        /\ flags \subseteq Cells /\ board.flagged \subseteq Cells
        /\ view.closed \in BOOLEAN /\ board.closed \in BOOLEAN
    BY DEF ViewInv, TypeOK, Snapshots, Boards
  <2>5. QED
    BY <2>3, <2>4
<1>2. QED
  BY <1>1, InitCopy, CopyStep, ViewInvariant, PTL DEF Spec

-----------------------------------------------------------------------------
(* Numbers *)

\* A set of naturals that is not empty has a least element.
LEMMA LeastNat ==
    ASSUME NEW T \in SUBSET Nat, T # {}
    PROVE  \E n \in T : \A m \in T : n <= m
<1> DEFINE R == OpToRel(<, Nat)
<1>1. \A m, n \in Nat : m < n => <<m, n>> \in R
  BY DEF OpToRel
<1>2. IsWellFoundedOn(R, Nat)
  BY NatLessThanWellFounded
<1> HIDE DEF R
<1>3. PICK n \in T : \A m \in T : ~ (<<m, n>> \in R)
  BY <1>2, WFMin
<1>4. ASSUME NEW m \in T PROVE n <= m
  <2>1. m \in Nat /\ n \in Nat /\ ~ (m < n)
    BY <1>1, <1>3
  <2>2. QED
    BY <2>1
<1>5. QED
  BY <1>4

\* The smaller and the larger of two numbers.
LEMMA TwoNumbers ==
    ASSUME NEW a \in Int, NEW b \in Int
    PROVE  /\ Min({a, b}) = IF a <= b THEN a ELSE b
           /\ Max({a, b}) = IF a >= b THEN a ELSE b
<1>1. Min({a, b}) \in {a, b} /\ Min({a, b}) <= a /\ Min({a, b}) <= b
  <2>1. \E x \in {a, b} : \A y \in {a, b} : x <= y
    OBVIOUS
  <2>2. QED
    BY <2>1 DEF Min
<1>2. Max({a, b}) \in {a, b} /\ Max({a, b}) >= a /\ Max({a, b}) >= b
  <2>1. \E x \in {a, b} : \A y \in {a, b} : x >= y
    OBVIOUS
  <2>2. QED
    BY <2>1 DEF Max
<1>3. QED
  BY <1>1, <1>2

\* What quotient and remainder are, for a positive divisor.
LEMMA Division ==
    ASSUME NEW a \in Int, NEW b \in Nat, b > 0
    PROVE  /\ a \div b \in Int /\ a % b \in 0 .. b - 1
           /\ a = (a \div b) * b + (a % b)
           /\ (a \div b) * b <= a /\ a < (a \div b + 1) * b
  OBVIOUS

\* No other quotient and remainder will do.
LEMMA DivisionIsUnique ==
    ASSUME NEW b \in Nat, b > 0, NEW q \in Int, NEW r \in 0 .. b - 1
    PROVE  (q * b + r) \div b = q /\ (q * b + r) % b = r
<1> DEFINE a == q * b + r
           p == a \div b
           s == a % b
<1>1. a \in Int /\ p \in Int /\ s \in 0 .. b - 1 /\ a = p * b + s
  BY Division
<1>2. a = q * b + r
  OBVIOUS
<1> HIDE DEF a, p, s
<1>3. ASSUME p < q PROVE FALSE
  <2>1. p * b + b <= q * b
    BY <1>1, <1>3
  <2>2. QED
    BY <1>1, <1>2, <2>1
<1>4. ASSUME q < p PROVE FALSE
  <2>1. q * b + b <= p * b
    BY <1>1, <1>4
  <2>2. QED
    BY <1>1, <1>2, <2>1
<1>5. p = q
  BY <1>1, <1>3, <1>4
<1>6. s = r
  BY <1>1, <1>2, <1>5
<1>7. QED
  BY <1>5, <1>6 DEF p, s, a

\* A product with a positive number keeps the order.
LEMMA ProductOrder ==
    ASSUME NEW a \in Int, NEW b \in Int, NEW w \in Nat, w > 0
    PROVE  /\ a <= b <=> a * w <= b * w
           /\ a < b <=> a * w < b * w
<1>1. a < b => a * w < b * w
  OBVIOUS
<1>2. b < a => b * w < a * w
  OBVIOUS
<1>3. QED
  BY <1>1, <1>2

-----------------------------------------------------------------------------
(* Levels *)

\* f doubles from one, up to n.
Doubles(f, n) == f = [i \in 0 .. n |-> IF i = 0 THEN 1 ELSE 2 * f[i - 1]]

\* The recursion of Shifted has a solution.
LEMMA DoublesExists ==
    ASSUME NEW n \in Nat
    PROVE  \E f : Doubles(f, n)
<1> DEFINE T == {k \in Nat : ~ \E f : Doubles(f, k)}
<1> SUFFICES ASSUME T # {} PROVE FALSE
  OBVIOUS
<1>1. PICK k \in T : \A m \in T : k <= m
  BY LeastNat
<1>2. k # 0
  <2>1. Doubles([i \in 0 .. 0 |-> 1], 0)
    BY DEF Doubles
  <2>2. QED
    BY <2>1
<1>3. k - 1 \in Nat /\ k - 1 \notin T
  BY <1>1, <1>2
<1>4. PICK h : Doubles(h, k - 1)
  BY <1>3
<1> DEFINE Val(g, i) == IF i = 0 THEN 1 ELSE 2 * g[i - 1]
           f == [i \in 0 .. k |-> Val(h, i)]
<1>5. h = [i \in 0 .. k - 1 |-> Val(h, i)]
  BY <1>4 DEF Doubles
<1>6. \A i \in 0 .. k - 1 : h[i] = Val(h, i) /\ f[i] = Val(h, i)
  <2>1. \A i \in 0 .. k - 1 : i \in 0 .. k
    BY <1>3
  <2> HIDE DEF Val
  <2>2. QED
    BY <1>5, <2>1
<1>7. \A i \in 0 .. k : Val(f, i) = Val(h, i)
  <2>1. \A i \in 0 .. k : i # 0 => i - 1 \in 0 .. k - 1
    BY <1>3
  <2>2. \A i \in 0 .. k : i # 0 => f[i - 1] = h[i - 1]
    BY <1>6, <2>1
  <2> HIDE DEF f
  <2>3. QED
    BY <2>2
<1>8. f = [i \in 0 .. k |-> Val(f, i)]
  <2> HIDE DEF Val
  <2>1. QED
    BY <1>7
<1>9. Doubles(f, k)
  <2> HIDE DEF f
  <2>1. QED
    BY <1>8 DEF Doubles
<1>10. QED
  BY <1>9, <1>1

\* Shifted doubles from level to level.
LEMMA ShiftedFacts ==
    /\ Shifted[0] = 1
    /\ \A n \in 1 .. MaxLevel : Shifted[n] = 2 * Shifted[n - 1]
    /\ \A n \in 0 .. MaxLevel : Shifted[n] \in Nat \ {0}
<1>1. MaxLevel \in Nat
  BY LevelAssumption
<1>2. \E f : Doubles(f, MaxLevel)
  BY <1>1, DoublesExists
<1>3. Doubles(Shifted, MaxLevel)
  BY <1>2, Zenon DEF Doubles, Shifted
<1>4. /\ Shifted[0] = 1
      /\ \A n \in 1 .. MaxLevel : Shifted[n] = 2 * Shifted[n - 1]
  <2> HIDE DEF Shifted
  <2>1. QED
    BY <1>1, <1>3 DEF Doubles
<1>5. \A n \in 0 .. MaxLevel : Shifted[n] \in Nat \ {0}
  <2> DEFINE T == {n \in 0 .. MaxLevel : Shifted[n] \notin Nat \ {0}}
  <2> SUFFICES ASSUME T # {} PROVE FALSE
    OBVIOUS
  <2>1. PICK k \in T : \A m \in T : k <= m
    <3>1. T \in SUBSET Nat
      BY <1>1
    <3> HIDE DEF T
    <3>2. QED
      BY <3>1, LeastNat
  <2> HIDE DEF Shifted
  <2>2. k # 0 /\ k - 1 \in 0 .. MaxLevel /\ k \in 1 .. MaxLevel
    BY <1>1, <1>4, <2>1
  <2>3. Shifted[k - 1] \in Nat \ {0}
    BY <1>1, <2>1, <2>2
  <2>4. QED
    BY <1>4, <2>1, <2>2, <2>3
<1>6. QED
  BY <1>4, <1>5

\* The chunks of a level, and the leaves in each, make up the leaves.
LEMMA ScaleFits == \A z \in 0 .. MaxLevel : Shifted[z] * Shifted[MaxLevel - z] = Shifted[MaxLevel]
<1> HIDE DEF Shifted
<1>1. MaxLevel \in Nat
  BY LevelAssumption
<1> DEFINE T == {z \in 0 .. MaxLevel : Shifted[z] * Shifted[MaxLevel - z] # Shifted[MaxLevel]}
<1> SUFFICES ASSUME T # {} PROVE FALSE
  OBVIOUS
<1>2. PICK k \in T : \A m \in T : k <= m
  <2>1. T \in SUBSET Nat
    BY <1>1
  <2> HIDE DEF T
  <2>2. QED
    BY <2>1, LeastNat
<1>3. k # 0
  <2>1. Shifted[0] = 1 /\ Shifted[MaxLevel] \in Nat /\ MaxLevel - 0 = MaxLevel
    BY <1>1, ShiftedFacts
  <2>2. QED
    BY <1>2, <2>1
<1>4. /\ k \in 1 .. MaxLevel /\ k - 1 \in 0 .. MaxLevel /\ MaxLevel - k \in 0 .. MaxLevel
      /\ MaxLevel - (k - 1) \in 1 .. MaxLevel /\ MaxLevel - (k - 1) - 1 = MaxLevel - k
  BY <1>1, <1>2, <1>3
<1>5. Shifted[k - 1] * Shifted[MaxLevel - (k - 1)] = Shifted[MaxLevel]
  BY <1>2, <1>4
<1>6. Shifted[k] = 2 * Shifted[k - 1] /\ Shifted[MaxLevel - (k - 1)] = 2 * Shifted[MaxLevel - k]
  BY <1>4, ShiftedFacts
<1>7. Shifted[k - 1] \in Nat /\ Shifted[MaxLevel - k] \in Nat
  BY <1>4, ShiftedFacts
<1>8. \A a, b \in Nat : (2 * a) * b = a * (2 * b)
  OBVIOUS
<1>9. Shifted[k] * Shifted[MaxLevel - k] = Shifted[MaxLevel]
  BY <1>5, <1>6, <1>7, <1>8
<1>10. QED
  BY <1>2, <1>9

\* The widths of the chunks of a level add up to the unit square, and those of
\* the leaves in a chunk to its width.
LEMMA Widths ==
    ASSUME NEW z \in 0 .. MaxLevel
    PROVE  /\ GridSize(z) \in Nat /\ GridSize(z) > 0
           /\ Scale(z) \in Nat /\ Scale(z) > 0
           /\ Width(MaxLevel) \in Nat /\ Width(MaxLevel) > Epsilon
           /\ Width(z) = Scale(z) * Width(MaxLevel)
           /\ Width(z) \in Nat /\ Width(z) > Epsilon
           /\ Unit = Width(z) * GridSize(z)
<1> HIDE DEF Shifted
<1> DEFINE G == GridSize(z)
           S == Scale(z)
           A == GridSize(MaxLevel)
           w == Width(MaxLevel)
<1>1. /\ MaxLevel \in Nat /\ Unit \in Nat /\ Epsilon \in Nat \ {0}
      /\ Unit % A = 0 /\ Epsilon < w
  BY LevelAssumption
<1>2. G \in Nat /\ G > 0 /\ S \in Nat /\ S > 0 /\ A \in Nat /\ A > 0 /\ G * S = A
  BY <1>1, ShiftedFacts, ScaleFits DEF GridSize, Scale
<1>3. w \in Int /\ Unit = w * A
  <2>1. w = Unit \div A
    BY DEF Width
  <2> HIDE DEF w, A
  <2>2. QED
    BY <1>1, <1>2, <2>1, Division
<1>4. Width(z) = Unit \div G
  BY DEF Width
<1> HIDE DEF G, S, A, w
<1>5. w \in Nat /\ w > 0
  BY <1>1, <1>3
<1>6. Unit = (S * w) * G
  <2>1. \A g, s, v \in Nat : v * (g * s) = (s * v) * g
    OBVIOUS
  <2>2. QED
    BY <1>2, <1>3, <1>5, <2>1
<1>7. S * w \in Nat
  BY <1>2, <1>5
<1>8. Width(z) = S * w
  <2>1. 0 \in 0 .. G - 1 /\ (S * w) * G + 0 = (S * w) * G
    BY <1>2, <1>7
  <2>2. QED
    BY <1>2, <1>4, <1>6, <1>7, <2>1, DivisionIsUnique
<1>9. S * w >= w
  <2>1. \A s, v \in Nat : s > 0 => s * v >= v
    OBVIOUS
  <2>2. QED
    BY <1>2, <1>5, <2>1
<1>10. S * w > Epsilon
  BY <1>1, <1>5, <1>7, <1>9
<1>11. QED
  BY <1>1, <1>2, <1>5, <1>6, <1>7, <1>8, <1>10 DEF G, S, w

-----------------------------------------------------------------------------
(* The chunks of a box *)

\* The floor of n * GridSize is the chunk of n on one axis.
LEMMA Floor ==
    ASSUME NEW z \in 0 .. MaxLevel, NEW n \in Int
    PROVE  LET q == (n * GridSize(z)) \div Unit IN
           q \in Int /\ q * Width(z) <= n /\ n < (q + 1) * Width(z)
<1> DEFINE G == GridSize(z)
           W == Width(z)
           q == (n * G) \div Unit
<1>1. G \in Nat /\ G > 0 /\ W \in Nat /\ W > 0 /\ Unit = W * G
  BY Widths, LevelAssumption
<1> HIDE DEF G, W
<1>2. Unit \in Nat /\ Unit > 0 /\ n * G \in Int
  BY <1>1
<1>3. q \in Int /\ q * Unit <= n * G /\ n * G < (q + 1) * Unit
  BY <1>2, Division
<1> HIDE DEF q
<1>4. \A p \in Int : p * Unit = (p * W) * G
  BY <1>1
<1>5. (q * W) * G <= n * G /\ n * G < ((q + 1) * W) * G
  BY <1>3, <1>4
<1>6. q * W \in Int /\ (q + 1) * W \in Int
  BY <1>1, <1>3
<1>7. q * W <= n /\ n < (q + 1) * W
  BY <1>1, <1>5, <1>6, ProductOrder
<1>8. QED
  BY <1>3, <1>7 DEF q, G, W

\* The columns, or rows, from the first to the last: those that the box overlaps
\* by more than the tolerance are among them, and it overlaps each of them.
LEMMA Axis ==
    ASSUME NEW z \in 0 .. MaxLevel, NEW lo \in Int, NEW hi \in Int, 0 <= lo, lo < hi, hi <= Unit
    PROVE  /\ FirstVisible(lo, z) \in 0 .. GridSize(z) - 1
           /\ LastVisible(hi, z) \in 0 .. GridSize(z) - 1
           /\ FirstVisible(lo, z) <= LastVisible(hi, z) + 1
           /\ \A i \in 0 .. GridSize(z) - 1 :
                LET overlap == Min({hi, (i + 1) * Width(z)}) - Max({lo, i * Width(z)}) IN
                /\ overlap > Epsilon => i \in FirstVisible(lo, z) .. LastVisible(hi, z)
                /\ i \in FirstVisible(lo, z) .. LastVisible(hi, z) => overlap > 0
<1> DEFINE G == GridSize(z)
           W == Width(z)
           p == (lo * G) \div Unit
           q == ((hi - Epsilon) * G) \div Unit
           f == FirstVisible(lo, z)
           l == LastVisible(hi, z)
<1>1. /\ G \in Nat /\ G > 0 /\ W \in Nat /\ W > Epsilon /\ Unit = W * G
      /\ Epsilon \in Nat /\ Epsilon > 0
  BY Widths, LevelAssumption
<1>2. p \in Int /\ p * W <= lo /\ lo < (p + 1) * W
  BY Floor
<1>3. q \in Int /\ q * W <= hi - Epsilon /\ hi - Epsilon < (q + 1) * W
  <2>1. hi - Epsilon \in Int
    BY <1>1
  <2>2. QED
    BY <2>1, Floor
<1>4. f = Clamp(p, z) /\ l = Clamp(q, z)
  BY DEF FirstVisible, LastVisible
<1>5. \A v : Clamp(v, z) = IF v < 0 THEN 0 ELSE IF v >= G THEN G - 1 ELSE v
  BY DEF Clamp
<1> HIDE DEF G, W, p, q, f, l
<1>6. \A a, b \in Int : (a <= b <=> a * W <= b * W) /\ (a < b <=> a * W < b * W)
  BY <1>1, ProductOrder
<1>7. 0 <= p /\ p < G
  <2>1. 0 * W = 0 /\ G * W = Unit /\ p + 1 \in Int /\ p * W \in Int /\ (p + 1) * W \in Int
    BY <1>1, <1>2
  <2>2. 0 * W < (p + 1) * W /\ p * W < G * W
    BY <1>1, <1>2, <2>1
  <2>3. 0 < p + 1 /\ p < G
    BY <1>1, <1>2, <1>6, <2>1, <2>2
  <2>4. QED
    BY <1>2, <2>3
<1>8. q < G /\ p <= q + 1
  <2>1. G * W = Unit /\ q + 1 \in Int /\ q * W \in Int /\ p * W \in Int /\ (q + 1) * W \in Int
        /\ (q + 2) * W = (q + 1) * W + W
    BY <1>1, <1>2, <1>3
  <2>2. q * W < G * W
    BY <1>1, <1>3, <2>1
  <2>3. p * W < (q + 2) * W
    BY <1>1, <1>2, <1>3, <2>1
  <2>4. q < G /\ p < q + 2
    BY <1>1, <1>2, <1>3, <1>6, <2>2, <2>3
  <2>5. QED
    BY <1>2, <1>3, <2>4
<1>9. f = p /\ l = IF q < 0 THEN 0 ELSE q
  BY <1>1, <1>2, <1>3, <1>4, <1>5, <1>7, <1>8
<1>10. ASSUME NEW i \in 0 .. G - 1
       PROVE  LET overlap == Min({hi, (i + 1) * W}) - Max({lo, i * W}) IN
              /\ overlap > Epsilon => i \in f .. l
              /\ i \in f .. l => overlap > 0
  <2> DEFINE a == i * W
             b == (i + 1) * W
  <2>1. a \in Int /\ b \in Int /\ b = a + W /\ i \in Int
    BY <1>1
  <2>2. /\ Min({hi, b}) = IF hi <= b THEN hi ELSE b
        /\ Max({lo, a}) = IF lo >= a THEN lo ELSE a
    BY <2>1, TwoNumbers
  <2>3. /\ p <= i <=> lo < b
        /\ i <= q <=> a <= hi - Epsilon
    <3>1. p <= i => lo < b
      <4>1. p <= i => (p + 1) * W <= b
        BY <1>2, <1>6, <2>1
      <4>2. QED
        BY <1>1, <1>2, <2>1, <4>1
    <3>2. i < p => b <= lo
      <4>1. i < p => b <= p * W
        BY <1>2, <1>6, <2>1
      <4>2. QED
        BY <1>1, <1>2, <2>1, <4>1
    <3>3. i <= q => a <= hi - Epsilon
      <4>1. i <= q => a <= q * W
        BY <1>3, <1>6, <2>1
      <4>2. QED
        BY <1>1, <1>3, <2>1, <4>1
    <3>4. q < i => hi - Epsilon < a
      <4>1. q < i => (q + 1) * W <= a
        BY <1>3, <1>6, <2>1
      <4>2. QED
        BY <1>1, <1>3, <2>1, <4>1
    <3> HIDE DEF a, b
    <3>5. QED
      BY <1>1, <1>2, <1>3, <2>1, <3>1, <3>2, <3>3, <3>4
  <2>4. i = 0 => a = 0
    BY <1>1
  <2> HIDE DEF a, b
  <2>5. Min({hi, b}) - Max({lo, a}) > Epsilon => i \in f .. l
    BY <1>1, <1>2, <1>3, <1>9, <2>1, <2>2, <2>3
  <2>6. i \in f .. l => Min({hi, b}) - Max({lo, a}) > 0
    BY <1>1, <1>2, <1>3, <1>7, <1>9, <2>1, <2>2, <2>3, <2>4
  <2>7. QED
    BY <2>5, <2>6 DEF a, b
<1>11. f \in 0 .. G - 1 /\ l \in 0 .. G - 1 /\ f <= l + 1
  BY <1>1, <1>2, <1>3, <1>7, <1>8, <1>9
<1>12. QED
  BY <1>10, <1>11 DEF f, l, G, W

\* Counting row by row from (x0, y0) reaches (x, y).
Reached(columns, rows, x0, y0, x, y) ==
    \E i \in 1 .. columns * rows :
        /\ x = x0 + ((i - 1) % columns)
        /\ y = y0 + ((i - 1) \div columns)

\* Counting row by row reaches every place of a grid, and no other.
LEMMA RowByRow ==
    ASSUME NEW columns \in Nat, NEW rows \in Nat, NEW x0 \in Int, NEW y0 \in Int,
           NEW x \in Int, NEW y \in Int
    PROVE  Reached(columns, rows, x0, y0, x, y) <=>
                x \in x0 .. x0 + columns - 1 /\ y \in y0 .. y0 + rows - 1
<1>1. ASSUME NEW i \in 1 .. columns * rows,
             x = x0 + ((i - 1) % columns), y = y0 + ((i - 1) \div columns)
      PROVE  x \in x0 .. x0 + columns - 1 /\ y \in y0 .. y0 + rows - 1
  <2> DEFINE q == (i - 1) \div columns
             r == (i - 1) % columns
  <2>1. columns > 0
    <3>1. columns * rows >= 1
      OBVIOUS
    <3>2. \A b \in Nat : 0 * b = 0
      OBVIOUS
    <3>3. QED
      BY <3>1, <3>2
  <2>2. /\ i - 1 \in Int /\ 0 <= i - 1 /\ i - 1 < columns * rows /\ columns * rows = rows * columns
    OBVIOUS
  <2>3. q \in Int /\ r \in 0 .. columns - 1 /\ q * columns <= i - 1 /\ i - 1 < (q + 1) * columns
    BY <2>1, <2>2, Division
  <2>4. x = x0 + r /\ y = y0 + q
    BY <1>1
  <2> HIDE DEF q, r
  <2>5. q < rows /\ 0 < q + 1
    <3>1. q * columns < rows * columns /\ 0 * columns < (q + 1) * columns
      BY <2>2, <2>3
    <3>2. QED
      BY <2>1, <2>3, <3>1, ProductOrder
  <2>6. QED
    BY <2>3, <2>4, <2>5
<1>2. ASSUME x \in x0 .. x0 + columns - 1, y \in y0 .. y0 + rows - 1
      PROVE  \E i \in 1 .. columns * rows :
                /\ x = x0 + ((i - 1) % columns)
                /\ y = y0 + ((i - 1) \div columns)
  <2> DEFINE q == y - y0
             r == x - x0
             i == q * columns + r + 1
  <2>1. q \in 0 .. rows - 1 /\ r \in 0 .. columns - 1 /\ columns > 0
    BY <1>2
  <2>2. x = x0 + r /\ y = y0 + q
    OBVIOUS
  <2> HIDE DEF q, r
  <2>3. i - 1 = q * columns + r
    BY <2>1
  <2>4. (i - 1) % columns = r /\ (i - 1) \div columns = q
    BY <2>1, <2>3, DivisionIsUnique
  <2>5. i \in 1 .. columns * rows
    <3>1. (q + 1) * columns <= rows * columns /\ rows * columns = columns * rows
      BY <2>1
    <3>2. (q + 1) * columns = q * columns + columns /\ q * columns \in Nat
      BY <2>1
    <3>3. QED
      BY <2>1, <3>1, <3>2
  <2> HIDE DEF i
  <2>6. QED
    BY <2>2, <2>4, <2>5
<1>3. QED
  BY <1>1, <1>2 DEF Reached

\* A chunk of a level.
LEMMA ChunkFacts ==
    ASSUME NEW z, NEW c \in Chunks(z)
    PROVE  /\ c.z = z /\ c.x \in 0 .. GridSize(z) - 1 /\ c.y \in 0 .. GridSize(z) - 1
           /\ c = [z |-> z, x |-> c.x, y |-> c.y]
  BY DEF Chunks

\* A listing holds the chunks between the first and the last visible one.
LEMMA ListedChunks ==
    ASSUME NEW z \in 0 .. MaxLevel, NEW b \in Boxes
    PROVE  /\ VisibleChunks(z, b) \in Seq(Chunks(z))
           /\ \A c \in Chunks(z) :
                (\E i \in DOMAIN VisibleChunks(z, b) : VisibleChunks(z, b)[i] = c) <=>
                    /\ c.x \in FirstVisible(b.minX, z) .. LastVisible(b.maxX, z)
                    /\ c.y \in FirstVisible(b.minY, z) .. LastVisible(b.maxY, z)
<1> DEFINE x0 == FirstVisible(b.minX, z)
           y0 == FirstVisible(b.minY, z)
           x1 == LastVisible(b.maxX, z)
           y1 == LastVisible(b.maxY, z)
           columns == x1 - x0 + 1
           rows    == y1 - y0 + 1
           At(i) == [z |-> z, x |-> x0 + ((i - 1) % columns), y |-> y0 + ((i - 1) \div columns)]
           G == GridSize(z)
<1>1. /\ x0 \in 0 .. G - 1 /\ x1 \in 0 .. G - 1 /\ x0 <= x1 + 1
      /\ y0 \in 0 .. G - 1 /\ y1 \in 0 .. G - 1 /\ y0 <= y1 + 1
  <2>1. /\ b.minX \in Int /\ b.maxX \in Int /\ 0 <= b.minX /\ b.minX < b.maxX /\ b.maxX <= Unit
        /\ b.minY \in Int /\ b.maxY \in Int /\ 0 <= b.minY /\ b.minY < b.maxY /\ b.maxY <= Unit
    BY BoxAssumption, LevelAssumption
  <2>2. ASSUME NEW lo \in Int, NEW hi \in Int, 0 <= lo, lo < hi, hi <= Unit
        PROVE  /\ FirstVisible(lo, z) \in 0 .. G - 1 /\ LastVisible(hi, z) \in 0 .. G - 1
               /\ FirstVisible(lo, z) <= LastVisible(hi, z) + 1
    BY <2>2, Axis
  <2>3. QED
    BY <2>1, <2>2
<1>2. VisibleChunks(z, b) = [i \in 1 .. columns * rows |-> At(i)]
  BY DEF VisibleChunks
<1>3. G \in Nat /\ G > 0
  BY Widths
<1> HIDE DEF x0, y0, x1, y1, G
<1>4. columns \in Nat /\ rows \in Nat /\ x0 \in Int /\ y0 \in Int /\ columns * rows \in Nat
      /\ x0 + columns - 1 = x1 /\ y0 + rows - 1 = y1
  BY <1>1, <1>3
<1> HIDE DEF columns, rows
<1>5. ASSUME NEW c \in Chunks(z)
      PROVE  (\E i \in 1 .. columns * rows : At(i) = c) <=> c.x \in x0 .. x1 /\ c.y \in y0 .. y1
  <2>1. c.z = z /\ c.x \in Int /\ c.y \in Int /\ c = [z |-> z, x |-> c.x, y |-> c.y]
    BY <1>3, ChunkFacts DEF G
  <2>2. \A i : At(i) = c <=> /\ c.x = x0 + ((i - 1) % columns)
                             /\ c.y = y0 + ((i - 1) \div columns)
    BY <2>1
  <2> HIDE DEF At
  <2>3. (\E i \in 1 .. columns * rows : At(i) = c) <=> Reached(columns, rows, x0, y0, c.x, c.y)
    BY <2>2, Zenon DEF Reached
  <2>4. QED
    BY <1>4, <2>1, <2>3, RowByRow
<1>6. ASSUME NEW i \in 1 .. columns * rows PROVE At(i) \in Chunks(z)
  <2> DEFINE x == x0 + ((i - 1) % columns)
             y == y0 + ((i - 1) \div columns)
  <2>1. columns > 0
    <3>1. columns * rows >= 1
      BY <1>4
    <3>2. \A k \in Nat : 0 * k = 0
      OBVIOUS
    <3>3. QED
      BY <1>4, <3>1, <3>2
  <2>2. i - 1 \in Int
    BY <1>4
  <2>3. x \in Int /\ y \in Int
    BY <1>4, <2>1, <2>2, Division
  <2>4. x \in x0 .. x0 + columns - 1 /\ y \in y0 .. y0 + rows - 1
    <3>1. Reached(columns, rows, x0, y0, x, y)
      BY DEF Reached
    <3> HIDE DEF x, y
    <3>2. QED
      BY <1>4, <2>3, <3>1, RowByRow
  <2>5. x \in 0 .. G - 1 /\ y \in 0 .. G - 1
    <3> HIDE DEF x, y
    <3>1. QED
      BY <1>1, <1>3, <1>4, <2>3, <2>4
  <2>6. At(i) = [z |-> z, x |-> x, y |-> y]
    OBVIOUS
  <2> HIDE DEF At, x, y
  <2>7. QED
    BY <2>5, <2>6 DEF Chunks, G
<1> HIDE DEF At
<1>7. VisibleChunks(z, b) \in Seq(Chunks(z)) /\ DOMAIN VisibleChunks(z, b) = 1 .. columns * rows
      /\ \A i \in 1 .. columns * rows : VisibleChunks(z, b)[i] = At(i)
  BY <1>2, <1>4, <1>6, IsASeq
<1>8. QED
  BY <1>5, <1>7 DEF x0, x1, y0, y1

-----------------------------------------------------------------------------
(* The leaves of a chunk *)

\* The leaves that countClosedLeaves counts are those in the bounds of the chunk.
LEMMA RangesAgree ==
    ASSUME NEW z \in 0 .. MaxLevel, NEW c \in Chunks(z), NEW l \in Leaves
    PROVE  Within(l, c) <=> /\ l.x \in c.x * Scale(z) .. (c.x + 1) * Scale(z) - 1
                            /\ l.y \in c.y * Scale(z) .. (c.y + 1) * Scale(z) - 1
<1> DEFINE S == Scale(z)
           W == Width(z)
           w == Width(MaxLevel)
<1>1. /\ S \in Nat /\ S > 0 /\ w \in Nat /\ w > 0 /\ W = S * w
  BY Widths, LevelAssumption
<1>2. /\ c.z = z /\ c.x \in Int /\ c.y \in Int
      /\ l.z = MaxLevel /\ l.x \in Int /\ l.y \in Int
  <2>1. MaxLevel \in 0 .. MaxLevel
    BY LevelAssumption
  <2>2. GridSize(z) \in Nat /\ GridSize(MaxLevel) \in Nat
    BY <2>1, Widths
  <2>3. QED
    BY <2>2, ChunkFacts DEF Leaves
<1>3. ASSUME NEW i \in Int, NEW k \in Int
      PROVE  k * W <= i * w /\ (i + 1) * w <= (k + 1) * W <=> i \in k * S .. (k + 1) * S - 1
  <2> HIDE DEF S, w, W
  <2> DEFINE a == k * S
             b == (k + 1) * S
  <2>1. a \in Int /\ b \in Int /\ k * W = a * w /\ (k + 1) * W = b * w
    BY <1>1
  <2> HIDE DEF a, b
  <2>2. (a * w <= i * w <=> a <= i) /\ ((i + 1) * w <= b * w <=> i + 1 <= b)
    BY <1>1, <2>1, ProductOrder
  <2>3. i \in a .. b - 1 <=> a <= i /\ i + 1 <= b
    BY <2>1
  <2>4. QED
    BY <2>1, <2>2, <2>3 DEF a, b
<1>4. Within(l, c) <=> /\ c.x * W <= l.x * w /\ (l.x + 1) * w <= (c.x + 1) * W
                       /\ c.y * W <= l.y * w /\ (l.y + 1) * w <= (c.y + 1) * W
  BY <1>2 DEF Within
<1> HIDE DEF S, w, W
<1>5. QED
  BY <1>2, <1>3, <1>4 DEF S

\* A chunk has as many leaves as totalLeafCountForLevel says.
LEMMA LeavesOfChunk ==
    ASSUME NEW z \in 0 .. MaxLevel, NEW c \in Chunks(z)
    PROVE  LET In == {l \in Leaves : Within(l, c)} IN
           IsFiniteSet(In) /\ Cardinality(In) = TotalLeafCount(z)
<1> DEFINE In == {l \in Leaves : Within(l, c)}
           S == Scale(z)
           G == GridSize(z)
           A == GridSize(MaxLevel)
           X == c.x * S .. (c.x + 1) * S - 1
           Y == c.y * S .. (c.y + 1) * S - 1
<1>1. /\ S \in Nat /\ S > 0 /\ G \in Nat /\ A \in Nat /\ G * S = A
      /\ c.x \in 0 .. G - 1 /\ c.y \in 0 .. G - 1
  <2>1. MaxLevel \in 0 .. MaxLevel
    BY LevelAssumption
  <2>2. S \in Nat /\ S > 0 /\ G \in Nat /\ A \in Nat
    BY <2>1, Widths
  <2>3. G * S = A
    BY ScaleFits DEF GridSize, Scale
  <2>4. QED
    BY <2>2, <2>3, ChunkFacts
<1>2. In = {l \in Leaves : l.x \in X /\ l.y \in Y}
  BY RangesAgree
<1>3. Leaves = {[z |-> MaxLevel, x |-> i, y |-> j] : i, j \in 0 .. A - 1}
  BY DEF Leaves, Chunks
<1> HIDE DEF In, S, G, A
<1>4. ASSUME NEW k \in 0 .. G - 1
      PROVE  /\ k * S .. (k + 1) * S - 1 \subseteq 0 .. A - 1
             /\ k * S \in Int /\ (k + 1) * S - 1 \in Int /\ (k + 1) * S = k * S + S
  <2>1. 0 * S <= k * S /\ (k + 1) * S <= G * S
    BY <1>1, ProductOrder
  <2>2. k * S \in Int /\ (k + 1) * S \in Int /\ (k + 1) * S = k * S + S /\ 0 * S = 0
    BY <1>1
  <2>3. QED
    BY <1>1, <2>1, <2>2
<1>5. /\ IsFiniteSet(X) /\ Cardinality(X) = S /\ X \subseteq 0 .. A - 1
      /\ IsFiniteSet(Y) /\ Cardinality(Y) = S /\ Y \subseteq 0 .. A - 1
  <2>1. ASSUME NEW k \in 0 .. G - 1
        PROVE  LET K == k * S .. (k + 1) * S - 1 IN
               IsFiniteSet(K) /\ Cardinality(K) = S /\ K \subseteq 0 .. A - 1
    <3> DEFINE a == k * S
               b == (k + 1) * S - 1
    <3>1. a \in Int /\ b \in Int /\ a .. b \subseteq 0 .. A - 1 /\ b = a + S - 1
      BY <1>1, <1>4
    <3> HIDE DEF a, b
    <3>2. IsFiniteSet(a .. b) /\ Cardinality(a .. b) = IF a > b THEN 0 ELSE b - a + 1
      BY <3>1, FS_Interval
    <3>3. Cardinality(a .. b) = S
      BY <1>1, <3>1, <3>2
    <3>4. QED
      BY <3>1, <3>2, <3>3 DEF a, b
  <2>2. QED
    BY <1>1, <2>1
<1> HIDE DEF X, Y
<1>6. IsFiniteSet(X \X Y) /\ Cardinality(X \X Y) = S * S
  BY <1>5, FS_Product
<1> DEFINE f == [p \in X \X Y |-> [z |-> MaxLevel, x |-> p[1], y |-> p[2]]]
<1>7. f \in Bijection(X \X Y, In)
  <2>1. ASSUME NEW p \in X \X Y PROVE f[p] \in In
    <3>1. p[1] \in X /\ p[2] \in Y /\ p[1] \in 0 .. A - 1 /\ p[2] \in 0 .. A - 1
      BY <1>5
    <3>2. f[p] = [z |-> MaxLevel, x |-> p[1], y |-> p[2]]
      OBVIOUS
    <3> HIDE DEF f
    <3>3. f[p] \in Leaves /\ f[p].x \in X /\ f[p].y \in Y
      BY <1>3, <3>1, <3>2
    <3>4. QED
      BY <1>2, <3>3
  <2>2. ASSUME NEW p \in X \X Y, NEW q \in X \X Y, f[p] = f[q] PROVE p = q
    <3>1. f[p].x = p[1] /\ f[p].y = p[2] /\ f[q].x = q[1] /\ f[q].y = q[2]
      OBVIOUS
    <3>2. p[1] = q[1] /\ p[2] = q[2]
      BY <2>2, <3>1
    <3>3. QED
      BY <3>2
  <2>3. ASSUME NEW l \in In PROVE \E p \in X \X Y : f[p] = l
    <3>1. l.x \in X /\ l.y \in Y /\ l = [z |-> MaxLevel, x |-> l.x, y |-> l.y]
      BY <1>2, <1>3
    <3>2. <<l.x, l.y>> \in X \X Y
      BY <3>1
    <3>3. f[<<l.x, l.y>>] = l
      BY <3>1, <3>2
    <3>4. QED
      BY <3>2, <3>3
  <2>4. f \in [X \X Y -> In]
    BY <2>1
  <2> HIDE DEF f
  <2>5. f \in Injection(X \X Y, In) /\ f \in Surjection(X \X Y, In)
    BY <2>2, <2>3, <2>4, Zenon DEF Injection, IsInjective, Surjection
  <2>6. QED
    BY <2>5 DEF Bijection
<1> HIDE DEF f
<1>8. IsFiniteSet(In) /\ Cardinality(In) = Cardinality(X \X Y)
  <2>1. ExistsBijection(X \X Y, In)
    BY <1>7 DEF ExistsBijection
  <2>2. QED
    BY <1>6, <2>1, FS_Bijection
<1>9. TotalLeafCount(z) = S * S
  BY DEF TotalLeafCount, S
<1>10. QED
  BY <1>6, <1>8, <1>9 DEF In

\* countClosedLeaves of a set of leaves: it counts those within the chunk, and
\* reaches the total exactly if they are all.
LEMMA CountFacts ==
    ASSUME NEW z \in 0 .. MaxLevel, NEW c \in Chunks(z), NEW S \in SUBSET Leaves
    PROVE  /\ CountClosedLeaves(c, S) = Cardinality({l \in S : Within(l, c)})
           /\ CountClosedLeaves(c, S) \in 0 .. TotalLeafCount(z)
           /\ CountClosedLeaves(c, S) = TotalLeafCount(z) <=>
                \A l \in Leaves : Within(l, c) => l \in S
<1> DEFINE In == {l \in Leaves : Within(l, c)}
           Cl == {l \in S : Within(l, c)}
<1>1. IsFiniteSet(In) /\ Cardinality(In) = TotalLeafCount(z) /\ Cl \subseteq In
  BY LeavesOfChunk
<1>2. CountClosedLeaves(c, S) = Cardinality(Cl)
  <2>1. c.z = z
    BY ChunkFacts
  <2>2. \A l \in S : Within(l, c) <=> /\ l.x \in c.x * Scale(z) .. (c.x + 1) * Scale(z) - 1
                                      /\ l.y \in c.y * Scale(z) .. (c.y + 1) * Scale(z) - 1
    BY RangesAgree
  <2>3. Cl = {l \in S : /\ l.x \in c.x * Scale(c.z) .. (c.x + 1) * Scale(c.z) - 1
                        /\ l.y \in c.y * Scale(c.z) .. (c.y + 1) * Scale(c.z) - 1}
    BY <2>1, <2>2
  <2>4. QED
    BY <2>3 DEF CountClosedLeaves
<1>3. In = Cl <=> \A l \in Leaves : Within(l, c) => l \in S
  OBVIOUS
<1> HIDE DEF In, Cl
<1>4. /\ IsFiniteSet(Cl) /\ Cardinality(Cl) \in Nat /\ Cardinality(In) \in Nat
      /\ Cardinality(Cl) <= Cardinality(In) /\ (Cardinality(Cl) = Cardinality(In) => Cl = In)
  BY <1>1, FS_Subset, FS_CardinalityType
<1>5. QED
  BY <1>1, <1>2, <1>3, <1>4 DEF Cl

\* The state that goes with a count is closed exactly if the count is the total.
LEMMA StateFacts ==
    ASSUME NEW z \in 0 .. MaxLevel, NEW c \in Chunks(z), NEW count \in 0 .. TotalLeafCount(z)
    PROVE  State(c, count) = "closed" <=> count = TotalLeafCount(z)
<1> DEFINE total == TotalLeafCount(z)
<1>1. total \in Nat /\ total > 0
  BY Widths DEF TotalLeafCount
<1>2. State(c, count) = CASE count = total           -> "closed"
                          [] count \in 1 .. total - 1 -> "closing"
                          [] count = 0 /\ c \in Played -> "opening"
                          [] OTHER                    -> "normal"
  BY ChunkFacts DEF State
<1>3. count \in 0 .. total
  OBVIOUS
<1> SUFFICES State(c, count) = "closed" <=> count = total
  OBVIOUS
<1> HIDE DEF total
<1>4. CASE count = total
  BY <1>1, <1>2, <1>3, <1>4
<1>5. CASE count \in 1 .. total - 1
  BY <1>1, <1>2, <1>3, <1>5
<1>6. CASE count = 0
  BY <1>1, <1>2, <1>3, <1>6
<1>7. QED
  BY <1>1, <1>3, <1>4, <1>5, <1>6

\* Only leaves of its own are within a leaf: itself.
LEMMA LeafAlone ==
    ASSUME NEW c \in Leaves
    PROVE  /\ TotalLeafCount(MaxLevel) = 1
           /\ \A l \in Leaves : Within(l, c) <=> l = c
<1>1. MaxLevel \in 0 .. MaxLevel /\ c \in Chunks(MaxLevel)
  BY LevelAssumption DEF Leaves
<1>2. Scale(MaxLevel) = 1
  BY <1>1, ShiftedFacts DEF Scale
<1>3. ASSUME NEW l \in Leaves PROVE Within(l, c) <=> l = c
  <2>1. Within(l, c) <=> /\ l.x \in c.x * 1 .. (c.x + 1) * 1 - 1
                         /\ l.y \in c.y * 1 .. (c.y + 1) * 1 - 1
    BY <1>1, <1>2, RangesAgree
  <2>2. /\ c = [z |-> MaxLevel, x |-> c.x, y |-> c.y] /\ c.x \in Int /\ c.y \in Int
        /\ l = [z |-> MaxLevel, x |-> l.x, y |-> l.y] /\ l.x \in Int /\ l.y \in Int
    <3>1. GridSize(MaxLevel) \in Nat
      BY <1>1, Widths
    <3>2. QED
      BY <1>1, <3>1, ChunkFacts DEF Leaves
  <2>3. Within(l, c) <=> l.x = c.x /\ l.y = c.y
    BY <2>1, <2>2
  <2>4. QED
    BY <2>2, <2>3
<1>4. QED
  BY <1>2, <1>3 DEF TotalLeafCount

-----------------------------------------------------------------------------
(* The call *)

\* The leaves closed now were closed during the call, as were those it found so;
\* it shows chunks of its level, those of the box if it has one; and its answer
\* sums up the leaves that are closed when it ends.
MapInv ==
    /\ phase \in {"idle", "loading", "answered"} /\ level \in 0 .. MaxLevel
    /\ closed \subseteq Leaves /\ always \subseteq closed /\ ever \subseteq Leaves
    /\ IF phase = "idle" THEN found = {}
       ELSE /\ closed \subseteq ever /\ found \subseteq ever
            /\ \A i \in DOMAIN shown : shown[i] \in Chunks(level)
            /\ box # NoBox => box \in Boxes /\ shown = VisibleChunks(level, box)
    /\ answer = IF phase = "answered"
                THEN [c \in {shown[i] : i \in DOMAIN shown} |-> Summary(c, closed)]
                ELSE <<>>

\* A call that starts shows chunks of its level.
LEMMA StartKeeps ==
    ASSUME MapInv, NEW z \in 0 .. MaxLevel, NEW s, Start(z, s), \A i \in DOMAIN s : s[i] \in Chunks(z),
           box' # NoBox => box' \in Boxes /\ s = VisibleChunks(z, box')
    PROVE  MapInv'
<1>1. /\ phase = "idle" /\ phase' = "loading" /\ level' = z /\ shown' = s
      /\ always' = closed /\ ever' = closed /\ closed' = closed /\ found' = found /\ answer' = answer
  BY DEF Start
<1>2. found = {} /\ answer = <<>>
  BY <1>1 DEF MapInv
<1>3. QED
  BY <1>1, <1>2 DEF MapInv

\* The invariant holds before the call.
LEMMA MapStarts == MapInit => MapInv
<1> SUFFICES ASSUME MapInit PROVE MapInv
  OBVIOUS
<1>1. level \in 0 .. MaxLevel /\ closed \subseteq Leaves
  BY LevelAssumption, LeafAssumption DEF MapInit
<1>2. QED
  BY <1>1 DEF MapInit, MapInv

\* Every step of the call, and every leaf that closes or reopens, keeps the invariant.
LEMMA MapSteps == MapInv /\ [MapNext]_mapVars => MapInv'
<1> SUFFICES ASSUME MapInv, [MapNext]_mapVars PROVE MapInv'
  OBVIOUS
<1>1. CASE UNCHANGED mapVars
  <2>1. UNCHANGED <<closed, always, ever, phase, level, box, shown, unread, found, answer>>
    BY <1>1 DEF mapVars, callVars
  <2>2. \A c, S : Summary(c, S)' = Summary(c, S)
    BY <2>1 DEF Summary
  <2>3. QED
    BY <2>1, <2>2 DEF MapInv
<1>2. ASSUME NEW z \in 0 .. MaxLevel, NEW b \in Boxes, StartList(z, b) PROVE MapInv'
  <2>1. Start(z, VisibleChunks(z, b)) /\ box' = b
    BY <1>2 DEF StartList
  <2>2. \A i \in DOMAIN VisibleChunks(z, b) : VisibleChunks(z, b)[i] \in Chunks(z)
    <3> DEFINE s == VisibleChunks(z, b)
    <3>1. s \in Seq(Chunks(z))
      BY ListedChunks
    <3> HIDE DEF s
    <3>2. \A i \in DOMAIN s : s[i] \in Chunks(z)
      BY <3>1, ElementOfSeq, LenProperties
    <3>3. QED
      BY <3>2 DEF s
  <2>3. QED
    BY <2>1, <2>2, StartKeeps
<1>3. ASSUME NEW z \in 0 .. MaxLevel, NEW c \in Chunks(z), StartSummary(c) PROVE MapInv'
  <2>1. Start(z, <<c>>) /\ box' = NoBox
    BY <1>3, ChunkFacts DEF StartSummary
  <2>2. \A i \in DOMAIN <<c>> : <<c>>[i] \in Chunks(z)
    OBVIOUS
  <2>3. QED
    BY <2>1, <2>2, StartKeeps
<1>4. CASE LoadLeaf
  <2>1. /\ phase = "loading"
        /\ found' = IF Head(unread) \in closed THEN found \union {Head(unread)} ELSE found
        /\ UNCHANGED <<closed, always, ever, phase, level, box, shown, answer>>
    BY <1>4 DEF LoadLeaf
  <2>2. QED
    BY <2>1 DEF MapInv
<1>5. CASE Finish
  <2>1. /\ phase = "loading" /\ phase' = "answered"
        /\ answer' = [c \in {shown[i] : i \in DOMAIN shown} |-> Summary(c, closed)]
        /\ UNCHANGED <<closed, always, ever, level, box, shown, found>>
    BY <1>5 DEF Finish
  <2>2. \A c, S : Summary(c, S)' = Summary(c, S)
    BY <2>1 DEF Summary
  <2>3. QED
    BY <2>1, <2>2 DEF MapInv
<1>6. ASSUME NEW l \in Closable, CloseLeaf(l) \/ LiftLeaf(l) PROVE MapInv'
  <2>1. /\ phase # "answered" /\ UNCHANGED <<phase, level, box, shown, unread, found, answer>>
        /\ \/ closed' = closed \union {l} /\ always' = always
              /\ ever' = IF phase = "loading" THEN ever \union {l} ELSE ever
           \/ closed' = closed \ {l} /\ always' = always \ {l} /\ ever' = ever
    BY <1>6 DEF CloseLeaf, LiftLeaf, callVars
  <2>2. l \in Leaves
    BY LeafAssumption
  <2>3. answer' = <<>> /\ level' \in 0 .. MaxLevel
    BY <2>1 DEF MapInv
  <2>4. closed' \subseteq Leaves /\ always' \subseteq closed' /\ ever' \subseteq Leaves
    BY <2>1, <2>2 DEF MapInv
  <2>5. CASE phase = "idle"
    BY <2>1, <2>3, <2>4, <2>5 DEF MapInv
  <2>6. CASE phase # "idle"
    <3>1. closed' \subseteq ever' /\ found' \subseteq ever'
      BY <2>1, <2>6 DEF MapInv
    <3>2. /\ \A i \in DOMAIN shown : shown[i] \in Chunks(level)
          /\ box # NoBox => box \in Boxes /\ shown = VisibleChunks(level, box)
      BY <2>6 DEF MapInv
    <3>3. phase' \in {"idle", "loading", "answered"} /\ phase' # "answered" /\ phase' # "idle"
      BY <2>1, <2>6 DEF MapInv
    <3>4. QED
      BY <2>1, <2>3, <2>4, <3>1, <3>2, <3>3 DEF MapInv
  <2>7. QED
    BY <2>5, <2>6
<1>7. QED
  BY <1>1, <1>2, <1>3, <1>4, <1>5, <1>6 DEF MapNext

\* VisibleExact: a listing holds every chunk that the box overlaps by more than the
\* tolerance and none that it does not overlap, on every level of any number of
\* levels, for any box.
THEOREM TheListIsExact == MapInit /\ [][MapNext]_mapVars => []VisibleExact
<1>1. MapInv => VisibleExact
  <2> SUFFICES ASSUME MapInv, phase # "idle", box # NoBox, NEW c \in Chunks(level)
               PROVE  /\ OverlapX(c) > Epsilon /\ OverlapY(c) > Epsilon => \E i \in DOMAIN shown : shown[i] = c
                      /\ (\E i \in DOMAIN shown : shown[i] = c) => OverlapX(c) > 0 /\ OverlapY(c) > 0
    BY DEF VisibleExact
  <2>1. level \in 0 .. MaxLevel /\ box \in Boxes /\ shown = VisibleChunks(level, box)
    BY DEF MapInv
  <2>2. (\E i \in DOMAIN shown : shown[i] = c) <=>
            /\ c.x \in FirstVisible(box.minX, level) .. LastVisible(box.maxX, level)
            /\ c.y \in FirstVisible(box.minY, level) .. LastVisible(box.maxY, level)
    BY <2>1, ListedChunks
  <2>3. c.z = level /\ c.x \in 0 .. GridSize(level) - 1 /\ c.y \in 0 .. GridSize(level) - 1
    BY ChunkFacts
  <2>4. /\ box.minX \in Int /\ box.maxX \in Int /\ 0 <= box.minX /\ box.minX < box.maxX /\ box.maxX <= Unit
        /\ box.minY \in Int /\ box.maxY \in Int /\ 0 <= box.minY /\ box.minY < box.maxY /\ box.maxY <= Unit
    BY <2>1, BoxAssumption, LevelAssumption
  <2>5. ASSUME NEW lo \in Int, NEW hi \in Int, 0 <= lo, lo < hi, hi <= Unit,
               NEW i \in 0 .. GridSize(level) - 1
        PROVE  LET overlap == Min({hi, (i + 1) * Width(level)}) - Max({lo, i * Width(level)}) IN
               /\ overlap > Epsilon => i \in FirstVisible(lo, level) .. LastVisible(hi, level)
               /\ i \in FirstVisible(lo, level) .. LastVisible(hi, level) => overlap > 0
    BY <2>1, <2>5, Axis
  <2>6. /\ OverlapX(c) > Epsilon => c.x \in FirstVisible(box.minX, level) .. LastVisible(box.maxX, level)
        /\ c.x \in FirstVisible(box.minX, level) .. LastVisible(box.maxX, level) => OverlapX(c) > 0
    BY <2>3, <2>4, <2>5 DEF OverlapX
  <2>7. /\ OverlapY(c) > Epsilon => c.y \in FirstVisible(box.minY, level) .. LastVisible(box.maxY, level)
        /\ c.y \in FirstVisible(box.minY, level) .. LastVisible(box.maxY, level) => OverlapY(c) > 0
    BY <2>3, <2>4, <2>5 DEF OverlapY
  <2>8. QED
    BY <2>2, <2>6, <2>7
<1>2. QED
  BY <1>1, MapStarts, MapSteps, PTL

\* A chunk that is answered has the summary of the leaves that are closed.
LEMMA AnswerFacts ==
    ASSUME MapInv, NEW c \in DOMAIN answer
    PROVE  /\ phase = "answered" /\ level \in 0 .. MaxLevel /\ c \in Chunks(level)
           /\ answer[c] = Summary(c, closed)
<1>1. phase = "answered"
  <2>1. phase # "answered" => answer = <<>>
    BY DEF MapInv
  <2>2. DOMAIN <<>> = {}
    OBVIOUS
  <2>3. QED
    BY <2>1, <2>2
<1>2. answer = [d \in {shown[i] : i \in DOMAIN shown} |-> Summary(d, closed)]
  BY <1>1 DEF MapInv
<1>3. QED
  BY <1>1, <1>2 DEF MapInv

\* CountsExact: the leaf ranges of the aggregates agree with the bounds that the map
\* draws, so a chunk counts the closed leaves in its bounds and is shown closed
\* exactly if all of them are, on every level.
THEOREM TheCountsAreExact == MapInit /\ [][MapNext]_mapVars => []CountsExact
<1>1. MapInv => CountsExact
  <2> SUFFICES ASSUME MapInv, NEW c \in DOMAIN answer
               PROVE  /\ answer[c].count = Cardinality({l \in closed : Within(l, c)})
                      /\ answer[c].state = "closed" <=> \A l \in Leaves : Within(l, c) => l \in closed
    BY DEF CountsExact
  <2> DEFINE count == CountClosedLeaves(c, closed)
             total == TotalLeafCount(level)
  <2>1. level \in 0 .. MaxLevel /\ c \in Chunks(level) /\ answer[c] = Summary(c, closed)
        /\ c.z = level /\ closed \in SUBSET Leaves
    BY AnswerFacts, ChunkFacts DEF MapInv
  <2>2. answer[c].count = count /\ answer[c].state = State(c, count)
    BY <2>1 DEF Summary
  <2>3. /\ count = Cardinality({l \in closed : Within(l, c)})
        /\ count \in 0 .. total
        /\ count = total <=> \A l \in Leaves : Within(l, c) => l \in closed
    BY <2>1, CountFacts
  <2>4. State(c, count) = "closed" <=> count = total
    <3> HIDE DEF count
    <3>1. QED
      BY <2>1, <2>3, StateFacts
  <2>5. QED
    BY <2>2, <2>3, <2>4
<1>2. QED
  BY <1>1, MapStarts, MapSteps, PTL

\* SummaryHonest: leaves may close and reopen while a call reads their states and
\* then the closed set; still no chunk is marked closed whose leaves were not all
\* closed at some time of the call, and no leaf closed all the time is shown open.
THEOREM NoSummaryLies == MapInit /\ [][MapNext]_mapVars => []SummaryHonest
<1>1. MapInv => SummaryHonest
  <2> SUFFICES ASSUME MapInv, NEW c \in DOMAIN answer
               PROVE  /\ answer[c].closed => \A l \in Leaves : Within(l, c) => l \in ever
                      /\ c \in always => answer[c].closed /\ answer[c].state = "closed"
    BY DEF SummaryHonest
  <2> DEFINE count == CountClosedLeaves(c, closed)
  <2>1. /\ level \in 0 .. MaxLevel /\ c \in Chunks(level) /\ answer[c] = Summary(c, closed)
        /\ c.z = level /\ closed \in SUBSET Leaves /\ closed \subseteq ever
        /\ found \subseteq ever /\ ever \subseteq Leaves /\ always \subseteq closed
    BY AnswerFacts, ChunkFacts DEF MapInv
  <2>2. /\ answer[c].state = State(c, count)
        /\ answer[c].closed = (c \in found \/ (c.z = MaxLevel /\ count = 1))
    BY <2>1 DEF Summary
  <2>3. c \in Leaves => TotalLeafCount(MaxLevel) = 1 /\ \A l \in Leaves : Within(l, c) <=> l = c
    BY LeafAlone
  <2>4. count = TotalLeafCount(level) <=> \A l \in Leaves : Within(l, c) => l \in closed
    BY <2>1, CountFacts
  <2>5. c \in Leaves <=> c.z = MaxLevel
    BY <2>1, ChunkFacts DEF Leaves
  <2>6. count = TotalLeafCount(level) => State(c, count) = "closed"
    BY <2>1, CountFacts, StateFacts
  <2> HIDE DEF count
  <2>7. QED
    BY <2>1, <2>2, <2>3, <2>4, <2>5, <2>6
<1>2. QED
  BY <1>1, MapStarts, MapSteps, PTL

=============================================================================
