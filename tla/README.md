# go-lobby: TLA+ models

TLA+ specifications of go-lobby, a Go server for a multiplayer minesweeper map with matchmaking and a
leaderboard; TLC configurations that check them on small instances; and TLAPS proofs of all safety properties that
the passing runs check, for every value of the constants. Line numbers refer to the sources at this commit.

Every `X.tla` is a specification, `MCX.tla` gives it small constants, `MCX*.cfg` are the TLC runs, and
`*Proofs.tla` hold theorems. `PROJECT.json` maps each definition to the lines it translates, and lists the runs,
for every property a mutation of the model that breaks it (the definitions commented `Fault:`), the hazards, the
findings and the theorems.

    tlc -workers 2 -config MCMineMatch.cfg MCMineMatch      # a run
    tlapm ChunkWorkersProofs.tla                            # the proofs of a module

## 1. The system

Two processes: the API server (`cmd/api/main.go`) and the rank worker (`cmd/worker/main.go`). Redis holds live
state, MySQL matches, players and ratings, RabbitMQ carries match results from the first process to the second.

| Component | State it keeps | Operations | What makes it correct |
| --- | --- | --- | --- |
| Chunk workers (`chunk_service.go` 577-688) | `workers` registry, each worker's `ops` channel and `activeSenders` | enqueue, acquire, release, run, handle, retire when idle | operations of a chunk one at a time, in order; none stranded by a retiring worker; every call returns; idle workers go away |
| Chunk board (`chunk_service.go` 111-575, 726-752; `mine_chunk_state_repository.go`) | Redis: a chunk's opened cells, flags, closure, version; the set of closed chunks | open, flag, close on a mine, lazily reopen | the stored board is legal, nothing stored is lost, closures end, the closed set agrees |
| Mine matches (`mine_match_service.go`, `mine_match_repository.go`) | Redis: chunk lock, match state, active match of each user | assign a chunk, authorize, score, finish | one match per chunk; a cell scored once; lock returned; the recorded winner |
| Results and ratings (`match_service.go`, `rank_service.go`, `publisher.go`, `cmd/worker`) | MySQL: match row, `gl_rank_event`, `gl_player_rank`; RabbitMQ queue; Redis leaderboard | submit, publish, deliver, settle, sync, ack or requeue | each result counted exactly once, whatever is repeated; leaderboard agrees with ratings |
| Matchmaking queue (`match_queue_service.go`, `match_queue_repository.go`) | Redis: a queue per mode, a status per user | Join, Cancel, Status | nobody drawn twice; complete groups are drawn; everyone in a match is told |
| Live map hub (`ws/map_hub.go`, `ws/map_client.go`) | two maps between clients and chunks; a bounded `Send` channel per client | subscribe, broadcast, evict, leave; two pumps per connection | the maps agree; evicted clients leave; every subscriber is told or evicted |
| Rooms (`room_service.go`, `room_handler.go`, `ws/room_hub.go`, `ws/client.go`) | in-memory rooms; the hub's client of each user | create, ready, join, leave, broadcast; two pumps per connection | a reconnect replaces the old client; no send on a closed channel; the start is heard; events do not contradict themselves |
| Map page (`static/app.js` 680-760, 1420-1760) | the page's copy of each chunk, its flags, its connection | snapshots, events, own operations, moving the map | nothing is drawn open that never was; a copy at the chunk's version is right |
| Chunk geometry, aggregates (`model/chunk.go`, `chunk_service.go` 195-260, 754-833) | none | levels, bounds, visible ranges, summaries of closed leaves | a box shows the chunks it touches; bounds and counts select the same leaves |
| Mine generator (`model/mine.go`, `mine_state.go`) | none | is there a mine, how many around a cell | counts cross the borders of chunks and of the world |
| Users and auth, other handlers, DTOs, configuration | rows and settings | request/response | |

How they interact:

- An HTTP open or flag goes through the chunk's worker. Inside the worker it is authorized by the match service,
  loads the chunk from Redis, works on the copy, stores the whole copy, and then tells the match service, which may
  score or finish a match, write its MySQL row and publish its result. Afterwards, outside the worker, the HTTP
  handler broadcasts to the map hub.
- The read endpoints load the same chunk state outside the worker, and when its closure has expired they store the
  reopened copy.
- `Join` draws a group, creates the match row, asks the match service for a chunk and creates a room.
- `POST /match/result`, at any time, and the end of a mine match both call `SetMatchResult`, so a match may be
  submitted more than once, with different winners, and its row overwritten after its end.

The hard behaviours: a worker that retires while it is being acquired; reads that write (lazy reopening) beside the
worker; series of separate Redis, MySQL and RabbitMQ calls on the context of one HTTP request, which ends when the
client disconnects; redelivery of events; closing a Go channel that another goroutine still sends to.
`PROJECT.json` lists them under `hazards`, each at its line with the properties about it.

## 2. The modules and their order

| Module | Models | Uses |
| --- | --- | --- |
| `ChunkSerial` | abstract: a chunk executes accepted operations one at a time, FIFO, and answers them all | |
| `ChunkWorkers` | the goroutines and channels that implement it | implements `ChunkSerial` (`INSTANCE ... WITH`) |
| `MineChunk` | stored chunk state, worker operations and racing readers | takes `ChunkSerial`'s promise as given |
| `MineMatch` | assignment, authorization, scoring, end of a match; racing readers of its chunk, posted results | takes `ChunkSerial`'s promise as given |
| `RankSettlement` | `SetMatchResult` to rating and leaderboard | |
| `MatchQueue` | Join, Cancel, the match row, the room, restarts | chunk assignment abstracted to success or failure |
| `MapHub` | hub and the two pumps of every client of the live map | |
| `Rooms` | a room, the Ready handler, the room hub, its clients' pumps | |
| `MapView` | one page's copy of a chunk beside the chunk, its worker and readers, the broadcasts and the snapshots | takes `ChunkSerial`'s promise as given, and the hub as a lossy channel |
| `FloodFill` | the breadth-first loop that opens the cells around a zero | proved to compute the set that `MineChunk` takes |
| `WinnerLoop` | the loop over a Go map that finds the winning team | |
| `ChunkMap` | visible ranges, leaf ranges and summaries of the map while leaves close and reopen | |
| `MCAlgorithms` | runs `FloodFill`, `WinnerLoop` and `ChunkMap`, which share nothing, side by side | |
| `ChunkWorkersProofs`, `MineMatchProofs`, `MatchQueueProofs`, `MapHubProofs`, `RoomsProofs` | theorems about the module of that name, for all constants | extend it |
| `MineChunkProofs` | theorems about `MineChunk` and `FloodFill`, and that the one takes what the other computes | extends both |
| `ResultProofs` | theorems about `WinnerLoop` and `RankSettlement` | extends both |
| `MapProofs` | theorems about `MapView` and `ChunkMap` | extends both |

The modules were written in this order, the workers first because every other component relies on operations of a
chunk being executed one at a time.

## 3. What each module models

**ChunkWorkers.** A *request* is a slot for a handler goroutine in `enqueueChunkOperation`, a *worker* a
`chunkWorker` object with its goroutine. The registry mutex makes acquire, release and `removeIdleChunkWorker` one
step each; a channel send, a receive, a timer and a cancelled context are steps of their own. A caller may leave in
either `select` (`GiveUp`), its operation staying in the queue; the worker then refuses it, or serves it if the
context ended too late. Names of requests and workers are reused once nothing refers to them, so behaviours are
unbounded though the sets are finite. `IdleTimeout` may fire whenever the worker is in its `select`, even with
operations queued: Go chooses among ready cases at random.

**MineChunk.** Worker operations load, maybe reopen, and store; readers (`GetChunkSummary`, `GetChunkSnapshot`,
`ListChunks`) load and maybe store a reopened copy whatever was stored in between. `ListChunks` reads its clock once,
before loading any chunk. A save may fail with or without effect. The board is a set of cells with mines, zero cells
and in-chunk neighbours; the flood is the least set closed under the code's rule. The clock is read in the same step
as the store that uses it: between the two a worker touches only its own copy. The order in which `ListChunks` visits
chunks is left open. A reader's copy is *stale* when it no longer is what is stored.

**MineMatch.** Every Redis, MySQL and RabbitMQ call of `AssignChunkForMatch`, `AuthorizeChunkOperation`,
`ApplyOpenResult` and `finishMatch` is a step; with `Faults` any of them may fail or the process may stop there, with
`LostReplies` a write may also take effect and be reported as failed. A chunk is who opened which cell, and whether it
is closed; flags and the clock are left out. A *reader* (`LoadClosed`, `StoreReopened`) holds the closed chunk it has
loaded, and may at any later time store it whole, reopened, over what the worker has stored since, or give up. The
worker's own load and store are one step: a reader's save between the two is lost under the worker's, which is the
same as a save that failed, and if the worker stores nothing, the same as a save after it. `POST /match/result`
(`PostRow`, `PostEvent`) writes the row and publishes, with any winner, from the time Join has made the match, also
after its end. Assignments of several matches may overlap, as in several API processes; `SETNX` is what guards the
chunk, not the mutex of one process. `settled` is the winner of the first published event of a match, the one that
`RankSettlement` shows to count.

**RankSettlement.** `SetMatchResult` writes the row and then publishes; workers take events, insert the unique
`gl_rank_event` row in a transaction, update the ratings, commit, copy the ratings to the leaderboard user by user,
and acknowledge. An error at any point requeues. The transaction is modelled by its isolation: what it writes
appears at the commit, and an insert of a key that another open transaction holds waits.

**MatchQueue.** Join and Cancel hold one mutex, so one call runs at a time, but each of their Redis and MySQL calls is
a step after which the call may fail; `restoreMatchedUsers` runs on failure as in the code, and may fail itself.
A restart loses the in-memory rooms and leaves Redis as it is.

**MapHub.** Hub methods run under the hub's mutex and are one step each; `SendJSON` runs without it and may block on a
full channel, or panic on a closed one. `BroadcastPanics` is a broadcast that meets a closed channel: the subscribers
it has not served yet get nothing (`missed`).

**Rooms.** One room, its players and their connections. A Ready call marks its player, reads the room and encodes what
it read in three steps (`room_handler.go` 58-86); the status it read is a copy and the players are the live ones, so
an event may show flags of a later moment than its status. `JoinRoom` replaces the client of a user who connects
again, and `LeaveRoom` removes a client only if it is still the registered one; a broadcast evicts and closes clients
whose channel is full. The pumps are
those of `MapHub`, reading chat messages, which the hub broadcasts, and other messages, which `SendJSON` answers.

**MapView.** A chunk's worker loads the board and stores it, changed, with the next version, in two steps; readers load
a closed board and may store it reopened at any later time, whatever was stored since, so that opened cells close,
flags change, and versions go back and are used again. Events leave the handlers later than the results are stored,
in any order, or not at all when the last step of an operation fails: an open, a flag or a mine hit may be stored
without an event (`OpenUntold`, `FlagUntold`, `HitMineUntold`). The page's connection loses what is on its way when it
breaks. The page fetches snapshots, which arrive in any order and replace its copy; it applies an event unless its
version skips one, and the answer to its own operation without that check, even when its event came first. The answer
may be lost, and then the event alone remains. `slipped` records the four things on the page's side that leave a copy
wrong under a current version; `raced`, that a reader has stored an old board, is the fifth.

**FloodFill.** The queue, the visited set and the count of mines around a cell of `openZeroArea`, on a chunk whose
border cells count mines of the neighbouring chunks. `FloodExact` compares what the loop has opened when its queue is
empty with a least closed set of cells; `TheAreaIsFlooded` proves that this is the `ZeroArea` that `MineChunk` takes in
one step, for any chunk state that describes the same board.

**WinnerLoop.** The loop of `scoreWinnerTeam` with the teams taken in any order, as Go does; `WinnerExact` compares
the winner with its definition by comparison of all teams.

**ChunkMap.** `VisibleChunkRange`, `countClosedLeaves` and the summaries of `ListChunks` and `GetChunkSummary`. A call
loads the leaves one by one and then the closed set, while leaves are closed and reopened between any two of these
steps. Coordinates are whole units, so the tolerance of the code is a number of units less than a leaf is wide.

### History variables

Some properties can only be promised until something goes wrong, and saying so needs memory that the program does not
have: `failed` (`MatchQueue`: a call failed or the process restarted), `trouble` (`MineMatch`: nothing, a failure, or
a lost reply so far), `smooth` (`RankSettlement`: no settlement failed and no two overlapped), `raced` (`MineChunk`,
`MineMatch` and `MapView`: that, or how often, a reader has stored an old copy over a newer state of a chunk),
`posted` (`MineMatch`: how many results were posted for a match), `slipped` and `wasOpen` (`MapView`: what went wrong
since the last snapshot, and the cells that were open once), and `newest` and `heard` (`Rooms`: who
connected last, who was told of the start). No guard reads them, except that `MaxPosts` and
`MaxRaces` bound the two that count; they only qualify properties, so each run can check the conditional properties
together with those that hold through any failure.

## 4. The runs

Passing runs:

| Run | Instance | States | Shows |
| --- | --- | --- | --- |
| `workers` | 3 callers, 1 chunk, 2 workers, queue of 1 | 70,388 | serialization, no stranded operation, no blocked reply; every call returns; workers retire; `ChunkSerial` is implemented, fairness included |
| `chunk` | row of zero, number, mine; a second chunk that is only listed; 2 players, 1 reader, clock to 3 | 162,768 | legal boards, protected first open, nothing lost in a chunk before a reader has stored a stale copy of it, closures lift |
| `match` | 1 chunk with 2 safe cells and a mine, failures and lost replies; 2 matches of 4 players, or 1 match, 2 strangers and a reader or a posted result | 2,989,891 | exclusive chunk; lock returned; without failures no reader takes back what a score counts, and with them scores are not inflated until an old copy was stored over newer cells; cells of at most one user uncounted; a finished match has a published result and, unless one was posted, the winner of its row |
| `rank` | 2 matches sharing a player, submitted twice and once, 2 workers, failures | 107,797 | settled once and for good, nothing lost, all settled in the end, leaderboard follows while nothing overlaps or fails |
| `map_hub` | 2 clients, 2 chunks, channels of 2 | 28,777 | index consistent, no ghosts, evicted clients leave |
| `queue` | 4 users; a duel of 2 with a chunk, a game of 3 without, an unknown mode; 2 matches; failures, restarts | 2,814,949 | nobody drawn twice, told of another's match, or dropped from a match; groups form, and all of a group are told |
| `rooms` | 2 players, one of them with two connections, channels of 2 | 151,643 | no send on a closed channel, the newest connection is reached, events do not contradict themselves, the start is heard, pumps end |
| `map_view` | 2 cells, 4 versions, 2 results not broadcast yet, 1 event and 2 snapshots on their way; or a closed board in a reader, 5 versions, 1 result, 1 event, 1 snapshot | 5,117,369 | nothing drawn open that never was; a copy at the chunk's version is right, but for the named gaps |
| `algorithms` | every small board, every small score table, every box on one axis | 619,014 | the loops of the code compute what their definitions say, and a summary is honest about the time of its call |

Runs that show the code differing from what its README or tests say (findings in `PROJECT.json`):

| Run | Property violated | What happens |
| --- | --- | --- |
| `chunk_progress` | `ProgressKept` | a reader loads a closed chunk, the worker reopens it and opens a second cell, and the reader's save of its old copy closes that cell again and sets the version back |
| `rank_leaderboard` | `LeaderboardCurrent` | a failure after the commit: the retry is a duplicate and the leaderboard is never written |
| `map_hub_told` | `EveryoneTold` | an evicted client resubscribes; the next broadcast panics on its closed channel and skips the rest |

Other limits of the code are stated as conditions of passing properties:

- an open authorized before the lock lands in the match's chunk after the second clean check, so that a stranger may
  hold cells there: `OneUncounted` says that it is never more than one such user;
- a failure in the middle of `finishMatch` leaves the chunk's lock for good (`LockNotLeaked` speaks of runs without
  failures), and a match that goes on after its event was published may end with the other winner, whose event the
  rank worker drops (the last part of `ResultRecorded`);
- a POST of a result overwrites the row of a match also after its end, and its event is the one that counts if it
  comes first (`ResultRecorded` compares the match with its row unless a result was posted);
- in a match that goes on after its end has failed, a reader's old copy may close cells that were scored, and they are
  opened and scored again (`ScoreEarned` ends there; without failures it never does, because a chunk is closed by the
  very operation that ends the match);
- after a reader has stored an old board, a page draws cells open that are closed again, and a version it shows may
  be another board's (`OpenedTrue`, `CurrentIsRight`);
- a lost reply of `SetActiveMatchForUsers` can put two matches in a chunk (`ChunkExclusive`);
- settlements of two workers that overlap can leave an old rating on the leaderboard (`LeaderboardFollows`);
- a Join that fails after telling the first player leaves that player matched for good, without a room (`GroupTold`
  speaks of the time before the first failure or restart);
- a replaced or unsubscribed client whose pump waits in `SendJSON` is not evicted and keeps its goroutine
  (`PumpsEnd`, `EvictedLeave`).

### Bounds, and why they are enough

- `workers`: two workers are what it takes for one to retire while its successor starts, and a queue of one with three
  callers has one operation in hand, one queued and one caller blocked in the send. Chunks do not interact except
  through the registry's map; the proofs cover every number of everything.
- `chunk`: `MaxVersion` bounds the version an operation starts from; on the played chunk an open that is lost needs a
  closure, an expiry and an open after it. The unplayed chunk makes listings visit two chunks. No operation starts
  after `MaxTime - Closure`, so that every closure can expire on the bounded clock; this bounds the behaviours, not
  the outcome of any operation.
- `match`: one chunk maximises contention; two safe cells are the least for a score after which the match goes on.
  Symmetry: the two safe cells are interchangeable, and so are the two pairs together with their matches; no property
  of this run distinguishes them, and the run has no liveness property.
  `OneThing` keeps the other match, the reader and the POST out of each other's behaviours: no match is given a chunk
  that a reader holds or has stored, as it is not clean, and a POST touches the row and the event only. One reader,
  whose copy is stored over newer cells once (`MaxRaces`; copies that change nothing are not counted), or one POST for
  each match (`MaxPosts`), before, during or after its end, in a match whose failures let it go on after its chunk was
  closed. The proofs cover any number of each, all together.
- `rank`: two submissions with different winners and two workers let a duplicate be settled concurrently with the
  first; a shared player makes the ratings of two matches interact.
- `queue`: four users fill one duel with users left over, or a game of three with one left; two matches let a user
  meet an old match. When all matches are made the instance stops: no deadlock check.
- `map_hub`: a channel of two can be half full; two clients are an evicted one and a bystander. Connections are used
  once, so the instance stops.
- `rank` stops when every submission is settled.
- `rooms`: a reconnect needs two connections of one user; the other player then has none in the instance, and its Ready
  call still broadcasts. A channel of two can be half full. Connections are used once, so the instance stops.
- `map_view`: two cells tell a lost cell from a lost flag; four versions leave room for a gap of two after a change
  seen; of two snapshots the older may arrive last. With a reader, an open, a closure, its reopening and one more open
  make five versions, the least for which the reader's board is old enough to close a cell; `FewMessages` pays for
  it. Without their condition on `raced` both properties fail in this instance, so it does reach what the condition
  is about. Cells are interchangeable, and the run has no liveness property.
- `algorithms`: chunks of 3 by 3 in a world of 2 by 2 put every border next to a cell; the corner chunk has an edge of
  the world and neighbours; two mines, or one with a flagged or opened cell, stop a flood in every way the code has.
  Three teams, one of two users, with scores 0 to 2 and times 1 to 2, contain every tie. Two levels below the root are
  what it takes for a leaf range to differ from the chunk's own and from the whole; one axis of a box is enumerated
  exhaustively, as the code treats the two axes alike. The four leaves of one parent may close it as a whole.

### Fairness, and why the code justifies it

- `workers`: the Go scheduler runs every goroutine (weak fairness per caller and worker). Senders blocked on a channel
  are admitted in order, hence strong fairness of `Send`; the idle timer is reset before every `select`, and between
  a fired timer and a waiting operation Go picks at random, hence strong fairness of `Take`. Weak fairness of a worker
  assumes that Redis answers or the call's context ends.
- `chunk`: goroutines run, the clock advances, and players go on looking at the map, which is what lazy reopening
  relies on; a reader's save does not fail for ever.
- `rank`: a worker runs, and the insert, the commit and the acknowledgement do not fail for ever. A failing worker
  requeues, so weak fairness would allow an endless take and requeue.
- `map_hub`: the pumps run, and a read of a closed connection fails. Peers and broadcasts owe nothing.
- `rooms`: handlers and pumps run, and a read of a closed connection and the next ping on it fail. Players and peers
  owe nothing.
- No fairness is assumed of users, clients, failures or restarts.

## 5. What is proved

Each theorem holds for every value of the constants that satisfies the assumptions of the module; TLC evaluates the
assumptions in every run. They say

- that null values are no members, that each connection has a user, each request a chunk, each team of a mine match one
  user (two in all), that a POST may name any team, and what the types of the data constants are;
- that capacities are positive, boxes are not empty and lie in the map, boards lie in the world, and the tolerance of
  `VisibleChunkRange` is positive and less than a leaf is wide, as in the program (`ChunkMap`);
- that a user has a time exactly if the user has scored (`WinnerLoop`), as `ApplyOpenResult` sets both;
- that what is counted or summed is finite: callers (`ChunkWorkers`), cells (`MineMatch`), matches (`RankSettlement`)
  and the users of a team (`WinnerLoop`).

Nothing else is bounded, except where a module has a bound of its own (`MaxTime`, `MaxMatches`, `MaxVersion`,
`MaxSubmits`, `MaxPosts`, `MaxRaces`, `MaxReads`, `MaxLevel`), which the proofs take as any number.

| Module | Theorem | Statement |
| --- | --- | --- |
| `ChunkWorkersProofs` | `InductiveInvariant`, `TypeCorrect` | `Spec => []IndInv`, `[]TypeOK` |
| | `Serialization`, `NothingStranded`, `ReplyRoom` | `[]Serialized`, `[]NoStrandedOperation`, `[]ReplyNeverBlocks` |
| | `SendersExact` | `[]SendersCounted` |
| | `WorkersAreSerial` | `Spec => Serial!Spec`: the goroutines implement `ChunkSerial` |
| `MineChunkProofs` | `ChunkInvariant`, `ChunkTypes` | `[]ChunkInv`, `[]TypeOK` |
| | `BoardsAreSound`, `FirstOpensAreProtected` | `[]BoardSound`, `[]ClosedByExperienced` |
| | `OnlyStaleReadersLose` | `LossNeedsStaleReader`, an action property |
| | `TheFloodIsExact` | `[]FloodExact`: the loop of `FloodFill` opens the least set, on every board |
| | `TheAreaIsFlooded` | what the loop has opened is the `ZeroArea` of `MineChunk` |
| `MineMatchProofs` | `MatchInvariant`, `MatchTypes` | `[]MatchInv`, `[]TypeOK` |
| | `OneMatchPerChunk`, `ScoresAreEarned` | `[]ChunkExclusive`, `[]ScoreEarned` |
| | `WinnersAreRecorded`, `LocksAreReturned` | `[]ResultRecorded`, `[]LockNotLeaked` |
| | `CreditInvariant`, `OneUserUncounted` | `[]CreditInv`, `[]OneUncounted` |
| `ResultProofs` | `RankInvariant`, `RankTypes` | `[]RankInv`, `[]TypeOK` |
| | `PublishedIsKept`, `SettledForGood` | `[]NoResultLost`, `SettlementFinal` |
| | `RatingsMoveOnce` | `[][RatingStep]_vars`: ratings move only with a settlement, by its result |
| | `EveryMatchCountsOnce` | `[]SettledOnce`: a rating is the sum of the settled matches of its player |
| | `LeaderboardIsCurrent` | `[]LeaderboardFollows` |
| | `TheWinnerIsExact` | `[]WinnerExact`: the loop of `WinnerLoop`, for all teams, scores and orders |
| `MatchQueueProofs` | `QueueInvariant`, `WaitInvariant`, `SmoothInvariant` | `[]QueueInv`, `[]WaitInv`, `[]SmoothInv` |
| | `TypeCorrect` | `[]TypeOK` |
| | `SentToOwnMatch`, `MatchesLast` | `[]MatchIsMine`, `MatchedForGood` |
| | `WhoIsQueuedWaits` | `[]QueuedWait` |
| | `GroupsAreDrawn`, `EveryPlayerTold` | `[]NoGroupWaits`, `[]GroupTold` |
| `MapHubProofs` | `HubInvariant`, `HubTypes` | `[]HubInv`, `[]TypeOK` |
| | `MapsAgree`, `NobodyLeftBehind` | `[]IndexAgrees`, `[]NoGhosts` |
| `RoomsProofs` | `RoomInvariant`, `RoomTypes` | `[]RoomInv`, `[]TypeOK` |
| | `NoSendOnClosed`, `NewestReached`, `NoContradiction` | `[]HubOpen`, `[]NewestInRoom`, `[]EventsTrue` |
| `MapProofs` | `ViewInvariant`, `ViewTypes` | `[]ViewInv`, `[]TypeOK` |
| | `DrawnCellsAreOpen`, `UpToDateIsRight` | `[]OpenedTrue`, `[]CurrentIsRight` |
| | `TheListIsExact`, `TheCountsAreExact` | `[]VisibleExact`, `[]CountsExact`: for every depth of levels and every box |
| | `NoSummaryLies` | `[]SummaryHonest` |

The type invariants of these modules are theorems and are not checked by runs as well.

The arguments. Few of the properties are inductive; each proof module states first what has to be added.

- `ChunkWorkers`. That a caller's operation is not stranded rests on `removeIdleChunkWorker` deleting a worker only if
  nobody holds it and its channel is empty; that is enough because a caller holds the worker, counted in
  `activeSenders`, from before it sends until after it has its answer or gives up. So `IndInv` states together:
  registered workers are exactly the live ones (`RegistryInv`); callers between acquire and release hold a live worker
  of their chunk (`HolderInv`); an operation is in one worker's hands, once, unanswered (`OperationInv`); a waiting
  caller is answered or its operation is with the worker it holds (`WaiterInv`); and the sender count is exact
  (`SendersCounted`), which needs cardinality facts about finite sets. Serialization follows from the uniqueness of
  the live worker of a chunk, not from any lock held while an operation runs. The refinement maps the queue of a chunk
  to the channel of its registered worker, or to nothing; acquiring and retiring are stutters because a new worker and
  a retiring one have empty channels, every other step of a worker is a step of `ChunkSerial` or a stutter, and that an
  operation is accepted only once is `OperationInv` again.
- `MineChunk`. What is stored *and every copy of it*, in a worker or a reader, is a legal state, and what a step does
  to a legal state is legal (`Sound`); a stale save therefore loses progress but cannot store an illegal board. For
  loss, `Workers` says that until a reader has stored a stale copy, the copy a worker works on is what is stored, or
  its expired closure has been lifted by a reader in between, in which case the worker stores the same state again.
- `FloodFill`. `FloodInv` is the loop invariant: what is opened is what may be opened of the cells visited, the cells
  around a clear one are visited or queued, and every closed set that holds the start holds what is opened or queued.
  With an empty queue this is the least closed set. The count of mines of the code, a sum over the eight neighbours,
  is zero exactly if none is a mine (`ClearIsZero`).
- `MineMatch`. `LockInv` is the heart: as long as no failed write took effect, an assignment from `recheck` on and an
  ongoing assigned match hold the lock of their chunk, keys of users point to assigned matches only, and an unlock at
  its last step still owns the lock it deletes, although it reads and deletes in two calls. `ScoreInv` bounds, with
  the scores, the cells an operation has opened and not yet counted, in chunks no old copy was stored over;
  `ResultInv` orders the row, the event and the finished state of a match without posted results; `LeakInv` names the
  owner of each lock. `WorkerInv` and `AssignInv` tie the workers' copies to the stored matches: two workers never
  have the same match, as it names one chunk. `CreditInv` is what holds without failures, and has four parts.
  `DirtyInv`: a closed chunk, and every copy of one, has opened cells, so that a match is never given a chunk that a
  reader still holds. `KeepInv`: while a match has its chunk, the chunk is closed, or a reader holds it, only when the
  operation that hit the mine is already ending the match, so that the copy has all of the chunk's cells and no old
  copy is stored over it. `EarnedInv`: hence the scores of every match are earned in its chunk and in every copy that
  may still be stored over it, also after the match. `CountInv` is about the stranger: when the second check finds the
  chunk clean, only the one operation that was authorized before the lock can still land unseen, for the worker takes
  one at a time and whoever is authorized later meets the lock. So once a match has its chunk, at most one user has
  cells that no score counts, and none has while that operation is still under way.
- `RankSettlement`. An open transaction is the only one of its match and the match is unsettled (`KeyHeld`, from the
  unique key and its lock), so a commit settles once. `SettledOnce` compares a rating with a sum over the matches
  settled; the sum lemmas say that such a sum exists and is determined, and what adding one match does to it, by
  taking a smallest set for which they would fail. `BoardInv` says who will still write a leaderboard entry that
  differs from the rating, and that what a worker is about to write is what the rating is, as long as one worker at a
  time settles and nothing fails.
- `WinnerLoop`. `BestInv`: of the teams seen so far the loop keeps the one that beats all others. It is kept because
  the order by score, time and team number is total and transitive, and the first team seen always replaces the
  initial one because a score is positive exactly if its time is.
- `MatchQueue`. The group and the users still to be updated are of the match being made, whatever the queues hold
  (`QueueInv`). `WaitInv` says what the queues hold at each step of a call: users who wait for that mode, nobody twice,
  nobody of the group that was drawn, or, while a group is put back, nobody still to be put back. `SmoothInv` is what
  holds until a call fails: who waits is queued or in the hands of the call, no queue is longer than its group, and the
  loops have told those they are done with.
- `MapHub`, `Rooms`. Removal, replacement and broadcast change the maps together, and a lemma for each of these says
  so; `Rooms` adds that an unused connection is not closed and that nobody's readiness is taken back.
- `MapView`. Whatever is on its way to the page, as event, answer or snapshot, and whatever worker and readers have
  loaded, speaks only of cells that were open once; the proof fails exactly if cancelled opens are broadcast.
  `LoadedInv` adds that until a reader has stored an old board, all that was open once is open, and the worker's board
  is the chunk's, or a reader has reopened it meanwhile and the worker will store the same. That a copy at the chunk's
  version is right is not inductive, for a copy becomes current by applying events. `CopyInv` says, again until an old
  board is stored, of every copy, also one that is behind: if all the changes it misses are on their way, it agrees
  with the chunk in everything that those changes do not touch. `slipped` is set exactly where this may stop to hold.
- `ChunkMap`. `MapInv` ties the answer to what was closed during the call. That the divisions and clamps of
  `VisibleChunkRange` give the chunks the box touches is arithmetic on one axis (`Floor`, `Axis`), then row by row;
  that a chunk has as many leaves as `totalLeafCountForLevel` says is a bijection with a square of coordinates
  (`LeavesOfChunk`). Facts about all levels (`1 << n` doubles, widths divide) are proved at a least level for which
  they would fail.

Only model-checked: liveness under fairness (`CallsReturn`, `WorkersRetire`, `ClosuresLift`, `ResultsSettle`,
`EvictedLeave`, `StartHeard`, `PumpsEnd`) and the fairness part of the refinement (`ImplementsSerial` is `Serial!Spec`
together with the fairness of the abstract chunk), which are outside what TLAPS proves. Every other property of the
passing runs is stated by a theorem. Induction over sets, levels and sequences is done by a least counterexample, as
the library's induction theorems take an operator as a parameter. No module uses a `RECURSIVE` operator.

## 6. Not modelled, and why

- The branch of `reopenExpiredChunk` for a closed state without `closed_until`: no code path writes such a state.
- Seasons: every operation reads the active season anew; nothing in the repository starts or ends one, and the models
  fix one.
- The broker losing events, and publisher confirms: the code uses none and relies on the broker.
- Several API processes share Redis but have a worker registry each; `ChunkWorkers` and `MineChunk` model one
  process, as deployed. `MineMatch` lets assignments of several processes race.
- Contents of responses and events, parameter parsing, JSON, JWT, bcrypt and configuration: formatting and libraries.
- The hash of the mine generator: mines are a constant, or any few cells, so any layout is covered by a choice of it.
- Rounding of floating-point coordinates: `ChunkMap` computes with whole units.
- Parsing of chunk names, and the drawing, zooming and animation of the page.
- User registration and login, and read-only queries (match info, leaderboard, queue status): a lookup each.
