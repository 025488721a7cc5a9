---------------------------- MODULE ChunkWorkers ----------------------------
(***************************************************************************)
(* The per-chunk workers of ChunkService (internal/service/                *)
(* chunk_service.go): every open or flag request for a chunk is sent to    *)
(* one goroutine that owns the chunk, is created on demand, and removes    *)
(* itself from the registry after an idle timeout.                         *)
(*                                                                         *)
(* A Request is a slot for an HTTP handler goroutine inside                *)
(* enqueueChunkOperation.  A slot serves one call after the other, and is  *)
(* not used again while the operation of its previous call is still in a   *)
(* worker's hands, so a slot names at most one operation.  A Worker is a   *)
(* chunkWorker object together with its goroutine; its name may be used    *)
(* again once nothing refers to the object any more.                       *)
(***************************************************************************)
EXTENDS Naturals, Sequences, FiniteSets

CONSTANTS
    Requests,   \* slots for calls of OpenCell and FlagCell
    Chunks,     \* playable chunks
    Workers,    \* names for chunkWorker objects
    ChunkOf,    \* the chunk each request addresses
    QueueSize,  \* capacity of a worker's ops channel (256 in the program)
    NoWorker, NoChunk, NoRequest

ASSUME RequestsAssumption ==
    /\ IsFiniteSet(Requests)
    /\ ChunkOf \in [Requests -> Chunks]

ASSUME QueueSizeAssumption == QueueSize \in Nat \ {0}

ASSUME NullAssumption ==
    /\ NoWorker \notin Workers
    /\ NoChunk \notin Chunks
    /\ NoRequest \notin Requests

VARIABLES
    registry,       \* s.workers: the worker registered for each chunk
    workerChunk,    \* worker.chunkID
    activeSenders,  \* worker.activeSenders
    ops,            \* worker.ops, a buffered channel
    wpc,            \* control of each worker goroutine
    current,        \* the operation a worker is handling
    rpc,            \* control of each calling goroutine
    held,           \* the worker a caller acquired and has not released
    ctxDone,        \* the caller's context is cancelled
    result          \* op.result, a channel of capacity 1

registryVars == <<registry, workerChunk, activeSenders>>
workerVars   == <<ops, wpc, current>>
callerVars   == <<rpc, held, ctxDone>>
vars == <<registryVars, workerVars, callerVars, result>>

-----------------------------------------------------------------------------
(* Types *)

WorkerControl  == {"none", "select", "taken", "running", "timedOut"}
RequestControl == {"idle", "entered", "sending", "waiting", "releasing"}
Results        == {"empty", "served", "refused"}

\* The shape of every variable.
TypeOK ==
    /\ registry \in [Chunks -> Workers \union {NoWorker}]
    /\ workerChunk \in [Workers -> Chunks \union {NoChunk}]
    /\ activeSenders \in [Workers -> Nat]
    /\ ops \in [Workers -> Seq(Requests)]
    /\ wpc \in [Workers -> WorkerControl]
    /\ current \in [Workers -> Requests \union {NoRequest}]
    /\ rpc \in [Requests -> RequestControl]
    /\ held \in [Requests -> Workers \union {NoWorker}]
    /\ ctxDone \in [Requests -> BOOLEAN]
    /\ result \in [Requests -> Results]

-----------------------------------------------------------------------------
(* Helpers *)

Elems(s)   == {s[i] : i \in DOMAIN s}
Live(w)    == wpc[w] # "none"
Holders(w) == {r \in Requests : held[r] = w}
Queued(w)  == Elems(ops[w])

\* The operation of slot r is queued at a worker, or being handled by one.
Pending(r) == \E w \in Workers : r \in Queued(w) \/ current[w] = r

\* A name for a newly allocated chunkWorker: nothing refers to it.
Unreferenced(w) == ~Live(w) /\ Holders(w) = {} /\ \A c \in Chunks : registry[c] # w

Init ==
    /\ registry = [c \in Chunks |-> NoWorker]
    /\ workerChunk = [w \in Workers |-> NoChunk]
    /\ activeSenders = [w \in Workers |-> 0]
    /\ ops = [w \in Workers |-> <<>>]
    /\ wpc = [w \in Workers |-> "none"]
    /\ current = [w \in Workers |-> NoRequest]
    /\ rpc = [r \in Requests |-> "idle"]
    /\ held = [r \in Requests |-> NoWorker]
    /\ ctxDone = [r \in Requests |-> FALSE]
    /\ result = [r \in Requests |-> "empty"]

-----------------------------------------------------------------------------
(* The calling goroutine: enqueueChunkOperation *)

\* OpenCell or FlagCell is called with a live context.
Arrive(r) ==
    /\ rpc[r] = "idle"
    /\ ~Pending(r)
    /\ rpc' = [rpc EXCEPT ![r] = "entered"]
    /\ ctxDone' = [ctxDone EXCEPT ![r] = FALSE]
    /\ UNCHANGED <<registryVars, workerVars, held, result>>

\* The client disconnects, or the HTTP handler has returned: from here on
\* every ctx.Err() is non-nil.  It may happen after the caller is gone and
\* while its operation is still queued.
CancelContext(r) ==
    /\ rpc[r] # "idle" \/ Pending(r)
    /\ ~ctxDone[r]
    /\ ctxDone' = [ctxDone EXCEPT ![r] = TRUE]
    /\ UNCHANGED <<registryVars, workerVars, rpc, held, result>>

\* The first ctx.Err() test returns the error: nothing was acquired.
RejectCancelled(r) ==
    /\ rpc[r] = "entered"
    /\ ctxDone[r]
    /\ rpc' = [rpc EXCEPT ![r] = "idle"]
    /\ UNCHANGED <<registryVars, workerVars, held, ctxDone, result>>

\* acquireChunkWorker finds a worker registered for the chunk.
ReuseWorker(r) ==
    LET w == registry[ChunkOf[r]] IN
    /\ w # NoWorker
    /\ activeSenders' = [activeSenders EXCEPT ![w] = @ + 1]
    /\ held' = [held EXCEPT ![r] = w]
    /\ UNCHANGED <<registry, workerChunk, workerVars>>

\* acquireChunkWorker finds none: it registers a new worker, with the caller
\* as its first sender, and starts its goroutine.
SpawnWorker(r) ==
    /\ registry[ChunkOf[r]] = NoWorker
    /\ \E w \in Workers :
        /\ Unreferenced(w)
        /\ registry' = [registry EXCEPT ![ChunkOf[r]] = w]
        /\ workerChunk' = [workerChunk EXCEPT ![w] = ChunkOf[r]]
        /\ activeSenders' = [activeSenders EXCEPT ![w] = 1]
        /\ ops' = [ops EXCEPT ![w] = <<>>]
        /\ wpc' = [wpc EXCEPT ![w] = "select"]
        /\ held' = [held EXCEPT ![r] = w]
    /\ UNCHANGED current

\* acquireChunkWorker, under workersMu, after the context test and the
\* creation of the operation's own result channel.
Acquire(r) ==
    /\ rpc[r] = "entered"
    /\ ~ctxDone[r]
    /\ ReuseWorker(r) \/ SpawnWorker(r)
    /\ rpc' = [rpc EXCEPT ![r] = "sending"]
    /\ result' = [result EXCEPT ![r] = "empty"]
    /\ UNCHANGED ctxDone

\* worker.ops <- op, possible while the channel has room.
Send(r) ==
    LET w == held[r] IN
    /\ rpc[r] = "sending"
    /\ Len(ops[w]) < QueueSize
    /\ ops' = [ops EXCEPT ![w] = Append(@, r)]
    /\ rpc' = [rpc EXCEPT ![r] = "waiting"]
    /\ UNCHANGED <<registryVars, wpc, current, held, ctxDone, result>>

\* Fault: leaving early skips the deferred release.
GiveUpUnreleased(r) ==
    /\ rpc[r] \in {"sending", "waiting"}
    /\ ctxDone[r]
    /\ rpc' = [rpc EXCEPT ![r] = "idle"]
    /\ held' = [held EXCEPT ![r] = NoWorker]
    /\ UNCHANGED <<registryVars, workerVars, ctxDone, result>>

\* <-ctx.Done() in either select: the caller leaves with ctx.Err(), and an
\* operation already sent stays with the worker.
GiveUp(r) ==
    /\ rpc[r] \in {"sending", "waiting"}
    /\ ctxDone[r]
    /\ rpc' = [rpc EXCEPT ![r] = "releasing"]
    /\ UNCHANGED <<registryVars, workerVars, held, ctxDone, result>>

\* result := <-op.result
Receive(r) ==
    /\ rpc[r] = "waiting"
    /\ result[r] # "empty"
    /\ result' = [result EXCEPT ![r] = "empty"]
    /\ rpc' = [rpc EXCEPT ![r] = "releasing"]
    /\ UNCHANGED <<registryVars, workerVars, held, ctxDone>>

\* Fault: the last sender unregisters the worker, which may still be busy with
\* the operation of a caller that left.
ReleaseUnregisters(r) ==
    LET w == held[r] IN
    /\ rpc[r] = "releasing"
    /\ activeSenders' = [activeSenders EXCEPT ![w] = @ - 1]
    /\ registry' = [registry EXCEPT ![ChunkOf[r]] =
                        IF activeSenders[w] = 1 THEN NoWorker ELSE @]
    /\ held' = [held EXCEPT ![r] = NoWorker]
    /\ rpc' = [rpc EXCEPT ![r] = "idle"]
    /\ UNCHANGED <<workerChunk, workerVars, ctxDone, result>>

\* The deferred releaseChunkWorker, under workersMu, and the return.
Release(r) ==
    LET w == held[r] IN
    /\ rpc[r] = "releasing"
    /\ activeSenders' = [activeSenders EXCEPT ![w] = IF @ > 0 THEN @ - 1 ELSE @]
    /\ held' = [held EXCEPT ![r] = NoWorker]
    /\ rpc' = [rpc EXCEPT ![r] = "idle"]
    /\ UNCHANGED <<registry, workerChunk, workerVars, ctxDone, result>>

-----------------------------------------------------------------------------
(* The worker goroutine: runChunkWorker *)

\* op := <-worker.ops; the idle timer is stopped and drained.
Take(w) ==
    /\ wpc[w] = "select"
    /\ ops[w] # <<>>
    /\ current' = [current EXCEPT ![w] = Head(ops[w])]
    /\ ops' = [ops EXCEPT ![w] = Tail(@)]
    /\ wpc' = [wpc EXCEPT ![w] = "taken"]
    /\ UNCHANGED <<registryVars, callerVars, result>>

\* op.result <- res, then the timer is reset: the channel of capacity 1 must
\* have room, or the worker would block.
Reply(w, res) ==
    LET r == current[w] IN
    /\ result[r] = "empty"
    /\ result' = [result EXCEPT ![r] = res]
    /\ current' = [current EXCEPT ![w] = NoRequest]
    /\ wpc' = [wpc EXCEPT ![w] = "select"]

\* Fault: no return after the error is sent, so the operation runs as well.
RefuseAndRun(w) ==
    /\ wpc[w] = "taken"
    /\ ctxDone[current[w]]
    /\ result' = [result EXCEPT ![current[w]] = "refused"]
    /\ wpc' = [wpc EXCEPT ![w] = "running"]
    /\ UNCHANGED <<registryVars, ops, current, callerVars>>

\* handleChunkOperation finds the operation's context cancelled.
Refuse(w) ==
    /\ wpc[w] = "taken"
    /\ ctxDone[current[w]]
    /\ Reply(w, "refused")
    /\ UNCHANGED <<registryVars, ops, callerVars>>

\* handleChunkOperation starts openCellInWorker or flagCellInWorker.
Begin(w) ==
    /\ wpc[w] = "taken"
    /\ ~ctxDone[current[w]]
    /\ wpc' = [wpc EXCEPT ![w] = "running"]
    /\ UNCHANGED <<registryVars, ops, current, callerVars, result>>

\* Fault: an error path returns without sending a result.
FinishSilently(w) ==
    /\ wpc[w] = "running"
    /\ current' = [current EXCEPT ![w] = NoRequest]
    /\ wpc' = [wpc EXCEPT ![w] = "select"]
    /\ UNCHANGED <<registryVars, ops, callerVars, result>>

\* openCellInWorker or flagCellInWorker has returned a response or an error.
Finish(w) ==
    /\ wpc[w] = "running"
    /\ Reply(w, "served")
    /\ UNCHANGED <<registryVars, ops, callerVars>>

\* <-idleTimer.C is chosen; an operation may arrive at any moment, before or
\* after.
IdleTimeout(w) ==
    /\ wpc[w] = "select"
    /\ wpc' = [wpc EXCEPT ![w] = "timedOut"]
    /\ UNCHANGED <<registryVars, ops, current, callerVars, result>>

\* Faults: only one half of removeIdleChunkWorker's test.
InUseByQueue(w)   == Len(ops[w]) > 0
InUseBySenders(w) == activeSenders[w] > 0

InUse(w) == activeSenders[w] > 0 \/ Len(ops[w]) > 0

\* removeIdleChunkWorker returns true, under workersMu: the goroutine ends.
\* A worker that is no longer the registered one leaves the registry alone.
RemoveIdle(w) ==
    LET c == workerChunk[w] IN
    /\ wpc[w] = "timedOut"
    /\ registry[c] # w \/ ~InUse(w)
    /\ registry' = [registry EXCEPT ![c] = IF @ = w THEN NoWorker ELSE @]
    /\ workerChunk' = [workerChunk EXCEPT ![w] = NoChunk]
    /\ wpc' = [wpc EXCEPT ![w] = "none"]
    /\ UNCHANGED <<activeSenders, ops, current, callerVars, result>>

\* removeIdleChunkWorker returns false: the timer is reset.
KeepWorker(w) ==
    /\ wpc[w] = "timedOut"
    /\ registry[workerChunk[w]] = w
    /\ InUse(w)
    /\ wpc' = [wpc EXCEPT ![w] = "select"]
    /\ UNCHANGED <<registryVars, ops, current, callerVars, result>>

-----------------------------------------------------------------------------
(* The system *)

CallerStep(r) ==
    \/ RejectCancelled(r) \/ Acquire(r) \/ Send(r)
    \/ GiveUp(r) \/ Receive(r) \/ Release(r)

WorkerStep(w) ==
    \/ Take(w) \/ Refuse(w) \/ Begin(w) \/ Finish(w)
    \/ IdleTimeout(w) \/ RemoveIdle(w) \/ KeepWorker(w)

Next ==
    \/ \E r \in Requests : Arrive(r) \/ CancelContext(r) \/ CallerStep(r)
    \/ \E w \in Workers : WorkerStep(w)

Spec == Init /\ [][Next]_vars

(***************************************************************************)
(* Goroutines are scheduled, and the handlers of an operation return.      *)
(* Senders blocked on a full channel are queued by the runtime and admitted*)
(* in order, hence strong fairness of Send.  A select with a waiting       *)
(* operation takes it unless the freshly reset timer (five minutes) has    *)
(* fired too, and then picks at random, hence strong fairness of Take.     *)
(* Calls and cancellations are the clients' choice.                        *)
(***************************************************************************)
Fairness ==
    /\ \A r \in Requests : WF_vars(CallerStep(r)) /\ SF_vars(Send(r))
    /\ \A w \in Workers : WF_vars(WorkerStep(w)) /\ SF_vars(Take(w))

FairSpec == Spec /\ Fairness

-----------------------------------------------------------------------------
(* Safety *)

\* The purpose of the workers: the body of open and flag, a read-modify-write
\* of the chunk's stored state, never runs twice at a time for one chunk, even
\* when a worker retires while callers are acquiring it (lines 599-688).
Serialized ==
    \A v, w \in Workers :
        /\ wpc[v] = "running"
        /\ wpc[w] = "running"
        /\ ChunkOf[current[v]] = ChunkOf[current[w]]
        => v = w

\* A caller that waits for a result has been answered, or its operation is
\* with the live worker registered for its chunk: removeIdleChunkWorker never
\* strands an operation in the channel of a goroutine that has ended.
NoStrandedOperation ==
    \A r \in Requests : rpc[r] = "waiting" =>
        \/ result[r] # "empty"
        \/ LET w == registry[ChunkOf[r]] IN
           w # NoWorker /\ Live(w) /\ (r \in Queued(w) \/ current[w] = r)

\* activeSenders counts exactly the callers between acquire and release, on
\* every path out of the two selects (lines 583-596): the count neither leaks,
\* which would keep a worker for ever, nor drops early.
SendersCounted ==
    \A w \in Workers : activeSenders[w] = Cardinality(Holders(w))

\* The worker never blocks on op.result, though the caller may have left: the
\* channel of the operation in hand is empty (lines 581, 661, 674).
ReplyNeverBlocks ==
    \A w \in Workers : wpc[w] \in {"taken", "running"} => result[current[w]] = "empty"

-----------------------------------------------------------------------------
(* Why it works: an inductive invariant *)

Distinct(s) == \A i, j \in DOMAIN s : s[i] = s[j] => i = j

\* A registered worker is live, and a live worker is the registered one.
RegistryInv ==
    /\ \A c \in Chunks : registry[c] # NoWorker =>
        Live(registry[c]) /\ workerChunk[registry[c]] = c
    /\ \A w \in Workers : Live(w) =>
        workerChunk[w] \in Chunks /\ registry[workerChunk[w]] = w

\* A caller holds a live worker of its chunk exactly between acquire and
\* release.
HolderInv ==
    \A r \in Requests :
        /\ held[r] # NoWorker <=> rpc[r] \in {"sending", "waiting", "releasing"}
        /\ held[r] # NoWorker => Live(held[r]) /\ workerChunk[held[r]] = ChunkOf[r]

\* An operation can be in a worker's hands only after its caller sent it, and
\* is then unanswered.
Unanswered(r) == result[r] = "empty" /\ rpc[r] \notin {"entered", "sending"}

\* Each operation is in the hands of at most one worker, that of its chunk,
\* once; and a worker handles an operation exactly between take and reply.
OperationInv ==
    \A w \in Workers :
        /\ ~Live(w) => ops[w] = <<>>
        /\ current[w] # NoRequest <=> wpc[w] \in {"taken", "running"}
        /\ Distinct(ops[w])
        /\ current[w] \notin Elems(ops[w])
        /\ \A r \in Requests : r \in Elems(ops[w]) \/ current[w] = r =>
            ChunkOf[r] = workerChunk[w] /\ Unanswered(r)

\* A caller that sends has no answer yet; one that waits has been answered,
\* or its operation is in hand.
WaiterInv ==
    \A r \in Requests :
        /\ rpc[r] = "sending" => result[r] = "empty"
        /\ rpc[r] = "waiting" =>
            result[r] # "empty" \/ r \in Elems(ops[held[r]]) \/ current[held[r]] = r

\* The registry, the workers, the callers and the operations agree: the facts
\* that together survive every step and imply the safety properties above.
IndInv ==
    TypeOK /\ RegistryInv /\ HolderInv /\ OperationInv /\ WaiterInv /\ SendersCounted

-----------------------------------------------------------------------------
(* Liveness *)

\* Every call of enqueueChunkOperation returns.
CallsReturn == \A r \in Requests : rpc[r] = "entered" ~> rpc[r] = "idle"

\* When the calls stop, every worker removes itself: the registry empties.
WorkersRetire ==
    <>[](\A r \in Requests : rpc[r] = "idle")
        => <>[](\A c \in Chunks : registry[c] = NoWorker)

-----------------------------------------------------------------------------
(* Refinement *)

\* The abstract chunk's queue and current operation are those of the worker
\* registered for it; a chunk without a worker has accepted nothing.
Abstract(c, none, f) == IF registry[c] = NoWorker THEN none ELSE f[registry[c]]

Serial == INSTANCE ChunkSerial WITH
    pending   <- [c \in Chunks |-> Abstract(c, <<>>, ops)],
    executing <- [c \in Chunks |-> Abstract(c, NoRequest, current)],
    answer    <- result

\* Workers come and go, and callers leave early, without the chunk losing an
\* accepted operation, running two at once, or serving them out of order.
ImplementsSerial == Serial!FairSpec

=============================================================================
