------------------------- MODULE ChunkWorkersProofs -------------------------
(***************************************************************************)
(* Proofs about ChunkWorkers, for every set of callers, chunks and workers *)
(* and every queue size: the type invariant, the inductive invariant that  *)
(* ties the registry, the workers and the callers together, and from it    *)
(* the safety properties of ChunkWorkers.                                  *)
(***************************************************************************)
EXTENDS ChunkWorkers, FiniteSetTheorems, TLAPS

-----------------------------------------------------------------------------
(* Sequences without duplicates *)

\* Appending an element adds it to the elements, and keeps a sequence without
\* duplicates so when the element is new.
LEMMA AppendElems ==
    ASSUME NEW S, NEW s \in Seq(S), NEW e \in S
    PROVE  /\ Append(s, e) \in Seq(S)
           /\ Elems(Append(s, e)) = Elems(s) \union {e}
           /\ Distinct(s) /\ e \notin Elems(s) => Distinct(Append(s, e))
<1> DEFINE t == Append(s, e)
<1>1. /\ t \in Seq(S)
      /\ DOMAIN s = 1..Len(s)
      /\ DOMAIN t = 1..(Len(s) + 1)
      /\ \A i \in 1..Len(s) : t[i] = s[i]
      /\ t[Len(s) + 1] = e
  OBVIOUS
<1>2. Len(s) \in Nat
  OBVIOUS
<1> HIDE DEF t
<1>3. Elems(t) = Elems(s) \union {e}
  BY <1>1, <1>2 DEF Elems
<1>4. Distinct(s) /\ e \notin Elems(s) => Distinct(t)
  BY <1>1, <1>2 DEF Elems, Distinct
<1>5. QED
  BY <1>1, <1>3, <1>4 DEF t

\* The elements of a non-empty sequence are its head and those of its tail.
LEMMA TailElems ==
    ASSUME NEW S, NEW s \in Seq(S), s # <<>>
    PROVE  /\ Tail(s) \in Seq(S)
           /\ Head(s) \in S
           /\ Elems(s) = Elems(Tail(s)) \union {Head(s)}
           /\ Distinct(s) => Distinct(Tail(s)) /\ Head(s) \notin Elems(Tail(s))
<1> DEFINE t == Tail(s)
<1>1. /\ t \in Seq(S)
      /\ Head(s) = s[1]
      /\ Head(s) \in S
      /\ Len(s) \in Nat \ {0}
      /\ DOMAIN s = 1..Len(s)
      /\ DOMAIN t = 1..(Len(s) - 1)
      /\ \A i \in 1..(Len(s) - 1) : t[i] = s[i + 1]
  OBVIOUS
<1> HIDE DEF t
<1>2. Elems(s) = Elems(t) \union {Head(s)}
  <2>1. ASSUME NEW e \in Elems(s) PROVE e \in Elems(t) \union {Head(s)}
    <3>1. PICK i \in 1..Len(s) : e = s[i]
      BY <1>1 DEF Elems
    <3>2. CASE i = 1
      BY <3>1, <3>2, <1>1
    <3>3. CASE i # 1
      <4>1. i - 1 \in 1..(Len(s) - 1) /\ t[i - 1] = s[i]
        BY <3>1, <3>3, <1>1
      <4>2. QED
        BY <4>1, <3>1, <1>1 DEF Elems
    <3>4. QED
      BY <3>2, <3>3
  <2>2. ASSUME NEW e \in Elems(t) PROVE e \in Elems(s)
    BY <1>1 DEF Elems
  <2>3. Head(s) \in Elems(s)
    BY <1>1 DEF Elems
  <2>4. QED
    BY <2>1, <2>2, <2>3
<1>3. ASSUME Distinct(s) PROVE Distinct(t) /\ Head(s) \notin Elems(t)
  <2>1. ASSUME NEW i \in DOMAIN t, NEW j \in DOMAIN t, t[i] = t[j] PROVE i = j
    <3>1. /\ i + 1 \in DOMAIN s /\ j + 1 \in DOMAIN s
          /\ s[i + 1] = s[j + 1]
      BY <2>1, <1>1
    <3>2. i + 1 = j + 1
      BY <3>1, <1>3 DEF Distinct
    <3>3. QED
      BY <3>2, <1>1
  <2>2. ASSUME NEW i \in DOMAIN t PROVE t[i] # s[1]
    <3>1. i + 1 \in DOMAIN s /\ 1 \in DOMAIN s /\ i + 1 # 1 /\ t[i] = s[i + 1]
      BY <1>1
    <3>2. QED
      BY <3>1, <1>3 DEF Distinct
  <2>3. QED
    BY <2>1, <2>2, <1>1 DEF Elems, Distinct
<1>4. QED
  BY <1>1, <1>2, <1>3 DEF t

\* The empty sequence.
LEMMA EmptyElems == Elems(<<>>) = {} /\ Distinct(<<>>)
  BY DEF Elems, Distinct

-----------------------------------------------------------------------------
(* The inductive invariant *)

\* The constants, in the form the steps below use.
LEMMA Constants ==
    /\ \A r \in Requests : ChunkOf[r] \in Chunks
    /\ NoWorker \notin Workers /\ NoChunk \notin Chunks /\ NoRequest \notin Requests
    /\ QueueSize \in Nat
  BY RequestsAssumption, QueueSizeAssumption, NullAssumption

\* There are finitely many callers, so the senders of a worker can be counted.
LEMMA HoldersFinite ==
    ASSUME NEW w
    PROVE  IsFiniteSet(Holders(w)) /\ (Holders(w) = {} <=> Cardinality(Holders(w)) = 0)
<1>1. Holders(w) \subseteq Requests
  BY DEF Holders
<1>2. IsFiniteSet(Holders(w))
  BY <1>1, RequestsAssumption, FS_Subset
<1>3. QED
  BY <1>2, FS_EmptySet

\* Initially nobody holds anything.
LEMMA InitInv == Init => IndInv
<1> SUFFICES ASSUME Init PROVE IndInv
  OBVIOUS
<1> USE Constants DEF Init
<1>1. TypeOK
  BY DEF TypeOK, WorkerControl, RequestControl, Results
<1>2. RegistryInv
  BY DEF RegistryInv, Live
<1>3. HolderInv
  BY DEF HolderInv
<1>4. OperationInv
  BY EmptyElems DEF OperationInv, Live
<1>5. WaiterInv
  BY DEF WaiterInv
<1>6. SendersCounted
  <2>1. ASSUME NEW w \in Workers PROVE Holders(w) = {}
    BY DEF Holders
  <2>2. QED
    BY <2>1, FS_EmptySet DEF SendersCounted
<1>7. QED
  BY <1>1, <1>2, <1>3, <1>4, <1>5, <1>6 DEF IndInv

\* A step that leaves held and activeSenders alone leaves the count right.
LEMMA SameHolders ==
    SendersCounted /\ UNCHANGED <<held, activeSenders>> => SendersCounted'
  BY DEF SendersCounted, Holders

\* A new call enters: its slot has no operation in any worker's hands.
LEMMA ArriveInv ==
    ASSUME IndInv, NEW r \in Requests, Arrive(r) PROVE IndInv'
<1> USE Constants DEF IndInv, Arrive, registryVars, workerVars
<1>1. TypeOK'
  BY DEF TypeOK, RequestControl
<1>2. RegistryInv'
  BY DEF RegistryInv, Live
<1>3. HolderInv'
  BY DEF HolderInv, Live, TypeOK
<1>4. OperationInv'
  BY DEF OperationInv, Live, TypeOK, Unanswered, Pending, Queued
<1>5. WaiterInv'
  BY DEF WaiterInv, TypeOK
<1>6. SendersCounted'
  BY SameHolders
<1>7. QED
  BY <1>1, <1>2, <1>3, <1>4, <1>5, <1>6

\* A context is cancelled: only ctxDone changes.
LEMMA CancelContextInv ==
    ASSUME IndInv, NEW r \in Requests, CancelContext(r) PROVE IndInv'
<1> USE DEF IndInv, CancelContext, registryVars, workerVars
<1>1. TypeOK'
  BY DEF TypeOK
<1>2. RegistryInv' /\ HolderInv' /\ OperationInv' /\ WaiterInv'
  BY DEF RegistryInv, HolderInv, OperationInv, WaiterInv, Live, Unanswered
<1>3. SendersCounted'
  BY SameHolders
<1>4. QED
  BY <1>1, <1>2, <1>3

\* A caller that holds nothing leaves.
LEMMA RejectCancelledInv ==
    ASSUME IndInv, NEW r \in Requests, RejectCancelled(r) PROVE IndInv'
<1> USE DEF IndInv, RejectCancelled, registryVars, workerVars
<1>1. TypeOK'
  BY DEF TypeOK, RequestControl
<1>2. RegistryInv'
  BY DEF RegistryInv, Live
<1>3. HolderInv'
  BY DEF HolderInv, Live, TypeOK
<1>4. OperationInv'
  BY DEF OperationInv, Live, TypeOK, Unanswered
<1>5. WaiterInv'
  BY DEF WaiterInv, TypeOK
<1>6. SendersCounted'
  BY SameHolders
<1>7. QED
  BY <1>1, <1>2, <1>3, <1>4, <1>5, <1>6

\* A caller joins a worker's senders: the count grows with the set.
LEMMA JoinCount ==
    ASSUME IndInv, NEW r \in Requests, NEW w \in Workers,
           held[r] = NoWorker,
           held' = [held EXCEPT ![r] = w],
           activeSenders' = [activeSenders EXCEPT ![w] = Cardinality(Holders(w)) + 1]
    PROVE  SendersCounted'
<1> USE Constants DEF IndInv
<1>1. ASSUME NEW v \in Workers, v # w PROVE activeSenders'[v] = Cardinality(Holders(v)')
  <2>1. Holders(v)' = Holders(v)
    BY <1>1 DEF Holders, TypeOK
  <2>2. QED
    BY <1>1, <2>1 DEF SendersCounted, TypeOK
<1>2. activeSenders'[w] = Cardinality(Holders(w)')
  <2>1. Holders(w)' = Holders(w) \union {r} /\ r \notin Holders(w)
    BY DEF Holders, TypeOK
  <2>2. Cardinality(Holders(w) \union {r}) = Cardinality(Holders(w)) + 1
    BY <2>1, HoldersFinite, FS_AddElement
  <2>3. QED
    BY <2>1, <2>2 DEF TypeOK
<1>3. QED
  BY <1>1, <1>2 DEF SendersCounted

\* A caller leaves a worker's senders: the count shrinks with the set.
LEMMA LeaveCount ==
    ASSUME IndInv, NEW r \in Requests, NEW w \in Workers,
           held[r] = w,
           held' = [held EXCEPT ![r] = NoWorker],
           activeSenders' = [activeSenders EXCEPT ![w] = Cardinality(Holders(w)) - 1]
    PROVE  SendersCounted'
<1> USE Constants DEF IndInv
<1>1. ASSUME NEW v \in Workers, v # w PROVE activeSenders'[v] = Cardinality(Holders(v)')
  <2>1. Holders(v)' = Holders(v)
    BY <1>1 DEF Holders, TypeOK
  <2>2. QED
    BY <1>1, <2>1 DEF SendersCounted, TypeOK
<1>2. activeSenders'[w] = Cardinality(Holders(w)')
  <2>1. Holders(w)' = Holders(w) \ {r} /\ r \in Holders(w)
    BY DEF Holders, TypeOK
  <2>2. Cardinality(Holders(w) \ {r}) = Cardinality(Holders(w)) - 1
    BY <2>1, HoldersFinite, FS_RemoveElement
  <2>3. QED
    BY <2>1, <2>2 DEF TypeOK
<1>3. QED
  BY <1>1, <1>2 DEF SendersCounted

\* A caller acquires the registered worker, or a new one it registers.
LEMMA AcquireInv ==
    ASSUME IndInv, NEW r \in Requests, Acquire(r) PROVE IndInv'
<1> USE Constants DEF IndInv, Acquire
<1> DEFINE c == ChunkOf[r]
<1>0. held[r] = NoWorker /\ rpc[r] = "entered" /\ c \in Chunks
  BY DEF HolderInv
<1>1. CASE ReuseWorker(r)
  <2> DEFINE w == registry[c]
  <2> USE DEF ReuseWorker, workerVars
  <2>0. w \in Workers /\ Live(w) /\ workerChunk[w] = c
    BY <1>0, <1>1 DEF TypeOK, RegistryInv
  <2>1. TypeOK'
    BY <1>1, <2>0 DEF TypeOK, RequestControl, Results
  <2>2. RegistryInv'
    BY <1>1 DEF RegistryInv, Live
  <2>3. HolderInv'
    BY <1>1, <2>0 DEF HolderInv, Live, TypeOK
  <2>4. OperationInv'
    BY <1>0, <1>1 DEF OperationInv, Live, TypeOK, Unanswered
  <2>5. WaiterInv'
    BY <1>0, <1>1 DEF WaiterInv, TypeOK
  <2>6. SendersCounted'
    <3>1. activeSenders' = [activeSenders EXCEPT ![w] = Cardinality(Holders(w)) + 1]
      BY <1>1, <2>0 DEF SendersCounted
    <3>2. held' = [held EXCEPT ![r] = w]
      BY <1>1
    <3>3. QED
      BY <1>0, <2>0, <3>1, <3>2, JoinCount
  <2>7. QED
    BY <2>1, <2>2, <2>3, <2>4, <2>5, <2>6
<1>2. CASE SpawnWorker(r)
  <2>0. PICK w \in Workers :
          /\ Unreferenced(w)
          /\ registry' = [registry EXCEPT ![c] = w]
          /\ workerChunk' = [workerChunk EXCEPT ![w] = c]
          /\ activeSenders' = [activeSenders EXCEPT ![w] = 1]
          /\ ops' = [ops EXCEPT ![w] = <<>>]
          /\ wpc' = [wpc EXCEPT ![w] = "select"]
          /\ held' = [held EXCEPT ![r] = w]
    BY <1>2 DEF SpawnWorker
  <2>a. registry[c] = NoWorker /\ current' = current
    BY <1>2 DEF SpawnWorker
  <2>b. /\ ~Live(w) /\ current[w] = NoRequest
        /\ \A q \in Requests : held[q] # w
        /\ \A d \in Chunks : registry[d] # w
    BY <2>0 DEF Unreferenced, Live, Holders, OperationInv
  <2>1. TypeOK'
    BY <1>0, <2>0, <2>a DEF TypeOK, RequestControl, Results, WorkerControl
  <2>2. RegistryInv'
    BY <1>0, <2>0, <2>a, <2>b DEF RegistryInv, Live, TypeOK
  <2>3. HolderInv'
    BY <1>0, <2>0, <2>b DEF HolderInv, Live, TypeOK
  <2>4. OperationInv'
    BY <1>0, <2>0, <2>a, <2>b, EmptyElems DEF OperationInv, Live, TypeOK, Unanswered
  <2>5. WaiterInv'
    BY <1>0, <2>0, <2>a, <2>b DEF WaiterInv, HolderInv, TypeOK
  <2>6. SendersCounted'
    <3>1. Cardinality(Holders(w)) = 0
      BY <2>b, HoldersFinite DEF Holders
    <3>2. activeSenders' = [activeSenders EXCEPT ![w] = Cardinality(Holders(w)) + 1]
      BY <2>0, <3>1
    <3>3. held' = [held EXCEPT ![r] = w]
      BY <2>0
    <3>4. QED
      BY <1>0, <3>2, <3>3, JoinCount
  <2>7. QED
    BY <2>1, <2>2, <2>3, <2>4, <2>5, <2>6
<1>3. QED
  BY <1>1, <1>2

\* An operation is sent to the worker the caller holds.
LEMMA SendInv ==
    ASSUME IndInv, NEW r \in Requests, Send(r) PROVE IndInv'
<1> USE Constants DEF IndInv, Send, registryVars
<1> DEFINE w == held[r]
<1>0. w \in Workers /\ Live(w) /\ workerChunk[w] = ChunkOf[r] /\ ops[w] \in Seq(Requests)
  BY DEF HolderInv, TypeOK
<1>a. /\ Append(ops[w], r) \in Seq(Requests)
      /\ Elems(Append(ops[w], r)) = Elems(ops[w]) \union {r}
      /\ Distinct(ops[w]) /\ r \notin Elems(ops[w]) => Distinct(Append(ops[w], r))
  BY <1>0, AppendElems
<1>b. r \notin Elems(ops[w]) /\ current[w] # r
  BY <1>0 DEF OperationInv, Unanswered
<1>c. ops' = [ops EXCEPT ![w] = Append(ops[w], r)]
  OBVIOUS
<1>1. TypeOK'
  BY <1>0, <1>a DEF TypeOK, RequestControl
<1>2. RegistryInv'
  BY DEF RegistryInv, Live
<1>3. HolderInv'
  BY DEF HolderInv, Live, TypeOK
<1>4. OperationInv'
  <2> SUFFICES ASSUME NEW v \in Workers
               PROVE  /\ ~Live(v)' => ops'[v] = <<>>
                      /\ current'[v] # NoRequest <=> wpc'[v] \in {"taken", "running"}
                      /\ Distinct(ops'[v])
                      /\ current'[v] \notin Elems(ops'[v])
                      /\ \A q \in Requests : q \in Elems(ops'[v]) \/ current'[v] = q =>
                            ChunkOf[q] = workerChunk'[v] /\ Unanswered(q)'
    BY DEF OperationInv
  <2>0. result[r] = "empty"
    BY DEF WaiterInv
  <2>1. CASE v = w
    BY <2>0, <2>1, <1>0, <1>a, <1>b, <1>c DEF OperationInv, Live, TypeOK, Unanswered
  <2>2. CASE v # w
    BY <2>2, <1>0, <1>c DEF OperationInv, Live, TypeOK, Unanswered
  <2>3. QED
    BY <2>1, <2>2
<1>5. WaiterInv'
  BY <1>0, <1>a, <1>c DEF WaiterInv, HolderInv, TypeOK
<1>6. SendersCounted'
  BY SameHolders
<1>7. QED
  BY <1>1, <1>2, <1>3, <1>4, <1>5, <1>6

\* A caller leaves one of the two selects with the context's error.
LEMMA GiveUpInv ==
    ASSUME IndInv, NEW r \in Requests, GiveUp(r) PROVE IndInv'
<1> USE DEF IndInv, GiveUp, registryVars, workerVars
<1>1. TypeOK'
  BY DEF TypeOK, RequestControl
<1>2. RegistryInv'
  BY DEF RegistryInv, Live
<1>3. HolderInv'
  BY DEF HolderInv, Live, TypeOK
<1>4. OperationInv'
  BY DEF OperationInv, Live, TypeOK, Unanswered
<1>5. WaiterInv'
  BY DEF WaiterInv, TypeOK
<1>6. SendersCounted'
  BY SameHolders
<1>7. QED
  BY <1>1, <1>2, <1>3, <1>4, <1>5, <1>6

\* A caller takes its answer: its operation is in no worker's hands.
LEMMA ReceiveInv ==
    ASSUME IndInv, NEW r \in Requests, Receive(r) PROVE IndInv'
<1> USE DEF IndInv, Receive, registryVars, workerVars
<1>1. TypeOK'
  BY DEF TypeOK, RequestControl, Results
<1>2. RegistryInv'
  BY DEF RegistryInv, Live
<1>3. HolderInv'
  BY DEF HolderInv, Live, TypeOK
<1>4. OperationInv'
  BY DEF OperationInv, Live, TypeOK, Unanswered
<1>5. WaiterInv'
  BY DEF WaiterInv, TypeOK
<1>6. SendersCounted'
  BY SameHolders
<1>7. QED
  BY <1>1, <1>2, <1>3, <1>4, <1>5, <1>6

\* A caller releases its worker.
LEMMA ReleaseInv ==
    ASSUME IndInv, NEW r \in Requests, Release(r) PROVE IndInv'
<1> USE Constants DEF IndInv, Release, workerVars
<1> DEFINE w == held[r]
<1>0. w \in Workers
  BY DEF HolderInv, TypeOK
<1>1. TypeOK'
  BY <1>0 DEF TypeOK, RequestControl
<1>2. RegistryInv'
  BY DEF RegistryInv, Live
<1>3. HolderInv'
  BY DEF HolderInv, Live, TypeOK
<1>4. OperationInv'
  BY DEF OperationInv, Live, TypeOK, Unanswered
<1>5. WaiterInv'
  BY DEF WaiterInv, TypeOK
<1>6. SendersCounted'
  <2>1. activeSenders[w] = Cardinality(Holders(w)) /\ activeSenders[w] \in Nat
    BY <1>0 DEF SendersCounted, TypeOK
  <2>2. activeSenders[w] # 0
    BY <1>0, <2>1, HoldersFinite DEF Holders
  <2>3. activeSenders' = [activeSenders EXCEPT ![w] = Cardinality(Holders(w)) - 1]
    <3>1. activeSenders[w] > 0
      BY <2>1, <2>2
    <3>2. activeSenders' = [activeSenders EXCEPT ![w] = activeSenders[w] - 1]
      BY <3>1
    <3>3. QED
      BY <3>2, <2>1
  <2>4. held' = [held EXCEPT ![r] = NoWorker]
    OBVIOUS
  <2>5. QED
    BY <1>0, <2>3, <2>4, LeaveCount
<1>7. QED
  BY <1>1, <1>2, <1>3, <1>4, <1>5, <1>6

\* A worker takes the oldest operation of its queue.
LEMMA TakeInv ==
    ASSUME IndInv, NEW w \in Workers, Take(w) PROVE IndInv'
<1> USE Constants DEF IndInv, Take, registryVars, callerVars
<1>0. /\ Tail(ops[w]) \in Seq(Requests)
      /\ Head(ops[w]) \in Requests
      /\ Elems(ops[w]) = Elems(Tail(ops[w])) \union {Head(ops[w])}
      /\ Distinct(ops[w]) => Distinct(Tail(ops[w])) /\ Head(ops[w]) \notin Elems(Tail(ops[w]))
  BY TailElems DEF TypeOK
<1>a. ops' = [ops EXCEPT ![w] = Tail(ops[w])]
  OBVIOUS
<1>1. TypeOK'
  BY <1>0, <1>a DEF TypeOK, WorkerControl
<1>2. RegistryInv'
  BY DEF RegistryInv, Live, TypeOK
<1>3. HolderInv'
  BY DEF HolderInv, Live, TypeOK
<1>4. OperationInv'
  BY <1>0, <1>a DEF OperationInv, Live, TypeOK, Unanswered
<1>5. WaiterInv'
  <2> SUFFICES ASSUME NEW r \in Requests, rpc[r] = "waiting", result[r] = "empty"
               PROVE  r \in Elems(ops'[held[r]]) \/ current'[held[r]] = r
    BY DEF WaiterInv
  <2>1. held[r] \in Workers
    BY DEF HolderInv, TypeOK
  <2>2. r \in Elems(ops[held[r]]) \/ current[held[r]] = r
    BY DEF WaiterInv
  <2>3. CASE held[r] = w
    BY <2>1, <2>2, <2>3, <1>0, <1>a DEF OperationInv, TypeOK
  <2>4. CASE held[r] # w
    BY <2>1, <2>2, <2>4, <1>a DEF TypeOK
  <2>5. QED
    BY <2>3, <2>4
<1>6. SendersCounted'
  BY SameHolders
<1>7. QED
  BY <1>1, <1>2, <1>3, <1>4, <1>5, <1>6

\* A worker answers the operation in hand, and hands it back.
LEMMA ReplyInv ==
    ASSUME IndInv, NEW w \in Workers, wpc[w] \in {"taken", "running"},
           NEW res \in Results, res # "empty", Reply(w, res),
           UNCHANGED <<registryVars, ops, callerVars>>
    PROVE  IndInv'
<1> USE Constants DEF IndInv, Reply, registryVars, callerVars
<1> DEFINE r == current[w]
<1>0. r \in Requests
  BY DEF OperationInv, TypeOK
<1>1. TypeOK'
  BY <1>0 DEF TypeOK, WorkerControl
<1>2. RegistryInv'
  BY DEF RegistryInv, Live, TypeOK
<1>3. HolderInv'
  BY DEF HolderInv, Live, TypeOK
<1>4. OperationInv'
  <2>1. ASSUME NEW v \in Workers, v # w PROVE r \notin Elems(ops[v]) /\ current[v] # r
    <3>1. ChunkOf[r] = workerChunk[w] /\ registry[ChunkOf[r]] = w
      BY <1>0 DEF OperationInv, RegistryInv, Live
    <3>2. SUFFICES ASSUME r \in Elems(ops[v]) \/ current[v] = r PROVE FALSE
      OBVIOUS
    <3>3. Live(v)
      BY <1>0, <3>2, EmptyElems DEF OperationInv, Live
    <3>4. registry[ChunkOf[r]] = v
      BY <1>0, <3>2, <3>3 DEF OperationInv, RegistryInv
    <3>5. QED
      BY <2>1, <3>1, <3>4
  <2>2. r \notin Elems(ops[w])
    BY DEF OperationInv
  <2>3. NoRequest \notin Elems(ops[w])
    BY DEF TypeOK, Elems
  <2>4. QED
    BY <1>0, <2>1, <2>2, <2>3 DEF OperationInv, TypeOK, Live, Unanswered
<1>5. WaiterInv'
  <2>1. rpc[r] # "sending"
    BY <1>0 DEF OperationInv, Unanswered
  <2>2. QED
    BY <1>0, <2>1 DEF WaiterInv, TypeOK
<1>6. SendersCounted'
  BY SameHolders
<1>7. QED
  BY <1>1, <1>2, <1>3, <1>4, <1>5, <1>6

\* Only the control of a worker changes, between two live points at which it
\* has, or has not, an operation in hand.
LEMMA WorkerControlInv ==
    ASSUME IndInv, NEW w \in Workers, Live(w),
           NEW p \in WorkerControl, p # "none",
           p \in {"taken", "running"} <=> wpc[w] \in {"taken", "running"},
           wpc' = [wpc EXCEPT ![w] = p],
           UNCHANGED <<registryVars, ops, current, callerVars, result>>
    PROVE  IndInv'
<1> USE DEF IndInv, registryVars, callerVars
<1>1. TypeOK'
  BY DEF TypeOK
<1>2. RegistryInv'
  BY DEF RegistryInv, Live, TypeOK
<1>3. HolderInv'
  BY DEF HolderInv, Live, TypeOK
<1>4. OperationInv'
  BY DEF OperationInv, Live, TypeOK, Unanswered
<1>5. WaiterInv'
  BY DEF WaiterInv
<1>6. SendersCounted'
  BY SameHolders
<1>7. QED
  BY <1>1, <1>2, <1>3, <1>4, <1>5, <1>6

\* A worker that nobody holds and whose queue is empty leaves the registry.
LEMMA RemoveIdleInv ==
    ASSUME IndInv, NEW w \in Workers, RemoveIdle(w) PROVE IndInv'
<1> USE Constants DEF IndInv, RemoveIdle, callerVars
<1> DEFINE c == workerChunk[w]
<1>0. /\ Live(w) /\ c \in Chunks /\ registry[c] = w
      /\ activeSenders[w] = 0 /\ ops[w] = <<>>
  BY DEF RegistryInv, Live, InUse, TypeOK
<1>a. \A r \in Requests : held[r] # w
  <2>1. Cardinality(Holders(w)) = 0
    BY <1>0 DEF SendersCounted
  <2>2. QED
    BY <2>1, HoldersFinite DEF Holders
<1>b. registry' = [registry EXCEPT ![c] = NoWorker]
  BY <1>0
<1>c. current[w] = NoRequest
  BY DEF OperationInv
<1>1. TypeOK'
  BY <1>b DEF TypeOK, WorkerControl
<1>2. RegistryInv'
  BY <1>0, <1>b DEF RegistryInv, Live, TypeOK
<1>3. HolderInv'
  BY <1>a DEF HolderInv, Live, TypeOK
<1>4. OperationInv'
  <2>1. Elems(ops[w]) = {}
    BY <1>0, EmptyElems
  <2>2. QED
    BY <1>0, <1>c, <2>1 DEF OperationInv, Live, TypeOK, Unanswered
<1>5. WaiterInv'
  BY DEF WaiterInv
<1>6. SendersCounted'
  BY SameHolders
<1>7. QED
  BY <1>1, <1>2, <1>3, <1>4, <1>5, <1>6

\* Every step preserves the invariant.
LEMMA NextInv == IndInv /\ [Next]_vars => IndInv'
<1> SUFFICES ASSUME IndInv, [Next]_vars PROVE IndInv'
  OBVIOUS
<1>1. ASSUME NEW r \in Requests, CallerStep(r) PROVE IndInv'
  BY <1>1, RejectCancelledInv, AcquireInv, SendInv, GiveUpInv, ReceiveInv, ReleaseInv
     DEF CallerStep
<1>2. ASSUME NEW w \in Workers, WorkerStep(w) PROVE IndInv'
  <2>1. CASE Take(w)
    BY <2>1, TakeInv
  <2>2. CASE Refuse(w)
    BY <2>2, ReplyInv DEF Refuse, Results
  <2>3. CASE Begin(w)
    BY <2>3, WorkerControlInv DEF Begin, Live, WorkerControl
  <2>4. CASE Finish(w)
    BY <2>4, ReplyInv DEF Finish, Results
  <2>5. CASE IdleTimeout(w)
    BY <2>5, WorkerControlInv DEF IdleTimeout, Live, WorkerControl
  <2>6. CASE RemoveIdle(w)
    BY <2>6, RemoveIdleInv
  <2>7. CASE KeepWorker(w)
    BY <2>7, WorkerControlInv DEF KeepWorker, Live, WorkerControl
  <2>8. QED
    BY <1>2, <2>1, <2>2, <2>3, <2>4, <2>5, <2>6, <2>7 DEF WorkerStep
<1>3. CASE UNCHANGED vars
  <2>1. UNCHANGED <<registryVars, workerVars, callerVars, result>>
    BY <1>3 DEF vars
  <2>2. TypeOK' /\ RegistryInv' /\ HolderInv' /\ OperationInv' /\ WaiterInv'
    BY <2>1 DEF IndInv, TypeOK, RegistryInv, HolderInv, OperationInv, WaiterInv,
                Live, Unanswered, registryVars, workerVars, callerVars
  <2>3. SendersCounted'
    BY <2>1, SameHolders DEF IndInv, registryVars, callerVars
  <2>4. QED
    BY <2>2, <2>3 DEF IndInv
<1>4. QED
  BY <1>1, <1>2, <1>3, ArriveInv, CancelContextInv DEF Next

-----------------------------------------------------------------------------
(* The theorems *)

\* The registry, the workers, the callers and the operations agree in every
\* reachable state of chunk_service.go's lines 577-688.
THEOREM InductiveInvariant == Spec => []IndInv
<1>1. QED
  BY InitInv, NextInv, PTL DEF Spec

\* Every variable keeps its shape.
THEOREM TypeCorrect == Spec => []TypeOK
<1>1. IndInv => TypeOK
  BY DEF IndInv
<1>2. QED
  BY <1>1, InductiveInvariant, PTL

\* The bodies of open and flag (openCellInWorker, flagCellInWorker) never run
\* twice at a time for one chunk: two workers that run operations of the same
\* chunk are both the one registered for it.
THEOREM Serialization == Spec => []Serialized
<1>1. IndInv => Serialized
  <2> SUFFICES ASSUME IndInv,
                      NEW v \in Workers, NEW w \in Workers,
                      wpc[v] = "running", wpc[w] = "running",
                      ChunkOf[current[v]] = ChunkOf[current[w]]
               PROVE  v = w
    BY DEF Serialized
  <2> USE DEF IndInv
  <2>1. current[v] \in Requests /\ current[w] \in Requests
    BY DEF OperationInv, TypeOK
  <2>2. workerChunk[v] = workerChunk[w]
    BY <2>1 DEF OperationInv
  <2>3. registry[workerChunk[v]] = v /\ registry[workerChunk[w]] = w
    BY DEF RegistryInv, Live
  <2>4. QED
    BY <2>2, <2>3
<1>2. QED
  BY <1>1, InductiveInvariant, PTL

\* A worker's retirement strands no operation: a caller that waits for its
\* result has been answered, or its operation is with the live worker that is
\* registered for its chunk.
THEOREM NothingStranded == Spec => []NoStrandedOperation
<1>1. IndInv => NoStrandedOperation
  <2> SUFFICES ASSUME IndInv, NEW r \in Requests, rpc[r] = "waiting", result[r] = "empty"
               PROVE  LET w == registry[ChunkOf[r]] IN
                      w # NoWorker /\ Live(w) /\ (r \in Queued(w) \/ current[w] = r)
    BY DEF NoStrandedOperation
  <2> USE DEF IndInv
  <2>1. held[r] \in Workers /\ Live(held[r]) /\ workerChunk[held[r]] = ChunkOf[r]
    BY DEF HolderInv, TypeOK
  <2>2. registry[ChunkOf[r]] = held[r]
    BY <2>1 DEF RegistryInv
  <2>3. r \in Elems(ops[held[r]]) \/ current[held[r]] = r
    BY DEF WaiterInv
  <2>4. QED
    BY <2>1, <2>2, <2>3, Constants DEF Queued
<1>2. QED
  BY <1>1, InductiveInvariant, PTL

\* activeSenders is the number of callers between acquire and release, so the
\* idle test of removeIdleChunkWorker is exact.
THEOREM SendersExact == Spec => []SendersCounted
<1>1. IndInv => SendersCounted
  BY DEF IndInv
<1>2. QED
  BY <1>1, InductiveInvariant, PTL

\* The capacity of one of op.result is enough: no worker ever blocks on a
\* caller that left.
THEOREM ReplyRoom == Spec => []ReplyNeverBlocks
<1>1. IndInv => ReplyNeverBlocks
  <2> SUFFICES ASSUME IndInv, NEW w \in Workers, wpc[w] \in {"taken", "running"}
               PROVE  result[current[w]] = "empty"
    BY DEF ReplyNeverBlocks
  <2>1. current[w] \in Requests
    BY DEF IndInv, OperationInv, TypeOK
  <2>2. QED
    BY <2>1 DEF IndInv, OperationInv, Unanswered
<1>2. QED
  BY <1>1, InductiveInvariant, PTL

-----------------------------------------------------------------------------
(* Refinement *)

\* What the abstract chunk of ChunkSerial sees of the workers.
PendingOf   == [c \in Chunks |-> Abstract(c, <<>>, ops)]
ExecutingOf == [c \in Chunks |-> Abstract(c, NoRequest, current)]

\* A live worker is the one its chunk sees; a chunk without one sees nothing.
LEMMA WorkerSeen ==
    ASSUME IndInv, NEW w \in Workers, Live(w)
    PROVE  /\ workerChunk[w] \in Chunks /\ registry[workerChunk[w]] = w
           /\ PendingOf[workerChunk[w]] = ops[w]
           /\ ExecutingOf[workerChunk[w]] = current[w]
           /\ \A c \in Chunks : c # workerChunk[w] => registry[c] # w
<1>1. workerChunk[w] \in Chunks /\ registry[workerChunk[w]] = w
  BY DEF IndInv, RegistryInv
<1>2. QED
  BY <1>1, Constants DEF PendingOf, ExecutingOf, Abstract, IndInv, RegistryInv

\* Steps of one worker, or of its caller, that leave the registry alone change
\* what one chunk sees.
LEMMA WorkerChanges ==
    ASSUME IndInv, NEW w \in Workers, Live(w), registry' = registry,
           NEW s, ops' = [ops EXCEPT ![w] = s],
           NEW r, current' = [current EXCEPT ![w] = r]
    PROVE  /\ PendingOf' = [PendingOf EXCEPT ![workerChunk[w]] = s]
           /\ ExecutingOf' = [ExecutingOf EXCEPT ![workerChunk[w]] = r]
<1>1. /\ workerChunk[w] \in Chunks /\ registry[workerChunk[w]] = w
      /\ \A c \in Chunks : c # workerChunk[w] => registry[c] # w
  BY WorkerSeen
<1>2. /\ \A c \in Chunks : registry[c] \in Workers \union {NoWorker}
      /\ ops'[w] = s /\ \A v \in Workers : v # w => ops'[v] = ops[v]
      /\ current'[w] = r /\ \A v \in Workers : v # w => current'[v] = current[v]
  BY DEF IndInv, TypeOK
<1>3. ASSUME NEW c \in Chunks
      PROVE  /\ Abstract(c, <<>>, ops)' = IF c = workerChunk[w] THEN s ELSE Abstract(c, <<>>, ops)
             /\ Abstract(c, NoRequest, current)' =
                    IF c = workerChunk[w] THEN r ELSE Abstract(c, NoRequest, current)
  BY <1>1, <1>2, Constants DEF Abstract
<1>4. QED
  BY <1>1, <1>3 DEF PendingOf, ExecutingOf

\* A chunk sees no difference between having no worker and having an idle one.
LEMMA RegistryChanges ==
    ASSUME IndInv, NEW w \in Workers, NEW c \in Chunks,
           \A d \in Chunks : registry[d] = w => d = c,
           \/ registry[c] = NoWorker /\ registry' = [registry EXCEPT ![c] = w]
           \/ registry[c] = w /\ registry' = [registry EXCEPT ![c] = NoWorker],
           ops[w] = <<>>, ops' = [ops EXCEPT ![w] = <<>>],
           current[w] = NoRequest, current' = current
    PROVE  PendingOf' = PendingOf /\ ExecutingOf' = ExecutingOf
<1>1. /\ \A d \in Chunks : registry[d] \in Workers \union {NoWorker} /\ (d # c => registry'[d] = registry[d])
      /\ \/ registry[c] = NoWorker /\ registry'[c] = w
         \/ registry[c] = w /\ registry'[c] = NoWorker
      /\ \A v \in Workers : ops'[v] = ops[v]
  BY DEF IndInv, TypeOK
<1>2. ASSUME NEW d \in Chunks
      PROVE  /\ Abstract(d, <<>>, ops)' = Abstract(d, <<>>, ops)
             /\ Abstract(d, NoRequest, current)' = Abstract(d, NoRequest, current)
  BY <1>1, Constants DEF Abstract
<1>3. QED
  BY <1>2 DEF PendingOf, ExecutingOf

\* Steps that a chunk does not see.
LEMMA Unseen ==
    UNCHANGED <<registry, ops, current>> => PendingOf' = PendingOf /\ ExecutingOf' = ExecutingOf
  BY DEF PendingOf, ExecutingOf, Abstract

\* A send is the acceptance of the operation: nobody has it, and it has no answer.
LEMMA SendAccepts ==
    ASSUME IndInv, NEW r \in Requests, Send(r)
    PROVE  Serial!Accept(r)
<1> DEFINE w == held[r]
<1>1. /\ w \in Workers /\ Live(w) /\ workerChunk[w] = ChunkOf[r] /\ rpc[r] = "sending"
      /\ result[r] = "empty"
  BY DEF Send, IndInv, HolderInv, WaiterInv, TypeOK
<1>2. /\ PendingOf[ChunkOf[r]] = ops[w] /\ ExecutingOf[ChunkOf[r]] = current[w]
      /\ ChunkOf[r] \in Chunks
  BY <1>1, WorkerSeen
<1>3. r \notin Elems(ops[w]) /\ current[w] # r
  BY <1>1 DEF IndInv, OperationInv, Unanswered
<1>4. ~Serial!Outstanding(r)
  BY <1>2, <1>3 DEF Serial!Outstanding, PendingOf, ExecutingOf, Elems
<1>5. current' = [current EXCEPT ![w] = current[w]]
  BY <1>1 DEF Send, IndInv, TypeOK
<1>6. /\ PendingOf' = [PendingOf EXCEPT ![ChunkOf[r]] = Append(ops[w], r)]
      /\ ExecutingOf' = [ExecutingOf EXCEPT ![ChunkOf[r]] = current[w]]
  <2> DEFINE s == Append(ops[w], r)
  <2>1. ops' = [ops EXCEPT ![w] = s] /\ registry' = registry
    BY DEF Send, registryVars
  <2> HIDE DEF s, w
  <2>2. /\ PendingOf' = [PendingOf EXCEPT ![workerChunk[w]] = s]
        /\ ExecutingOf' = [ExecutingOf EXCEPT ![workerChunk[w]] = current[w]]
    BY <1>1, <1>5, <2>1, WorkerChanges
  <2>3. QED
    BY <1>1, <2>2 DEF s
<1>7. ExecutingOf' = ExecutingOf
  BY <1>2, <1>6 DEF ExecutingOf
<1>8. result' = result
  BY DEF Send
<1>9. QED
  BY <1>1, <1>2, <1>4, <1>6, <1>7, <1>8 DEF Serial!Accept, PendingOf, ExecutingOf

\* The worker takes the oldest operation of its chunk.
LEMMA TakeStarts ==
    ASSUME IndInv, NEW w \in Workers, Take(w)
    PROVE  \E c \in Chunks : Serial!Start(c)
<1> DEFINE c == workerChunk[w]
<1>1. Live(w) /\ ops[w] # <<>> /\ current[w] = NoRequest
  BY DEF Take, Live, IndInv, OperationInv
<1>2. /\ c \in Chunks
      /\ PendingOf[c] = ops[w] /\ ExecutingOf[c] = NoRequest
  BY <1>1, WorkerSeen
<1>3. /\ PendingOf' = [PendingOf EXCEPT ![c] = Tail(ops[w])]
      /\ ExecutingOf' = [ExecutingOf EXCEPT ![c] = Head(ops[w])]
      /\ result' = result
  <2>1. /\ ops' = [ops EXCEPT ![w] = Tail(ops[w])]
        /\ current' = [current EXCEPT ![w] = Head(ops[w])]
        /\ registry' = registry /\ result' = result
    BY DEF Take, registryVars
  <2>2. QED
    BY <1>1, <2>1, WorkerChanges
<1> HIDE DEF c
<1>4. Serial!Start(c)
  BY <1>1, <1>2, <1>3 DEF Serial!Start, PendingOf, ExecutingOf
<1>5. QED
  BY <1>2, <1>4

\* An operation that is refused or finished is answered, and its chunk is free.
LEMMA ReplyAnswers ==
    ASSUME IndInv, NEW w \in Workers, Refuse(w) \/ Finish(w)
    PROVE  \E c \in Chunks : Serial!Answer(c)
<1> DEFINE c == workerChunk[w]
<1>1. Live(w) /\ current[w] # NoRequest
  BY DEF Refuse, Finish, Live, IndInv, OperationInv
<1>2. /\ c \in Chunks
      /\ PendingOf[c] = ops[w] /\ ExecutingOf[c] = current[w]
  BY <1>1, WorkerSeen
<1>3. /\ ops' = ops /\ registry' = registry
      /\ current' = [current EXCEPT ![w] = NoRequest]
      /\ \E a \in Serial!Answers : result' = [result EXCEPT ![current[w]] = a]
  BY DEF Refuse, Finish, Reply, registryVars, Serial!Answers
<1>4. /\ PendingOf' = [PendingOf EXCEPT ![c] = ops[w]]
      /\ ExecutingOf' = [ExecutingOf EXCEPT ![c] = NoRequest]
  <2>1. ops' = [ops EXCEPT ![w] = ops[w]]
    BY <1>3 DEF IndInv, TypeOK
  <2>2. registry' = registry /\ current' = [current EXCEPT ![w] = NoRequest]
    BY <1>3
  <2>3. QED
    BY <1>1, <2>1, <2>2, WorkerChanges
<1>5. PendingOf' = PendingOf
  BY <1>2, <1>4 DEF PendingOf
<1> HIDE DEF c
<1>6. Serial!Answer(c)
  BY <1>1, <1>2, <1>3, <1>4, <1>5 DEF Serial!Answer, PendingOf, ExecutingOf
<1>7. QED
  BY <1>2, <1>6

\* A caller that acquires a worker may forget an answer that nobody collected; a
\* worker that starts or ends has no operation.
LEMMA AcquireCollects ==
    ASSUME IndInv, NEW r \in Requests, Acquire(r)
    PROVE  Serial!Collect(r) \/ UNCHANGED Serial!vars
<1>1. PendingOf' = PendingOf /\ ExecutingOf' = ExecutingOf
  <2>1. CASE ReuseWorker(r)
    BY <2>1, Unseen DEF ReuseWorker, workerVars
  <2>2. CASE SpawnWorker(r)
    <3>1. PICK w \in Workers :
            /\ Unreferenced(w) /\ registry[ChunkOf[r]] = NoWorker
            /\ registry' = [registry EXCEPT ![ChunkOf[r]] = w]
            /\ ops' = [ops EXCEPT ![w] = <<>>] /\ current' = current
      BY <2>2 DEF SpawnWorker
    <3>2. ops[w] = <<>> /\ current[w] = NoRequest /\ \A d \in Chunks : registry[d] # w
      BY <3>1 DEF Unreferenced, Live, IndInv, OperationInv
    <3>3. QED
      BY <3>1, <3>2, Constants, RegistryChanges
  <2>3. QED
    BY <2>1, <2>2 DEF Acquire
<1>2. result' = [result EXCEPT ![r] = "empty"] /\ result \in [Requests -> Results]
  BY DEF Acquire, IndInv, TypeOK
<1>3. CASE result[r] = "empty"
  <2>1. result' = result
    BY <1>2, <1>3
  <2>2. QED
    BY <1>1, <2>1 DEF Serial!vars, PendingOf, ExecutingOf
<1>4. CASE result[r] # "empty"
  BY <1>1, <1>2, <1>4 DEF Serial!Collect, PendingOf, ExecutingOf
<1>5. QED
  BY <1>3, <1>4

\* A worker that ends has no operation, and its removal is not seen.
LEMMA RemoveUnseen ==
    ASSUME IndInv, NEW w \in Workers, RemoveIdle(w)
    PROVE  PendingOf' = PendingOf /\ ExecutingOf' = ExecutingOf
<1> DEFINE c == workerChunk[w]
<1>1. Live(w) /\ wpc[w] = "timedOut"
  BY DEF RemoveIdle, Live
<1>2. c \in Chunks /\ registry[c] = w /\ \A d \in Chunks : registry[d] = w => d = c
  BY <1>1, WorkerSeen
<1>3. ops[w] = <<>> /\ ops \in [Workers -> Seq(Requests)] /\ current[w] = NoRequest
  <2>1. ops \in [Workers -> Seq(Requests)] /\ ~(Len(ops[w]) > 0)
    BY <1>2 DEF RemoveIdle, InUse, IndInv, TypeOK
  <2>2. ops[w] = <<>>
    BY <2>1
  <2>3. current[w] = NoRequest
    BY <1>1 DEF IndInv, OperationInv
  <2>4. QED
    BY <2>1, <2>2, <2>3
<1>4. /\ registry' = [registry EXCEPT ![c] = NoWorker]
      /\ ops' = [ops EXCEPT ![w] = <<>>] /\ current' = current
  BY <1>2, <1>3 DEF RemoveIdle, IndInv, TypeOK
<1> HIDE DEF c
<1>5. QED
  BY <1>2, <1>3, <1>4, RegistryChanges

\* Whatever callers and workers do is a step of the abstract chunks or none.
LEMMA StepSimulates ==
    ASSUME IndInv, [Next]_vars
    PROVE  [Serial!Next]_(Serial!vars)
<1>1. ASSUME NEW r \in Requests, Send(r) PROVE Serial!Next
  BY <1>1, SendAccepts DEF Serial!Next
<1>2. ASSUME NEW r \in Requests, Acquire(r) PROVE Serial!Next \/ UNCHANGED Serial!vars
  BY <1>2, AcquireCollects DEF Serial!Next
<1>3. ASSUME NEW r \in Requests, Receive(r) PROVE Serial!Next
  <2>1. /\ result[r] # "empty" /\ result' = [result EXCEPT ![r] = "empty"]
        /\ PendingOf' = PendingOf /\ ExecutingOf' = ExecutingOf
    BY <1>3, Unseen DEF Receive, registryVars, workerVars
  <2>2. Serial!Collect(r)
    BY <2>1 DEF Serial!Collect, PendingOf, ExecutingOf
  <2>3. QED
    BY <2>2 DEF Serial!Next
<1>4. ASSUME NEW w \in Workers, Take(w) PROVE Serial!Next
  BY <1>4, TakeStarts DEF Serial!Next
<1>5. ASSUME NEW w \in Workers, Refuse(w) \/ Finish(w) PROVE Serial!Next
  BY <1>5, ReplyAnswers DEF Serial!Next
<1>6. ASSUME NEW w \in Workers, RemoveIdle(w) PROVE UNCHANGED Serial!vars
  BY <1>6, RemoveUnseen DEF Serial!vars, PendingOf, ExecutingOf, RemoveIdle
<1>7. ASSUME \/ \E r \in Requests : \/ Arrive(r) \/ CancelContext(r) \/ RejectCancelled(r)
                                   \/ GiveUp(r) \/ Release(r)
             \/ \E w \in Workers : Begin(w) \/ IdleTimeout(w) \/ KeepWorker(w)
             \/ UNCHANGED vars
      PROVE  UNCHANGED Serial!vars
  <2>1. UNCHANGED <<registry, ops, current, result>>
    BY <1>7 DEF Arrive, CancelContext, RejectCancelled, GiveUp, Release, Begin, IdleTimeout,
       KeepWorker, vars, registryVars, workerVars
  <2>2. QED
    BY <2>1, Unseen DEF Serial!vars, PendingOf, ExecutingOf
<1>8. QED
  BY <1>1, <1>2, <1>3, <1>4, <1>5, <1>6, <1>7 DEF Next, CallerStep, WorkerStep

\* The workers implement ChunkSerial: though they come and go and callers leave
\* early, a chunk executes what it has accepted one at a time and in order
\* (chunk_service.go 577-688).  This is the safety part of ImplementsSerial.
THEOREM WorkersAreSerial == Spec => Serial!Spec
<1>1. Init => Serial!Init
  BY DEF Init, Serial!Init, Abstract
<1>2. IndInv /\ [Next]_vars => [Serial!Next]_(Serial!vars)
  BY StepSimulates
<1>3. QED
  BY <1>1, <1>2, InductiveInvariant, PTL DEF Spec, Serial!Spec

=============================================================================
