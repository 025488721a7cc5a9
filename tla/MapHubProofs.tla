---------------------------- MODULE MapHubProofs ----------------------------
(***************************************************************************)
(* Proofs about MapHub, for every set of clients and chunks and every      *)
(* capacity: the two maps of the hub agree, and a client that is gone is   *)
(* subscribed to nothing, however evicted clients come back.               *)
(***************************************************************************)
EXTENDS MapHub, TLAPS

\* IndexAgrees and NoGhosts are inductive once the types are known.
HubInv == TypeOK /\ IndexAgrees /\ NoGhosts

-----------------------------------------------------------------------------
(* Operations of the hub *)

\* removeClientLocked takes the clients of C out of both maps and keeps them in
\* agreement.
LEMMA RemoveKeeps ==
    ASSUME TypeOK, IndexAgrees, NEW C \in SUBSET Clients, Remove(C)
    PROVE  /\ chunks' \in [Chunks -> SUBSET Clients]
           /\ clients' \in [Clients -> SUBSET Chunks]
           /\ IndexAgrees'
           /\ \A c \in Clients : clients'[c] \subseteq clients[c]
           /\ \A c \in C : clients'[c] = {}
  BY DEF TypeOK, IndexAgrees, Remove

\* A delivery to some clients, with its evictions, keeps the hub's maps in
\* agreement and the channels within their capacity; it closes channels and opens
\* none.
LEMMA DeliverKeeps ==
    ASSUME TypeOK, IndexAgrees, NEW T \in SUBSET Clients, Deliver(T)
    PROVE  /\ chunks' \in [Chunks -> SUBSET Clients]
           /\ clients' \in [Clients -> SUBSET Chunks]
           /\ IndexAgrees'
           /\ \A c \in Clients : clients'[c] \subseteq clients[c]
           /\ closed \subseteq closed' /\ closed' \subseteq Clients
           /\ queued' \in [Clients -> 0 .. Capacity]
<1> DEFINE full == {c \in T : queued[c] = Capacity}
<1>1. full \in SUBSET Clients
  OBVIOUS
<1>2. Remove(full) /\ closed' = closed \union full
  BY DEF Deliver
<1>3. queued' \in [Clients -> 0 .. Capacity]
  <2>1. queued' = [c \in Clients |-> IF c \in T \ full THEN queued[c] + 1 ELSE queued[c]]
    BY DEF Deliver
  <2>2. ASSUME NEW c \in Clients PROVE queued'[c] \in 0 .. Capacity
    BY <2>1, CapacityAssumption DEF TypeOK
  <2>3. QED
    BY <2>1, <2>2
<1>4. closed \subseteq closed' /\ closed' \subseteq Clients
  BY <1>1, <1>2 DEF TypeOK
<1> HIDE DEF full
<1>5. QED
  BY <1>1, <1>2, <1>3, <1>4, RemoveKeeps

\* ReplaceSubscriptions writes both maps alike.
LEMMA ReplaceKeeps ==
    ASSUME TypeOK, IndexAgrees, NEW c \in Clients, NEW S \in SUBSET Chunks, ReplaceSubscriptions(c, S)
    PROVE  /\ chunks' \in [Chunks -> SUBSET Clients]
           /\ clients' \in [Clients -> SUBSET Chunks]
           /\ IndexAgrees'
           /\ \A d \in Clients \ {c} : clients'[d] = clients[d]
<1>1. chunks' = [ch \in Chunks |-> IF ch \in S THEN chunks[ch] \union {c} ELSE chunks[ch] \ {c}]
  BY DEF ReplaceSubscriptions
<1>2. clients' = [clients EXCEPT ![c] = S]
  BY DEF ReplaceSubscriptions
<1>3. chunks' \in [Chunks -> SUBSET Clients]
  BY <1>1 DEF TypeOK
<1>4. clients' \in [Clients -> SUBSET Chunks]
  BY <1>2 DEF TypeOK
<1>5. ASSUME NEW d \in Clients, NEW ch \in Chunks PROVE d \in chunks'[ch] <=> ch \in clients'[d]
  <2>1. CASE d = c
    BY <1>1, <1>2, <2>1 DEF TypeOK
  <2>2. CASE d # c
    BY <1>1, <1>2, <2>2 DEF TypeOK, IndexAgrees
  <2>3. QED
    BY <2>1, <2>2
<1>6. QED
  BY <1>2, <1>3, <1>4, <1>5 DEF IndexAgrees, TypeOK

-----------------------------------------------------------------------------
(* The inductive invariant *)

\* The invariant holds at first.
LEMMA InitHub == Init => HubInv
  BY CapacityAssumption
  DEF Init, HubInv, TypeOK, IndexAgrees, NoGhosts, ReadControl, WriteControl

\* Every step keeps it.
LEMMA NextHub == HubInv /\ [Next]_vars => HubInv'
<1> SUFFICES ASSUME HubInv, [Next]_vars PROVE HubInv'
  OBVIOUS
<1> USE DEF HubInv
<1>1. ASSUME NEW ch \in Chunks, Broadcast(ch) PROVE HubInv'
  <2>1. chunks[ch] \in SUBSET Clients /\ Deliver(chunks[ch])
    BY <1>1 DEF Broadcast, TypeOK
  <2>2. UNCHANGED <<conn, rpc, wpc, missed>>
    BY <1>1 DEF Broadcast
  <2>3. TypeOK'
    BY <2>1, <2>2, DeliverKeeps DEF TypeOK
  <2>4. NoGhosts'
    BY <2>1, <2>2, DeliverKeeps DEF NoGhosts
  <2>5. QED
    BY <2>1, <2>3, <2>4, DeliverKeeps
<1>2. ASSUME NEW ch \in Chunks, BroadcastPanics(ch) PROVE HubInv'
  <2>1. PICK T \in SUBSET (chunks[ch] \ closed) :
            Deliver(T) /\ missed' = missed \union (chunks[ch] \ (closed \union T))
    BY <1>2 DEF BroadcastPanics
  <2>2. T \in SUBSET Clients /\ missed' \subseteq Clients
    BY <2>1 DEF TypeOK
  <2>3. UNCHANGED <<conn, rpc, wpc>>
    BY <1>2 DEF BroadcastPanics
  <2>4. TypeOK'
    BY <2>1, <2>2, <2>3, DeliverKeeps DEF TypeOK
  <2>5. NoGhosts'
    BY <2>1, <2>2, <2>3, DeliverKeeps DEF NoGhosts
  <2>6. QED
    BY <2>1, <2>2, <2>4, <2>5, DeliverKeeps
<1>3. ASSUME NEW c \in Clients, NEW S \in SUBSET Chunks, Subscribe(c, S) PROVE HubInv'
  <2>1. /\ rpc[c] = "reading"
        /\ ReplaceSubscriptions(c, S)
        /\ rpc' = [rpc EXCEPT ![c] = "answering"]
        /\ UNCHANGED <<queued, closed, conn, wpc, missed>>
    BY <1>3 DEF Subscribe, GotoR
  <2>2. TypeOK'
    BY <2>1, ReplaceKeeps DEF TypeOK, ReadControl
  <2>3. NoGhosts'
    BY <2>1, ReplaceKeeps DEF NoGhosts, TypeOK
  <2>4. QED
    BY <2>1, <2>2, <2>3, ReplaceKeeps
<1>4. ASSUME NEW c \in Clients, Leave(c) PROVE HubInv'
  <2>1. /\ Remove({c})
        /\ closed' = closed \union {c}
        /\ conn' = conn \ {c}
        /\ rpc' = [rpc EXCEPT ![c] = "done"]
        /\ UNCHANGED <<queued, wpc, missed>>
    BY <1>4 DEF Leave, GotoR
  <2>2. TypeOK'
    BY <2>1, RemoveKeeps DEF TypeOK, ReadControl
  <2>3. NoGhosts'
    BY <2>1, RemoveKeeps DEF NoGhosts, TypeOK
  <2>4. QED
    BY <2>1, <2>2, <2>3, RemoveKeeps
<1>5. ASSUME NEW c \in Clients,
             Join(c) \/ OtherMessage(c) \/ Answer(c) \/ AnswerPanics(c) \/ ReadFails(c)
      PROVE  HubInv'
  <2>1. /\ UNCHANGED <<hubVars, missed>>
        /\ conn' \subseteq Clients
        /\ wpc' \in [Clients -> WriteControl]
    BY <1>5 DEF Join, OtherMessage, Answer, AnswerPanics, ReadFails, TypeOK, WriteControl
  <2>2. PICK pc \in ReadControl \ {"done"} : rpc' = [rpc EXCEPT ![c] = pc]
    BY <1>5 DEF Join, OtherMessage, Answer, AnswerPanics, ReadFails, GotoR, ReadControl
  <2>3. queued' \in [Clients -> 0 .. Capacity]
    BY <1>5, CapacityAssumption DEF Join, OtherMessage, Answer, AnswerPanics, ReadFails, TypeOK
  <2>4. TypeOK'
    BY <2>1, <2>2, <2>3 DEF TypeOK, hubVars
  <2>5. IndexAgrees' /\ NoGhosts'
    BY <2>1, <2>2 DEF IndexAgrees, NoGhosts, TypeOK, hubVars
  <2>6. QED
    BY <2>4, <2>5
<1>6. ASSUME NEW c \in Clients, WriteStep(c) \/ PingFails(c) PROVE HubInv'
  <2>1. /\ UNCHANGED <<hubVars, rpc, missed>>
        /\ conn' \subseteq Clients
        /\ wpc' \in [Clients -> WriteControl]
    BY <1>6 DEF WriteStep, Write, WriteFails, Drained, PingFails, EndWrite, TypeOK, WriteControl
  <2>2. queued' \in [Clients -> 0 .. Capacity]
    BY <1>6, CapacityAssumption DEF WriteStep, Write, WriteFails, Drained, PingFails, TypeOK
  <2>3. QED
    BY <2>1, <2>2 DEF TypeOK, IndexAgrees, NoGhosts, hubVars
<1>7. CASE UNCHANGED vars
  BY <1>7 DEF vars, hubVars, TypeOK, IndexAgrees, NoGhosts
<1>8. QED
  BY <1>1, <1>2, <1>3, <1>4, <1>5, <1>6, <1>7 DEF Next, ReadStep

\* The invariant, for every instance.
THEOREM HubInvariant == Spec => []HubInv
  BY InitHub, NextHub, PTL DEF Spec

\* Every variable keeps its type; no channel holds more than its capacity.
THEOREM HubTypes == Spec => []TypeOK
<1>1. HubInv => TypeOK
  BY DEF HubInv
<1>2. QED
  BY <1>1, HubInvariant, PTL

\* The hub's two maps agree through subscriptions, evictions, panics and the
\* return of evicted clients.
THEOREM MapsAgree == Spec => []IndexAgrees
<1>1. HubInv => IndexAgrees
  BY DEF HubInv
<1>2. QED
  BY <1>1, HubInvariant, PTL

\* A client whose ReadPump has ended is subscribed to nothing.
THEOREM NobodyLeftBehind == Spec => []NoGhosts
<1>1. HubInv => NoGhosts
  BY DEF HubInv
<1>2. QED
  BY <1>1, HubInvariant, PTL

=============================================================================
