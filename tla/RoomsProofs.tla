---------------------------- MODULE RoomsProofs -----------------------------
(***************************************************************************)
(* Proofs about Rooms, for every set of players and connections and every  *)
(* capacity: the hub knows only open clients and the newest one of each    *)
(* user, and no event of a Ready call contradicts itself.                  *)
(***************************************************************************)
EXTENDS Rooms, TLAPS

\* A connection that was never used is not closed, so that the hub never takes in
\* a closed client.
Fresh == \A c \in Clients : rpc[c] = "none" => c \notin closed

\* A room that plays has every player ready, also as a Ready call saw it; a call
\* has marked its user; nobody's mark is taken back.
CallInv ==
    /\ status = "playing" => ready = Users
    /\ \A u \in Users :
        /\ call[u] # "idle" => u \in ready
        /\ call[u] = "read" =>
            /\ u \in seen[u].ready
            /\ seen[u].ready \subseteq ready
            /\ seen[u].status = "playing" => seen[u].ready = Users

HubInv  == HubOpen /\ NewestInRoom /\ Fresh
RoomInv == TypeOK /\ HubInv /\ CallInv

-----------------------------------------------------------------------------
(* Operations of the hub *)

\* A broadcast evicts and closes the same clients: those that stay are open.
LEMMA DeliverHub ==
    ASSUME TypeOK, HubInv, Deliver, UNCHANGED <<newest, rpc>>
    PROVE  /\ hub' \in [Users -> Clients \union {None}]
           /\ closed' \subseteq Clients
           /\ queued' \in [Clients -> 0 .. Capacity]
           /\ HubInv'
<1> DEFINE full == {c \in Members : queued[c] = Capacity}
<1>1. /\ hub' = [u \in Users |-> IF hub[u] \in full THEN None ELSE hub[u]]
      /\ closed' = closed \union full
      /\ queued' = [c \in Clients |-> IF c \in Members \ full THEN queued[c] + 1 ELSE queued[c]]
  BY DEF Deliver
<1>2. full \subseteq Clients /\ \A c \in full : rpc[c] # "none"
  BY OwnerAssumption, NoneAssumption DEF Members, HubInv, HubOpen
<1>3. queued' \in [Clients -> 0 .. Capacity]
  <2>1. ASSUME NEW c \in Clients PROVE queued'[c] \in 0 .. Capacity
    BY <1>1, CapacityAssumption DEF TypeOK
  <2>2. QED
    BY <1>1, <2>1
<1> HIDE DEF full
<1>4. hub' \in [Users -> Clients \union {None}] /\ closed' \subseteq Clients
  BY <1>1, <1>2 DEF TypeOK
<1>5. HubOpen'
  BY <1>1, <1>4, NoneAssumption DEF HubInv, HubOpen
<1>6. NewestInRoom'
  BY <1>1, <1>4 DEF HubInv, NewestInRoom
<1>7. Fresh'
  BY <1>1, <1>2 DEF HubInv, Fresh
<1>8. QED
  BY <1>3, <1>4, <1>5, <1>6, <1>7 DEF HubInv

-----------------------------------------------------------------------------
(* The inductive invariant *)

\* The invariant holds before the room is made.
LEMMA InitRooms == Init => RoomInv
  BY CapacityAssumption
  DEF Init, RoomInv, TypeOK, HubInv, HubOpen, NewestInRoom, Fresh, CallInv, Status, View, Unseen,
      ReadControl, WriteControl

\* A step of RoomService or of the Ready handler before its broadcast leaves the
\* hub and the clients alone and keeps the invariant.
LEMMA CallKeeps ==
    ASSUME RoomInv,
           CreateRoom \/ \E u \in Users : ReadyPlayer(u) \/ GetRoom(u)
    PROVE  RoomInv'
<1> USE DEF RoomInv
<1>1. UNCHANGED <<hub, newest, closed, queued, conn, rpc, wpc, heard>>
  BY DEF CreateRoom, ReadyPlayer, GetRoom, hubVars
<1>2. HubInv'
  BY <1>1 DEF HubInv, HubOpen, NewestInRoom, Fresh
<1>3. TypeOK' /\ CallInv'
  <2>1. CASE CreateRoom
    BY <1>1, <2>1 DEF CreateRoom, TypeOK, CallInv, Status
  <2>2. ASSUME NEW u \in Users, ReadyPlayer(u) PROVE TypeOK' /\ CallInv'
    <3>1. /\ status = "waiting"
          /\ ready' = ready \union {u}
          /\ status' = IF ready' = Users THEN "playing" ELSE status
          /\ call' = [call EXCEPT ![u] = "marked"]
          /\ seen' = seen
      BY <2>2 DEF ReadyPlayer
    <3>2. TypeOK'
      BY <1>1, <3>1 DEF TypeOK, Status
    <3>3. CallInv'
      BY <3>1 DEF CallInv, TypeOK
    <3>4. QED
      BY <3>2, <3>3
  <2>3. ASSUME NEW u \in Users, GetRoom(u) PROVE TypeOK' /\ CallInv'
    <3>1. /\ call[u] = "marked"
          /\ seen' = [seen EXCEPT ![u] = [status |-> status, ready |-> ready]]
          /\ call' = [call EXCEPT ![u] = "read"]
          /\ UNCHANGED <<status, ready>>
      BY <2>3 DEF GetRoom
    <3>2. [status |-> status, ready |-> ready] \in View
      BY DEF TypeOK, View
    <3>3. TypeOK'
      BY <1>1, <3>1, <3>2 DEF TypeOK
    <3>4. CallInv'
      BY <3>1 DEF CallInv, TypeOK
    <3>5. QED
      BY <3>3, <3>4
  <2>4. QED
    BY <2>1, <2>2, <2>3
<1>4. QED
  BY <1>2, <1>3

\* A client that joins takes its user's place, and one that leaves gives up only
\* its own.
LEMMA JoinLeaveKeep ==
    ASSUME RoomInv, NEW c \in Clients, JoinRoom(c) \/ Leave(c)
    PROVE  RoomInv'
<1> USE DEF RoomInv
<1>1. Owner[c] \in Users /\ c # None
  BY OwnerAssumption, NoneAssumption
<1>2. CallInv'
  BY DEF JoinRoom, Leave, roomVars, CallInv
<1>3. CASE JoinRoom(c)
  <2>1. /\ rpc[c] = "none"
        /\ hub' = [hub EXCEPT ![Owner[c]] = c]
        /\ newest' = [newest EXCEPT ![Owner[c]] = c]
        /\ conn' = conn \union {c}
        /\ rpc' = [rpc EXCEPT ![c] = "reading"]
        /\ wpc' = [wpc EXCEPT ![c] = "writing"]
        /\ UNCHANGED <<roomVars, queued, closed, heard>>
    BY <1>3 DEF JoinRoom, GotoR
  <2>2. TypeOK'
    BY <1>1, <2>1 DEF TypeOK, roomVars, ReadControl, WriteControl
  <2>3. HubOpen'
    BY <1>1, <2>1, NoneAssumption DEF TypeOK, HubInv, HubOpen, Fresh
  <2>4. NewestInRoom' /\ Fresh'
    BY <1>1, <2>1 DEF TypeOK, HubInv, NewestInRoom, Fresh
  <2>5. QED
    BY <1>2, <2>2, <2>3, <2>4 DEF HubInv
<1>4. CASE Leave(c)
  <2>1. /\ rpc[c] = "leaving"
        /\ conn' = conn \ {c}
        /\ rpc' = [rpc EXCEPT ![c] = "done"]
        /\ UNCHANGED <<roomVars, newest, queued, wpc, heard>>
    BY <1>4 DEF Leave, GotoR
  <2>2. CASE hub[Owner[c]] = c
    <3>1. hub' = [hub EXCEPT ![Owner[c]] = None] /\ closed' = closed \union {c}
      BY <1>4, <2>2 DEF Leave, LeaveHub
    <3>2. TypeOK'
      BY <1>1, <2>1, <3>1 DEF TypeOK, roomVars, ReadControl
    <3>3. HubOpen'
      BY <1>1, <2>1, <3>1, NoneAssumption DEF TypeOK, HubInv, HubOpen
    <3>4. NewestInRoom' /\ Fresh'
      BY <1>1, <2>1, <2>2, <3>1, NoneAssumption DEF TypeOK, HubInv, HubOpen, NewestInRoom, Fresh
    <3>5. QED
      BY <1>2, <3>2, <3>3, <3>4 DEF HubInv
  <2>3. CASE hub[Owner[c]] # c
    <3>1. UNCHANGED <<hub, closed>>
      BY <1>4, <2>3 DEF Leave, LeaveHub
    <3>2. TypeOK'
      BY <2>1, <3>1 DEF TypeOK, roomVars, ReadControl
    <3>3. HubInv'
      BY <1>1, <2>1, <2>3, <3>1 DEF TypeOK, HubInv, HubOpen, NewestInRoom, Fresh
    <3>4. QED
      BY <1>2, <3>2, <3>3
  <2>4. QED
    BY <2>2, <2>3
<1>5. QED
  BY <1>3, <1>4

\* The pumps between joining and leaving do not touch the hub.
LEMMA PumpKeeps ==
    ASSUME RoomInv, NEW c \in Clients,
           \/ OtherMessage(c) \/ Answer(c) \/ AnswerPanics(c) \/ ReadFails(c)
           \/ Write(c) \/ WriteFails(c) \/ Drained(c) \/ PingFails(c)
    PROVE  RoomInv'
<1> USE DEF RoomInv
<1>1. /\ UNCHANGED <<status, ready, call, seen, hub, newest, closed, heard>>
      /\ conn' \subseteq Clients
      /\ wpc' \in [Clients -> WriteControl]
  BY DEF OtherMessage, Answer, AnswerPanics, ReadFails, Write, WriteFails, Drained, PingFails,
         EndWrite, roomVars, hubVars, TypeOK, WriteControl
<1>2. queued' \in [Clients -> 0 .. Capacity]
  BY CapacityAssumption
  DEF OtherMessage, Answer, AnswerPanics, ReadFails, Write, WriteFails, Drained, PingFails, TypeOK
<1>3. \/ rpc' = rpc
      \/ /\ rpc[c] \in {"reading", "answering"}
         /\ \E pc \in {"reading", "answering", "leaving"} : rpc' = [rpc EXCEPT ![c] = pc]
  BY DEF OtherMessage, Answer, AnswerPanics, ReadFails, Write, WriteFails, Drained, PingFails, GotoR
<1>4. TypeOK'
  BY <1>1, <1>2, <1>3 DEF TypeOK, ReadControl
<1>5. HubInv'
  BY <1>1, <1>3 DEF TypeOK, HubInv, HubOpen, NewestInRoom, Fresh
<1>6. QED
  BY <1>1, <1>4, <1>5 DEF CallInv

\* Every step keeps the invariant.
LEMMA NextRooms == RoomInv /\ [Next]_vars => RoomInv'
<1> SUFFICES ASSUME RoomInv, [Next]_vars PROVE RoomInv'
  OBVIOUS
<1>1. ASSUME NEW u \in Users, Announce(u) PROVE RoomInv'
  <2>1. /\ Deliver
        /\ call' = [call EXCEPT ![u] = "idle"]
        /\ seen' = [seen EXCEPT ![u] = Unseen]
        /\ UNCHANGED <<status, ready, newest, conn, rpc, wpc>>
    BY <1>1 DEF Announce
  <2>2. heard' \subseteq Clients
    BY <1>1 DEF Announce, Members, RoomInv, TypeOK
  <2>3. Unseen \in View
    BY DEF Unseen, View, Status
  <2>4. TypeOK'
    BY <2>1, <2>2, <2>3, DeliverHub DEF RoomInv, TypeOK
  <2>5. CallInv'
    BY <2>1 DEF RoomInv, CallInv, TypeOK
  <2>6. QED
    BY <2>1, <2>4, <2>5, DeliverHub DEF RoomInv
<1>2. ASSUME NEW c \in Clients, Chat(c) PROVE RoomInv'
  <2>1. Deliver /\ UNCHANGED <<status, ready, call, seen, newest, conn, rpc, wpc, heard>>
    BY <1>2 DEF Chat, roomVars
  <2>2. TypeOK'
    BY <2>1, DeliverHub DEF RoomInv, TypeOK
  <2>3. QED
    BY <2>1, <2>2, DeliverHub DEF RoomInv, CallInv
<1>3. CASE UNCHANGED vars
  BY <1>3 DEF vars, roomVars, hubVars, RoomInv, TypeOK, HubInv, HubOpen, NewestInRoom, Fresh, CallInv
<1>4. QED
  BY <1>1, <1>2, <1>3, CallKeeps, JoinLeaveKeep, PumpKeeps DEF Next

\* The invariant, for every instance.
THEOREM RoomInvariant == Spec => []RoomInv
  BY InitRooms, NextRooms, PTL DEF Spec

\* Every variable keeps its type; no channel holds more than its capacity.
THEOREM RoomTypes == Spec => []TypeOK
<1>1. RoomInv => TypeOK
  BY DEF RoomInv
<1>2. QED
  BY <1>1, RoomInvariant, PTL

\* No broadcast sends on a closed channel, and no channel is closed twice.
THEOREM NoSendOnClosed == Spec => []HubOpen
<1>1. RoomInv => HubOpen
  BY DEF RoomInv, HubInv
<1>2. QED
  BY <1>1, RoomInvariant, PTL

\* Broadcasts reach the newest connection of a user until it is closed.
THEOREM NewestReached == Spec => []NewestInRoom
<1>1. RoomInv => NewestInRoom
  BY DEF RoomInv, HubInv
<1>2. QED
  BY <1>1, RoomInvariant, PTL

\* No event of a Ready call contradicts itself, whatever the other calls do
\* between its three looks at the room.
THEOREM NoContradiction == Spec => []EventsTrue
<1>1. RoomInv => EventsTrue
  <2> SUFFICES ASSUME RoomInv, NEW u \in Users, call[u] = "read"
               PROVE  /\ Encodings(u) # {}
                      /\ \A e \in Encodings(u) :
                            u \in e.ready /\ (e.status = "playing" => e.ready = Users)
    BY DEF EventsTrue
  <2>1. /\ u \in seen[u].ready
        /\ seen[u].ready \subseteq ready
        /\ seen[u].status = "playing" => seen[u].ready = Users
        /\ seen[u] \in View
    BY DEF RoomInv, CallInv, TypeOK
  <2>2. seen[u] \in Encodings(u)
    BY <2>1 DEF Encodings
  <2>3. ASSUME NEW e \in Encodings(u)
        PROVE  u \in e.ready /\ (e.status = "playing" => e.ready = Users)
    BY <2>1 DEF Encodings, View, RoomInv, TypeOK
  <2>4. QED
    BY <2>2, <2>3
<1>2. QED
  BY <1>1, RoomInvariant, PTL

=============================================================================
