------------------------------- MODULE Rooms -------------------------------
(***************************************************************************)
(* One room: RoomService (internal/service/room_service.go), the Ready     *)
(* handler (internal/handler/room_handler.go), RoomHub and its clients     *)
(* (internal/ws/room_hub.go, internal/ws/client.go) and JoinRoom           *)
(* (internal/handler/ws_handler.go).  Rooms share nothing but locks.       *)
(*                                                                         *)
(* A Ready call marks its user under the service's mutex, reads the room   *)
(* under the mutex again, and then, without it, encodes what it read and   *)
(* broadcasts it.  The status it read is a copy, the players are the live  *)
(* ones, so the flags are those of the moments at which they are encoded.  *)
(*                                                                         *)
(* A client is a connection of a user, with the two pumps of MapHub.  The  *)
(* hub knows one client per user: a user who connects again replaces the   *)
(* old client there, whose pumps go on.  A channel is the number of        *)
(* messages it holds.                                                      *)
(***************************************************************************)
EXTENDS Naturals

CONSTANTS
    Users,      \* the players of the room
    Clients,    \* connections, each used once
    Owner,      \* the user of each connection
    Capacity,   \* of the Send channel (256 in the program)
    None

ASSUME OwnerAssumption    == Owner \in [Clients -> Users]
ASSUME CapacityAssumption == Capacity \in Nat \ {0}
ASSUME NoneAssumption     == None \notin Clients

VARIABLES
    status,     \* of the room in RoomService, "none" before CreateRoom
    ready,      \* the players marked ready
    call,       \* control of each user's Ready call
    seen,       \* the status and the players that were ready when it read the room
    hub,        \* seg.rooms: the client of each user
    newest,     \* history: the client of each user that joined last
    queued,     \* the messages in each client's Send channel
    closed,     \* the clients whose Send channel is closed
    conn,       \* the clients whose connection is open
    rpc, wpc,   \* control of ReadPump and WritePump
    heard       \* history: clients given an event that says "playing"

roomVars == <<status, ready, call, seen>>
hubVars  == <<hub, newest, closed>>
vars     == <<roomVars, hubVars, queued, conn, rpc, wpc, heard>>

-----------------------------------------------------------------------------
(* Types *)

Status       == {"none", "waiting", "playing"}
View         == [status : Status, ready : SUBSET Users]
ReadControl  == {"none", "reading", "answering", "leaving", "done"}
WriteControl == {"none", "writing", "done"}

\* The shape of every variable.
TypeOK ==
    /\ status \in Status
    /\ ready \subseteq Users
    /\ call \in [Users -> {"idle", "marked", "read"}]
    /\ seen \in [Users -> View]
    /\ hub \in [Users -> Clients \union {None}]
    /\ newest \in [Users -> Clients \union {None}]
    /\ queued \in [Clients -> 0 .. Capacity]
    /\ closed \subseteq Clients
    /\ conn \subseteq Clients
    /\ rpc \in [Clients -> ReadControl]
    /\ wpc \in [Clients -> WriteControl]
    /\ heard \subseteq Clients

Unseen == [status |-> "none", ready |-> {}]

Init ==
    /\ status = "none"
    /\ ready = {}
    /\ call = [u \in Users |-> "idle"]
    /\ seen = [u \in Users |-> Unseen]
    /\ hub = [u \in Users |-> None]
    /\ newest = [u \in Users |-> None]
    /\ queued = [c \in Clients |-> 0]
    /\ closed = {}
    /\ conn = {}
    /\ rpc = [c \in Clients |-> "none"]
    /\ wpc = [c \in Clients |-> "none"]
    /\ heard = {}

-----------------------------------------------------------------------------
(* The hub, under the lock of the room's segment *)

Members == {c \in Clients : hub[Owner[c]] = c}

\* Fault: the evicted client's channel is closed but it stays in the room.
DeliverKeeps ==
    LET full == {c \in Members : queued[c] = Capacity} IN
    /\ closed' = closed \union full
    /\ queued' = [c \in Clients |-> IF c \in Members \ full THEN queued[c] + 1
                                    ELSE queued[c]]
    /\ UNCHANGED hub

\* BroadcastToRoom: a message for every member; a member whose channel is full
\* is deleted from the room and its channel closed.  HubOpen shows that no
\* member's channel is closed, so that no send panics.
Deliver ==
    LET full == {c \in Members : queued[c] = Capacity} IN
    /\ hub' = [u \in Users |-> IF hub[u] \in full THEN None ELSE hub[u]]
    /\ closed' = closed \union full
    /\ queued' = [c \in Clients |-> IF c \in Members \ full THEN queued[c] + 1
                                    ELSE queued[c]]

\* Fault: a client that leaves takes its user out of the room.
LeaveHubByUser(c) ==
    /\ hub' = [hub EXCEPT ![Owner[c]] = None]
    /\ closed' = closed \union {c}

\* LeaveRoom: only the client that the hub knows is deleted and closed.
LeaveHub(c) ==
    IF hub[Owner[c]] = c
    THEN /\ hub' = [hub EXCEPT ![Owner[c]] = None]
         /\ closed' = closed \union {c}
    ELSE UNCHANGED <<hub, closed>>

-----------------------------------------------------------------------------
(* RoomService and the Ready handler *)

\* CreateRoom, called by Join of the matchmaking queue.
CreateRoom ==
    /\ status = "none"
    /\ status' = "waiting"
    /\ UNCHANGED <<ready, call, seen, hubVars, queued, conn, rpc, wpc, heard>>

\* Fault: CheckAllReady is content with one player.
ReadyPlayerEarly(u) ==
    /\ call[u] = "idle"
    /\ status = "waiting"
    /\ ready' = ready \union {u}
    /\ status' = "playing"
    /\ call' = [call EXCEPT ![u] = "marked"]
    /\ UNCHANGED <<seen, hubVars, queued, conn, rpc, wpc, heard>>

\* ReadyPlayer, with CheckAllReady: the last player starts the game.  In any
\* other status the call is refused and changes nothing.
ReadyPlayer(u) ==
    /\ call[u] = "idle"
    /\ status = "waiting"
    /\ ready' = ready \union {u}
    /\ status' = IF ready' = Users THEN "playing" ELSE status
    /\ call' = [call EXCEPT ![u] = "marked"]
    /\ UNCHANGED <<seen, hubVars, queued, conn, rpc, wpc, heard>>

\* Fault: the handler describes the room as it was before its call.
GetRoomBefore(u) ==
    /\ call[u] = "marked"
    /\ seen' = [seen EXCEPT ![u] = [status |-> "waiting", ready |-> {u}]]
    /\ call' = [call EXCEPT ![u] = "read"]
    /\ UNCHANGED <<status, ready, hubVars, queued, conn, rpc, wpc, heard>>

\* GetRoom: the status is copied, the map of the players is shared.
GetRoom(u) ==
    /\ call[u] = "marked"
    /\ seen' = [seen EXCEPT ![u] = [status |-> status, ready |-> ready]]
    /\ call' = [call EXCEPT ![u] = "read"]
    /\ UNCHANGED <<status, ready, hubVars, queued, conn, rpc, wpc, heard>>

\* json.Marshal: each flag is read at some moment between GetRoom and now, and
\* flags are only ever set.  The events that the call may broadcast now:
Encodings(u) ==
    {e \in View : e.status = seen[u].status /\ seen[u].ready \subseteq e.ready
                                           /\ e.ready \subseteq ready}

\* BroadcastToRoom, of one of the encodings.
Announce(u) ==
    /\ call[u] = "read"
    /\ Deliver
    /\ heard' = IF seen[u].status = "playing"
                THEN heard \union {c \in Members : queued[c] < Capacity} ELSE heard
    /\ call' = [call EXCEPT ![u] = "idle"]
    /\ seen' = [seen EXCEPT ![u] = Unseen]
    /\ UNCHANGED <<status, ready, newest, conn, rpc, wpc>>

-----------------------------------------------------------------------------
(* A client: JoinRoom and ReadPump *)

GotoR(c, pc) == rpc' = [rpc EXCEPT ![c] = pc]

\* JoinRoom: a player of an existing room connects; the client takes the place
\* of the user's former client in the hub, and its pumps start.
JoinRoom(c) ==
    /\ rpc[c] = "none"
    /\ status # "none"
    /\ hub' = [hub EXCEPT ![Owner[c]] = c]
    /\ newest' = [newest EXCEPT ![Owner[c]] = c]
    /\ conn' = conn \union {c}
    /\ GotoR(c, "reading")
    /\ wpc' = [wpc EXCEPT ![c] = "writing"]
    /\ UNCHANGED <<roomVars, queued, closed, heard>>

\* A chat message is broadcast, also one of a client that the hub no longer
\* knows.
Chat(c) ==
    /\ rpc[c] = "reading"
    /\ c \in conn
    /\ Deliver
    /\ UNCHANGED <<roomVars, newest, conn, rpc, wpc, heard>>

\* A ping, or a message that is answered with an error.
OtherMessage(c) ==
    /\ rpc[c] = "reading"
    /\ c \in conn
    /\ GotoR(c, "answering")
    /\ UNCHANGED <<roomVars, hubVars, queued, conn, wpc, heard>>

\* SendJSON waits for room in the channel.
Answer(c) ==
    /\ rpc[c] = "answering"
    /\ c \notin closed
    /\ queued[c] < Capacity
    /\ queued' = [queued EXCEPT ![c] = @ + 1]
    /\ GotoR(c, "reading")
    /\ UNCHANGED <<roomVars, hubVars, conn, wpc, heard>>

\* SendJSON on a closed channel panics: the deferred calls of ReadPump run.
AnswerPanics(c) ==
    /\ rpc[c] = "answering"
    /\ c \in closed
    /\ GotoR(c, "leaving")
    /\ UNCHANGED <<roomVars, hubVars, queued, conn, wpc, heard>>

\* ReadMessage fails: the peer left, was silent for too long, or the connection
\* was closed.
ReadFails(c) ==
    /\ rpc[c] = "reading"
    /\ GotoR(c, "leaving")
    /\ UNCHANGED <<roomVars, hubVars, queued, conn, wpc, heard>>

\* The deferred LeaveRoom and Conn.Close.
Leave(c) ==
    /\ rpc[c] = "leaving"
    /\ LeaveHub(c)
    /\ conn' = conn \ {c}
    /\ GotoR(c, "done")
    /\ UNCHANGED <<roomVars, newest, queued, wpc, heard>>

-----------------------------------------------------------------------------
(* A client: WritePump *)

EndWrite(c) ==
    /\ wpc' = [wpc EXCEPT ![c] = "done"]
    /\ conn' = conn \ {c}

\* A message is taken from the channel and written.
Write(c) ==
    /\ wpc[c] = "writing"
    /\ queued[c] > 0
    /\ c \in conn
    /\ queued' = [queued EXCEPT ![c] = @ - 1]
    /\ UNCHANGED <<roomVars, hubVars, conn, rpc, wpc, heard>>

\* Writing a message fails.
WriteFails(c) ==
    /\ wpc[c] = "writing"
    /\ queued[c] > 0
    /\ queued' = [queued EXCEPT ![c] = @ - 1]
    /\ EndWrite(c)
    /\ UNCHANGED <<roomVars, hubVars, rpc, heard>>

\* Fault: the pump returns without closing the connection.
DrainedOpen(c) ==
    /\ wpc[c] = "writing"
    /\ c \in closed
    /\ queued[c] = 0
    /\ wpc' = [wpc EXCEPT ![c] = "done"]
    /\ UNCHANGED <<roomVars, hubVars, queued, conn, rpc, heard>>

\* The channel is closed and empty: the pump says goodbye.
Drained(c) ==
    /\ wpc[c] = "writing"
    /\ c \in closed
    /\ queued[c] = 0
    /\ EndWrite(c)
    /\ UNCHANGED <<roomVars, hubVars, queued, rpc, heard>>

\* The periodic ping fails.
PingFails(c) ==
    /\ wpc[c] = "writing"
    /\ EndWrite(c)
    /\ UNCHANGED <<roomVars, hubVars, queued, rpc, heard>>

-----------------------------------------------------------------------------
(* The system *)

CallStep(u)  == GetRoom(u) \/ Announce(u)
ReadStep(c)  == Answer(c) \/ AnswerPanics(c) \/ Leave(c) \/ (c \notin conn /\ ReadFails(c))
WriteStep(c) == Write(c) \/ WriteFails(c) \/ Drained(c) \/ (c \notin conn /\ PingFails(c))

Next ==
    \/ CreateRoom
    \/ \E u \in Users : ReadyPlayer(u) \/ GetRoom(u) \/ Announce(u)
    \/ \E c \in Clients :
        \/ JoinRoom(c) \/ Chat(c) \/ OtherMessage(c) \/ Answer(c) \/ AnswerPanics(c)
        \/ ReadFails(c) \/ Leave(c)
        \/ Write(c) \/ WriteFails(c) \/ Drained(c) \/ PingFails(c)

Spec == Init /\ [][Next]_vars

\* Handlers and pumps are scheduled, a read of a closed connection fails and so
\* does the next ping on it; users and peers owe nothing.
FairSpec ==
    /\ Spec
    /\ \A u \in Users : WF_vars(CallStep(u))
    /\ \A c \in Clients : WF_vars(ReadStep(c)) /\ WF_vars(WriteStep(c))

-----------------------------------------------------------------------------
(* Properties *)

\* A client in the room has an open channel and a running ReadPump, through
\* replacement, eviction and leaving in any order: no broadcast sends on a
\* closed channel and no channel is closed twice (room_hub.go 48-86).
HubOpen ==
    \A u \in Users : hub[u] # None =>
        /\ Owner[hub[u]] = u
        /\ hub[u] \notin closed
        /\ rpc[hub[u]] \in {"reading", "answering", "leaving"}

\* As long as a user's newest connection is read and was not evicted for being
\* slow, it is the one that broadcasts reach, whenever older connections of the
\* user end (room_hub.go 48-60).
NewestInRoom ==
    \A u \in Users : newest[u] # None =>
        \/ hub[u] = newest[u]
        \/ newest[u] \in closed

\* Status and flags are read at different moments, yet no event contradicts
\* itself: it shows the player who got ready, and it says "playing" only with
\* every player ready (room_service.go 52-71, room_handler.go 70-86).  It may
\* well say "waiting" with every player ready.
EventsTrue ==
    \A u \in Users : call[u] = "read" =>
        /\ Encodings(u) # {}
        /\ \A e \in Encodings(u) : u \in e.ready /\ (e.status = "playing" => e.ready = Users)

\* Whoever is in the room when the last player's call starts the game is told,
\* unless evicted, replaced or gone (room_handler.go 58-86).
StartHeard ==
    \A c \in Clients :
        (status = "playing" /\ c \in Members /\ \E u \in Users : call[u] = "marked")
            ~> (c \in heard \/ c \notin Members)

\* A connection that ends leaves no goroutine behind: once ReadPump is done or
\* the channel is closed, both pumps end, also those of a replaced client,
\* whose channel nobody closes (client.go 35-89).
PumpsEnd ==
    \A c \in Clients :
        (rpc[c] = "done" \/ c \in closed) ~> (rpc[c] = "done" /\ wpc[c] = "done")

=============================================================================
