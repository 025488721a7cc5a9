------------------------------- MODULE MapHub -------------------------------
(***************************************************************************)
(* The live map: MapHub and its clients (internal/ws/map_hub.go,           *)
(* internal/ws/map_client.go, JoinMap in internal/handler/ws_handler.go,   *)
(* broadcastOpenCell and broadcastFlagCell in internal/handler/            *)
(* chunk_handler.go).                                                      *)
(*                                                                         *)
(* A client is a connection with two goroutines.  ReadPump reads messages, *)
(* subscribes and answers; WritePump writes what is in the Send channel.   *)
(* A broadcast puts an event in the Send channel of every subscriber of a  *)
(* chunk, and evicts the subscriber whose channel is full: it closes the   *)
(* channel while both goroutines still run.  The hub's mutex makes each    *)
(* hub operation one step; answers are sent without it.                    *)
(*                                                                         *)
(* The content of a message is left out: a channel is the number of        *)
(* messages it holds.                                                      *)
(***************************************************************************)
EXTENDS Naturals, FiniteSets

CONSTANTS
    Clients,    \* connections, each used once
    Chunks,
    Capacity    \* of the Send channel (256 in the program)

ASSUME CapacityAssumption == Capacity \in Nat \ {0}

VARIABLES
    chunks,     \* h.chunks: the subscribers of each chunk
    clients,    \* h.clients: the subscriptions of each client
    queued,     \* the messages in each client's Send channel
    closed,     \* the clients whose Send channel is closed
    conn,       \* the clients whose connection is open
    rpc, wpc,   \* control of ReadPump and WritePump
    missed      \* subscribers that a broadcast neither reached nor evicted

hubVars == <<chunks, clients, closed>>
vars == <<hubVars, queued, conn, rpc, wpc, missed>>

-----------------------------------------------------------------------------
(* Types *)

ReadControl  == {"none", "reading", "answering", "leaving", "done"}
WriteControl == {"none", "writing", "done"}

\* The shape of every variable.
TypeOK ==
    /\ chunks \in [Chunks -> SUBSET Clients]
    /\ clients \in [Clients -> SUBSET Chunks]
    /\ queued \in [Clients -> 0 .. Capacity]
    /\ closed \subseteq Clients
    /\ conn \subseteq Clients
    /\ rpc \in [Clients -> ReadControl]
    /\ wpc \in [Clients -> WriteControl]
    /\ missed \subseteq Clients

Init ==
    /\ chunks = [ch \in Chunks |-> {}]
    /\ clients = [c \in Clients |-> {}]
    /\ queued = [c \in Clients |-> 0]
    /\ closed = {}
    /\ conn = {}
    /\ rpc = [c \in Clients |-> "none"]
    /\ wpc = [c \in Clients |-> "none"]
    /\ missed = {}

GotoR(c, pc) == rpc' = [rpc EXCEPT ![c] = pc]

\* JoinMap: the connection is upgraded, the client joins without subscriptions
\* and its pumps start.
Join(c) ==
    /\ rpc[c] = "none"
    /\ GotoR(c, "reading")
    /\ wpc' = [wpc EXCEPT ![c] = "writing"]
    /\ conn' = conn \union {c}
    /\ UNCHANGED <<hubVars, queued, missed>>

-----------------------------------------------------------------------------
(* The hub, under its mutex *)

\* removeClientLocked for every client of C.
Remove(C) ==
    /\ chunks' = [ch \in Chunks |-> chunks[ch] \ C]
    /\ clients' = [c \in Clients |-> IF c \in C THEN {} ELSE clients[c]]

\* ReplaceSubscriptions, whether or not the client is still known to the hub.
ReplaceSubscriptions(c, S) ==
    /\ chunks' = [ch \in Chunks |-> IF ch \in S THEN chunks[ch] \union {c}
                                    ELSE chunks[ch] \ {c}]
    /\ clients' = [clients EXCEPT ![c] = S]

\* The events reach the clients of T: in the channel if it has room; a client
\* without room is evicted.
Deliver(T) ==
    LET full == {c \in T : queued[c] = Capacity} IN
    /\ Remove(full)
    /\ closed' = closed \union full
    /\ queued' = [c \in Clients |-> IF c \in T \ full THEN queued[c] + 1 ELSE queued[c]]

\* Fault: an evicted client is forgotten for this chunk only.
BroadcastForgets(ch) ==
    LET full == {c \in chunks[ch] : queued[c] = Capacity} IN
    /\ chunks[ch] \cap closed = {}
    /\ chunks' = [chunks EXCEPT ![ch] = @ \ full]
    /\ closed' = closed \union full
    /\ queued' = [c \in Clients |-> IF c \in chunks[ch] \ full THEN queued[c] + 1 ELSE queued[c]]
    /\ UNCHANGED <<clients, conn, rpc, wpc, missed>>

\* BroadcastToChunk.
Broadcast(ch) ==
    /\ chunks[ch] \cap closed = {}
    /\ Deliver(chunks[ch])
    /\ UNCHANGED <<conn, rpc, wpc, missed>>

\* BroadcastToChunk meets a subscriber whose channel is closed: the send
\* panics, after some of the other subscribers were served, and the HTTP
\* handler that broadcasts is aborted.
BroadcastPanics(ch) ==
    /\ chunks[ch] \cap closed # {}
    /\ \E T \in SUBSET (chunks[ch] \ closed) :
        /\ Deliver(T)
        /\ missed' = missed \union (chunks[ch] \ (closed \union T))
    /\ UNCHANGED <<conn, rpc, wpc>>

-----------------------------------------------------------------------------
(* ReadPump *)

\* A subscribe_chunks message for playable chunks; the answer is next.
Subscribe(c, S) ==
    /\ rpc[c] = "reading"
    /\ c \in conn
    /\ ReplaceSubscriptions(c, S)
    /\ GotoR(c, "answering")
    /\ UNCHANGED <<queued, closed, conn, wpc, missed>>

\* A ping, or a message that is answered with an error.
OtherMessage(c) ==
    /\ rpc[c] = "reading"
    /\ c \in conn
    /\ GotoR(c, "answering")
    /\ UNCHANGED <<hubVars, queued, conn, wpc, missed>>

\* SendJSON waits for room in the channel.
Answer(c) ==
    /\ rpc[c] = "answering"
    /\ c \notin closed
    /\ queued[c] < Capacity
    /\ queued' = [queued EXCEPT ![c] = @ + 1]
    /\ GotoR(c, "reading")
    /\ UNCHANGED <<hubVars, conn, wpc, missed>>

\* SendJSON on a closed channel, also one closed while it waits, panics: the
\* deferred calls of ReadPump run and the request is aborted.
AnswerPanics(c) ==
    /\ rpc[c] = "answering"
    /\ c \in closed
    /\ GotoR(c, "leaving")
    /\ UNCHANGED <<hubVars, queued, conn, wpc, missed>>

\* ReadMessage fails: the peer left, was silent for too long, or the connection
\* was closed.
ReadFails(c) ==
    /\ rpc[c] = "reading"
    /\ GotoR(c, "leaving")
    /\ UNCHANGED <<hubVars, queued, conn, wpc, missed>>

\* Fault: a client evicted before is not removed again.
LeaveOnce(c) ==
    /\ rpc[c] = "leaving"
    /\ IF c \in closed THEN UNCHANGED <<chunks, clients>> ELSE Remove({c})
    /\ closed' = closed \union {c}
    /\ conn' = conn \ {c}
    /\ GotoR(c, "done")
    /\ UNCHANGED <<queued, wpc, missed>>

\* The deferred Leave and Conn.Close.
Leave(c) ==
    /\ rpc[c] = "leaving"
    /\ Remove({c})
    /\ closed' = closed \union {c}
    /\ conn' = conn \ {c}
    /\ GotoR(c, "done")
    /\ UNCHANGED <<queued, wpc, missed>>

-----------------------------------------------------------------------------
(* WritePump *)

EndWrite(c) ==
    /\ wpc' = [wpc EXCEPT ![c] = "done"]
    /\ conn' = conn \ {c}

\* A message is taken from the channel and written.
Write(c) ==
    /\ wpc[c] = "writing"
    /\ queued[c] > 0
    /\ c \in conn
    /\ queued' = [queued EXCEPT ![c] = @ - 1]
    /\ UNCHANGED <<hubVars, conn, rpc, wpc, missed>>

\* Writing a message fails.
WriteFails(c) ==
    /\ wpc[c] = "writing"
    /\ queued[c] > 0
    /\ queued' = [queued EXCEPT ![c] = @ - 1]
    /\ EndWrite(c)
    /\ UNCHANGED <<hubVars, rpc, missed>>

\* Fault: the pump returns without closing the connection.
DrainedOpen(c) ==
    /\ wpc[c] = "writing"
    /\ c \in closed
    /\ queued[c] = 0
    /\ wpc' = [wpc EXCEPT ![c] = "done"]
    /\ UNCHANGED <<hubVars, queued, conn, rpc, missed>>

\* The channel is closed and empty: the pump says goodbye.
Drained(c) ==
    /\ wpc[c] = "writing"
    /\ c \in closed
    /\ queued[c] = 0
    /\ EndWrite(c)
    /\ UNCHANGED <<hubVars, queued, rpc, missed>>

\* The periodic ping fails.
PingFails(c) ==
    /\ wpc[c] = "writing"
    /\ EndWrite(c)
    /\ UNCHANGED <<hubVars, queued, rpc, missed>>

-----------------------------------------------------------------------------
(* The system *)

ReadStep(c)  == Answer(c) \/ AnswerPanics(c) \/ Leave(c) \/ (c \notin conn /\ ReadFails(c))
WriteStep(c) == Write(c) \/ WriteFails(c) \/ Drained(c)

Next ==
    \/ \E ch \in Chunks : Broadcast(ch) \/ BroadcastPanics(ch)
    \/ \E c \in Clients :
        \/ Join(c) \/ (\E S \in SUBSET Chunks : Subscribe(c, S)) \/ OtherMessage(c)
        \/ ReadFails(c) \/ ReadStep(c) \/ WriteStep(c) \/ PingFails(c)

Spec == Init /\ [][Next]_vars

\* The goroutines of a client are scheduled; a read of a closed connection
\* fails; peers and broadcasts owe nothing.
FairSpec == Spec /\ \A c \in Clients : WF_vars(ReadStep(c)) /\ WF_vars(WriteStep(c))

-----------------------------------------------------------------------------
(* Properties *)

\* The two maps of the hub are each other's inverse through subscriptions,
\* evictions, leaves and resubscriptions of evicted clients.
IndexAgrees ==
    \A c \in Clients, ch \in Chunks : c \in chunks[ch] <=> ch \in clients[c]

\* A client whose ReadPump has ended is subscribed to nothing: no broadcast
\* will ever meet its closed channel (map_hub.go 26-31, 87-103).
NoGhosts ==
    \A c \in Clients : rpc[c] = "done" => c \in closed /\ clients[c] = {}

\* An evicted client is gone in the end: its WritePump closes the connection
\* and its ReadPump leaves the hub (map_client.go 34-89).
EvictedLeave == \A c \in Clients : c \in closed ~> rpc[c] = "done"

\* Every subscriber of a chunk gets the event or is evicted for being slow.
EveryoneTold == missed = {}

=============================================================================
