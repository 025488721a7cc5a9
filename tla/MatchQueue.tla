----------------------------- MODULE MatchQueue -----------------------------
(***************************************************************************)
(* Matchmaking (internal/service/match_queue_service.go, internal/         *)
(* repository/match_queue_repository.go) with the match row it creates     *)
(* (CreateMatchFromQueue in internal/service/match_service.go) and the     *)
(* room it opens (CreateRoom in internal/service/room_service.go).         *)
(*                                                                         *)
(* Join and Cancel hold the service's mutex from their first call to Redis *)
(* to their last, so one of them runs at a time, but each is a series of   *)
(* separate writes on the context of one HTTP request: with Faults the     *)
(* series may stop after any of them, and with Restarts the process may    *)
(* restart, which loses the rooms.  The chunk of a 1v1 match comes from    *)
(* MineMatch.                                                              *)
(*                                                                         *)
(* A match and its room have one name here: room names are generated once  *)
(* per group, as match numbers are.                                        *)
(***************************************************************************)
EXTENDS Naturals, Sequences

CONSTANTS
    Users,
    Modes,
    Required,   \* getPlayerCount: the players of a match, 0 for an unknown mode
    ChunkModes, \* the modes whose matches are given a chunk ("1v1")
    Faults,     \* calls may fail
    Restarts,   \* the process may stop and start again
    MaxMatches, \* bound on the matches created
    NoUser, NoMode

ASSUME QueueAssumption ==
    /\ Required \in [Modes -> Nat]
    /\ ChunkModes \subseteq Modes
    /\ Faults \in BOOLEAN
    /\ Restarts \in BOOLEAN
    /\ MaxMatches \in Nat
    /\ NoUser \notin Users
    /\ NoMode \notin Modes

VARIABLES
    status,     \* Redis: the queue state of each user
    queue,      \* Redis: the queue of each mode
    matches,    \* MySQL: the players of each match
    rooms,      \* memory: the rooms, by match
    pc, caller, mode,   \* the call that holds the mutex
    group,      \* the users it dequeued
    todo,       \* those it has still to update
    id,         \* the match it created
    failed      \* a call has failed, or the process has restarted

storeVars == <<status, queue, matches, rooms>>
callVars  == <<pc, caller, mode, group, todo, id>>
vars == <<storeVars, callVars, failed>>

-----------------------------------------------------------------------------
(* Types *)

NoStatus == [state |-> "none", mode |-> NoMode, match |-> 0, chunk |-> FALSE]

Statuses ==
    [ state : {"none", "matching", "matched", "cancelled"},
      mode  : Modes \union {NoMode},
      match : 0 .. MaxMatches,      \* 0 is no match
      chunk : BOOLEAN ]             \* a chunk is assigned

Control ==
    {"free", "delete", "set", "enqueue", "len", "dequeue", "create", "matched",
     "assign", "chunk", "room", "restore", "requeue", "remove", "cancel"}

\* The shape of every variable.
TypeOK ==
    /\ status \in [Users -> Statuses]
    /\ queue \in [Modes -> Seq(Users)]
    /\ matches \in Seq(SUBSET Users) /\ Len(matches) <= MaxMatches
    /\ rooms \subseteq 1 .. Len(matches)
    /\ pc \in Control
    /\ caller \in Users \union {NoUser}
    /\ mode \in Modes \union {NoMode}
    /\ group \in Seq(Users) /\ todo \in Seq(Users)
    /\ id \in 0 .. Len(matches)
    /\ failed \in BOOLEAN

Init ==
    /\ status = [u \in Users |-> NoStatus]
    /\ queue = [mo \in Modes |-> <<>>]
    /\ matches = <<>>
    /\ rooms = {}
    /\ pc = "free" /\ caller = NoUser /\ mode = NoMode
    /\ group = <<>> /\ todo = <<>> /\ id = 0
    /\ failed = FALSE

Elems(s) == {s[i] : i \in DOMAIN s}

\* s without u (LREM of Redis, for every occurrence).
Without(s, u) ==
    LET Kept[i \in 0 .. Len(s)] ==
            IF i = 0 THEN <<>>
            ELSE IF s[i] = u THEN Kept[i - 1] ELSE Append(Kept[i - 1], s[i])
    IN  Kept[Len(s)]

\* The call returns and releases the mutex.
Return ==
    /\ pc' = "free" /\ caller' = NoUser /\ mode' = NoMode
    /\ group' = <<>> /\ todo' = <<>> /\ id' = 0

Goto(next) == pc' = next /\ UNCHANGED <<caller, mode, group, todo, id>>

-----------------------------------------------------------------------------
(* Join *)

\* Fault: whatever state the user has is replaced.
BeginJoinAnew(u, mo) ==
    /\ pc = "free"
    /\ Len(matches) < MaxMatches
    /\ pc' = IF status[u] = NoStatus THEN "set" ELSE "delete"
    /\ caller' = u /\ mode' = mo
    /\ UNCHANGED <<storeVars, group, todo, id>>

\* GetUserStatus: a user who waits or has a match gets that state back; the
\* state of one who cancelled is deleted first.
BeginJoin(u, mo) ==
    /\ pc = "free"
    /\ Len(matches) < MaxMatches
    /\ status[u].state \notin {"matching", "matched"}
    /\ pc' = IF status[u] = NoStatus THEN "set" ELSE "delete"
    /\ caller' = u /\ mode' = mo
    /\ UNCHANGED <<storeVars, group, todo, id>>

DeleteStatus ==
    /\ pc = "delete"
    /\ status' = [status EXCEPT ![caller] = NoStatus]
    /\ Goto("set")
    /\ UNCHANGED <<queue, matches, rooms>>

SetMatching ==
    /\ pc = "set"
    /\ status' = [status EXCEPT ![caller] =
                    [NoStatus EXCEPT !.state = "matching", !.mode = mode]]
    /\ Goto("enqueue")
    /\ UNCHANGED <<queue, matches, rooms>>

Enqueue ==
    /\ pc = "enqueue"
    /\ queue' = [queue EXCEPT ![mode] = Append(@, caller)]
    /\ Goto("len")
    /\ UNCHANGED <<status, matches, rooms>>

\* Fault: one player too many is waited for.
CheckLenLate ==
    /\ pc = "len"
    /\ IF Required[mode] = 0 \/ Len(queue[mode]) <= Required[mode] THEN Return ELSE Goto("dequeue")
    /\ UNCHANGED storeVars

\* FindMatchGroup: an unknown mode is an error only now, with the user queued;
\* too few players is a response.
CheckLen ==
    /\ pc = "len"
    /\ IF Required[mode] = 0 \/ Len(queue[mode]) < Required[mode] THEN Return ELSE Goto("dequeue")
    /\ UNCHANGED storeVars

\* DequeueBatch and buildTeams.
Dequeue ==
    LET n == Required[mode] IN
    /\ pc = "dequeue"
    /\ group' = SubSeq(queue[mode], 1, n)
    /\ queue' = [queue EXCEPT ![mode] = SubSeq(@, n + 1, Len(@))]
    /\ pc' = "create"
    /\ UNCHANGED <<status, matches, rooms, caller, mode, todo, id>>

\* The transaction of CreateMatchFromQueue.
InsertMatch == matches' = Append(matches, Elems(group))

\* Fault: the number of the match is taken before the insert.
CreateMatchOffByOne ==
    /\ pc = "create"
    /\ InsertMatch
    /\ id' = Len(matches)
    /\ todo' = group
    /\ pc' = "matched"
    /\ UNCHANGED <<status, queue, rooms, caller, mode, group>>

CreateMatch ==
    /\ pc = "create"
    /\ InsertMatch
    /\ id' = Len(matches) + 1
    /\ todo' = group
    /\ pc' = "matched"
    /\ UNCHANGED <<status, queue, rooms, caller, mode, group>>

\* One user of a loop over the group is done; after the last, next is next.
NextUser(next) ==
    /\ pc' = IF Len(todo) > 1 THEN pc ELSE next
    /\ todo' = Tail(todo)
    /\ UNCHANGED <<caller, mode, group, id>>

AfterMatched == IF mode \in ChunkModes THEN "assign" ELSE "room"

\* Fault: only the caller is told.
MarkCaller ==
    LET u == Head(todo) IN
    /\ pc = "matched"
    /\ status' = [status EXCEPT ![u] =
                    IF u = caller THEN [@ EXCEPT !.state = "matched", !.match = id] ELSE @]
    /\ NextUser(AfterMatched)
    /\ UNCHANGED <<queue, matches, rooms>>

\* updateUserStateToMatched, one user.
MarkMatched ==
    LET u == Head(todo) IN
    /\ pc = "matched"
    /\ status' = [status EXCEPT ![u] =
                    IF @ = NoStatus THEN @ ELSE [@ EXCEPT !.state = "matched", !.match = id]]
    /\ NextUser(AfterMatched)
    /\ UNCHANGED <<queue, matches, rooms>>

\* AssignChunkForMatch returns a chunk.
AssignChunk ==
    /\ pc = "assign"
    /\ pc' = "chunk"
    /\ todo' = group
    /\ UNCHANGED <<storeVars, caller, mode, group, id>>

\* updateUserStateChunk, one user.
MarkChunk ==
    LET u == Head(todo) IN
    /\ pc = "chunk"
    /\ status' = [status EXCEPT ![u] = IF @ = NoStatus THEN @ ELSE [@ EXCEPT !.chunk = TRUE]]
    /\ NextUser("room")
    /\ UNCHANGED <<queue, matches, rooms>>

CreateRoom ==
    /\ pc = "room"
    /\ rooms' = rooms \union {id}
    /\ Return
    /\ UNCHANGED <<status, queue, matches>>

-----------------------------------------------------------------------------
(* Failures of Join *)

Restore ==
    /\ pc' = "restore"
    /\ todo' = group
    /\ UNCHANGED <<caller, mode, group, id>>

\* CreateMatchFromQueue fails, or its commit does unseen; or the assignment of
\* a chunk fails: the users are put back.
CreateFails ==
    /\ Faults
    /\ \/ pc = "create" /\ (InsertMatch \/ UNCHANGED matches)
       \/ pc = "assign" /\ UNCHANGED matches
    /\ Restore
    /\ failed' = TRUE
    /\ UNCHANGED <<status, queue, rooms>>

\* restoreMatchedUsers, one user: SetUserStatus.
RestoreStatus ==
    LET u == Head(todo) IN
    /\ pc = "restore"
    /\ status' = [status EXCEPT ![u] =
                    IF @ = NoStatus THEN @
                    ELSE [@ EXCEPT !.state = "matching", !.match = 0, !.chunk = FALSE]]
    /\ Goto("requeue")
    /\ UNCHANGED <<queue, matches, rooms>>

\* restoreMatchedUsers, the same user: Enqueue.  The call ends in an error
\* after the last one.
RestoreQueue ==
    LET u == Head(todo) IN
    /\ pc = "requeue"
    /\ queue' = [queue EXCEPT ![mode] = IF status[u] = NoStatus THEN @ ELSE Append(@, u)]
    /\ IF Len(todo) = 1 THEN Return
       ELSE pc' = "restore" /\ todo' = Tail(todo) /\ UNCHANGED <<caller, mode, group, id>>
    /\ UNCHANGED <<status, matches, rooms>>

\* A call of Join or Cancel fails, without effect or with its effect unseen
\* (the step before): the rest is not done.
CallFails ==
    /\ Faults
    /\ pc # "free"
    /\ Return
    /\ failed' = TRUE
    /\ UNCHANGED storeVars

\* The process stops and is started again, without rooms.
Restart ==
    /\ Restarts
    /\ rooms' = {}
    /\ Return
    /\ failed' = TRUE
    /\ UNCHANGED <<status, queue, matches>>

-----------------------------------------------------------------------------
(* Cancel *)

\* Only a user who is waiting may cancel.
BeginCancel(u) ==
    /\ pc = "free"
    /\ status[u].state = "matching"
    /\ pc' = "remove" /\ caller' = u /\ mode' = status[u].mode
    /\ UNCHANGED <<storeVars, group, todo, id>>

\* Fault: the user stays in the queue.
LeaveInQueue ==
    /\ pc = "remove"
    /\ Goto("cancel")
    /\ UNCHANGED storeVars

\* RemoveFromQueue removes every entry of the user.
RemoveFromQueue ==
    /\ pc = "remove"
    /\ queue' = [queue EXCEPT ![mode] = Without(@, caller)]
    /\ Goto("cancel")
    /\ UNCHANGED <<status, matches, rooms>>

\* Fault: the cancelled state is not saved.
KeepMatching ==
    /\ pc = "cancel"
    /\ Return
    /\ UNCHANGED storeVars

SetCancelled ==
    /\ pc = "cancel"
    /\ status' = [status EXCEPT ![caller].state = "cancelled"]
    /\ Return
    /\ UNCHANGED <<queue, matches, rooms>>

-----------------------------------------------------------------------------
(* The system *)

JoinStep ==
    \/ DeleteStatus \/ SetMatching \/ Enqueue \/ CheckLen \/ Dequeue \/ CreateMatch
    \/ MarkMatched \/ AssignChunk \/ MarkChunk \/ CreateRoom
    \/ RestoreStatus \/ RestoreQueue

Next ==
    \/ UNCHANGED failed /\ \/ \E u \in Users, mo \in Modes : BeginJoin(u, mo)
                           \/ \E u \in Users : BeginCancel(u)
                           \/ JoinStep \/ RemoveFromQueue \/ SetCancelled
    \/ CreateFails \/ CallFails \/ Restart

Spec == Init /\ [][Next]_vars

-----------------------------------------------------------------------------
(* Properties that failures cannot break *)

\* Nobody is queued twice, and whoever is queued waits in that mode: no later
\* Join can draw a user who cancelled, or who plays, or the same user for both
\* teams (Join 38-146, Cancel 172-205, restoreMatchedUsers 290-314).
QueuedWait ==
    /\ \A mo, no \in Modes : \A i \in DOMAIN queue[mo], j \in DOMAIN queue[no] :
            queue[mo][i] = queue[no][j] => mo = no /\ i = j
    /\ \A mo \in Modes : \A u \in Elems(queue[mo]) :
            status[u].state = "matching" /\ status[u].mode = mo

\* A user who is matched stays so, unless the Join that matched the user puts
\* the whole group back: nothing else ends a match for the queue.
MatchedForGood ==
    [][\A u \in Users :
        status[u].state = "matched" /\ status'[u].state # "matched" =>
            pc = "restore" /\ u \in Elems(group)]_vars

\* The match a user is sent to is one the user is a player of.
MatchIsMine ==
    \A u \in Users : status[u].state = "matched" =>
        status[u].match \in 1 .. Len(matches) /\ u \in matches[status[u].match]

-----------------------------------------------------------------------------
(* Properties of calls that run to their end *)

\* As long as no call fails, nobody waits in vain between two calls: whoever waits
\* is queued in that mode, and no complete group goes on waiting, for the Join that
\* completes it draws it (Join 70-104, Cancel 172-205, FindMatchGroup 219-243).
NoGroupWaits ==
    pc = "free" /\ ~failed =>
        /\ \A u \in Users : status[u].state = "matching" => u \in Elems(queue[status[u].mode])
        /\ \A mo \in Modes : Required[mo] > 0 => Len(queue[mo]) < Required[mo]

\* As long as no call fails, the players of a match were all told of it between
\* two calls, and of its chunk, and it has a room (Join 104-145).
GroupTold ==
    pc = "free" /\ ~failed =>
        \A m \in 1 .. Len(matches) :
            /\ m \in rooms
            /\ \A u \in matches[m] :
                /\ status[u].state = "matched"
                /\ status[u].match = m
                /\ status[u].chunk <=> status[u].mode \in ChunkModes

=============================================================================
