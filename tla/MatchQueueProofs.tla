-------------------------- MODULE MatchQueueProofs ---------------------------
(***************************************************************************)
(* Proofs about MatchQueue, for any users, modes and group sizes.          *)
(*                                                                         *)
(* Whatever calls fail: the match a user is sent to is one of the user's   *)
(* own, only the Join that matched a user takes the match back, and the    *)
(* queues hold nobody twice and nobody who does not wait.  As long as no   *)
(* call has failed: nobody is forgotten between the queues and the         *)
(* matches, and every player of a match is told of it.                     *)
(*                                                                         *)
(* The first part depends on nothing the queues hold: a group is any       *)
(* sequence that DequeueBatch may return.  The two others follow the users *)
(* from the queue through the group to the match.                          *)
(***************************************************************************)
EXTENDS MatchQueue, TLAPS, SequenceTheorems, WellFoundedInduction

AfterDequeue == {"create", "matched", "assign", "chunk", "room", "restore", "requeue"}
Looping      == {"matched", "chunk", "restore", "requeue"}

\* The user states are well formed and the matches are a sequence.
Stored ==
    /\ status \in [Users -> Statuses]
    /\ \E S : matches \in Seq(S)
    /\ Len(matches) <= MaxMatches

\* A call that goes on has a caller; it removes the state of nobody who has a
\* match, and there is room for the match it may create.
CallState ==
    /\ pc # "free" => caller \in Users
    /\ pc \in {"set", "enqueue", "len", "dequeue", "create"} =>
            mode \in Modes /\ Len(matches) < MaxMatches
    /\ pc = "delete" => mode \in Modes /\ Len(matches) < MaxMatches
    /\ pc \in {"delete", "set"} => status[caller].state # "matched"
    /\ pc \in {"remove", "cancel"} => status[caller].state = "matching"
    /\ pc = "dequeue" => Required[mode] > 0

\* The group is not empty, and those still to be updated are of the group.
GroupState ==
    /\ pc \in AfterDequeue => group # <<>> /\ \E S : group \in Seq(S)
    /\ pc \in Looping =>
        /\ todo # <<>>
        /\ \E S : todo \in Seq(S)
        /\ Elems(todo) \subseteq Elems(group)
    /\ pc = "matched" => id \in 1 .. Len(matches) /\ matches[id] = Elems(group)

QueueInv == Stored /\ CallState /\ GroupState /\ MatchIsMine

-----------------------------------------------------------------------------
(* Sequences *)

\* A new match leaves the others as they are.
LEMMA AppendKeeps ==
    ASSUME NEW S, NEW s \in Seq(S), NEW x
    PROVE  /\ \E T : Append(s, x) \in Seq(T)
           /\ Len(s) \in Nat
           /\ Len(Append(s, x)) = Len(s) + 1
           /\ \A i \in 1 .. Len(s) : Append(s, x)[i] = s[i]
           /\ Append(s, x)[Len(s) + 1] = x
<1>1. s \in Seq(S \union {x}) /\ x \in S \union {x}
  OBVIOUS
<1>2. Append(s, x) \in Seq(S \union {x})
  BY <1>1
<1>3. QED
  BY <1>1, <1>2

\* The first element of a sequence and the elements of its tail are elements of it.
LEMMA HeadTailElems ==
    ASSUME NEW s, \E S : s \in Seq(S), s # <<>>
    PROVE  /\ Head(s) \in Elems(s)
           /\ \E S : Tail(s) \in Seq(S)
           /\ Elems(Tail(s)) \subseteq Elems(s)
           /\ Len(s) \in Nat
           /\ Len(s) > 1 \/ Len(s) # 1 => Tail(s) # <<>>
<1>1. PICK S : s \in Seq(S)
  OBVIOUS
<1>2. /\ Tail(s) \in Seq(S)
      /\ Len(s) \in Nat /\ Len(s) > 0
      /\ Len(Tail(s)) = Len(s) - 1
      /\ \A i \in 1 .. Len(Tail(s)) : Tail(s)[i] = s[i + 1]
      /\ DOMAIN s = 1 .. Len(s) /\ DOMAIN Tail(s) = 1 .. Len(Tail(s))
  BY <1>1, HeadTailProperties
<1>3. Head(s) = s[1] /\ 1 \in DOMAIN s
  BY <1>1, <1>2
<1>4. Elems(Tail(s)) \subseteq Elems(s)
  <2>1. ASSUME NEW i \in 1 .. Len(Tail(s)) PROVE i + 1 \in 1 .. Len(s)
    BY <1>2, <2>1
  <2>2. QED
    BY <1>2, <2>1 DEF Elems
<1>5. ASSUME Len(s) > 1 \/ Len(s) # 1 PROVE Tail(s) # <<>>
  <2>1. Len(Tail(s)) # 0
    BY <1>2, <1>5
  <2>2. QED
    BY <1>2, <2>1, EmptySeq
<1>6. QED
  BY <1>2, <1>3, <1>4, <1>5 DEF Elems

\* What DequeueBatch takes is a group of the size asked for, whatever the queue.
LEMMA DequeuedGroup ==
    ASSUME NEW s, NEW n \in Nat, n > 0
    PROVE  SubSeq(s, 1, n) # <<>> /\ \E S : SubSeq(s, 1, n) \in Seq(S)
<1> DEFINE S == {s[i] : i \in 1 .. n}
           g == SubSeq(s, 1, n)
<1>1. g \in Seq(S) /\ Len(g) = n
  BY SubSeqProperties
<1> HIDE DEF S, g
<1>2. g # <<>>
  BY <1>1, EmptySeq
<1>3. QED
  BY <1>1, <1>2 DEF g

-----------------------------------------------------------------------------
(* The inductive invariant *)

\* The state of a user who is not in Redis is well formed.
LEMMA NoStatusFacts == NoStatus \in Statuses /\ NoStatus.state = "none"
  BY QueueAssumption DEF NoStatus, Statuses

\* The invariant holds when nobody has joined.
LEMMA InitQueue == Init => QueueInv
<1> SUFFICES ASSUME Init PROVE QueueInv
  OBVIOUS
<1>1. NoStatus \in Statuses /\ NoStatus.state = "none"
  BY NoStatusFacts
<1>2. matches \in Seq({}) /\ Len(matches) = 0
  BY DEF Init
<1>3. Stored
  BY <1>1, <1>2, QueueAssumption DEF Init, Stored
<1>4. CallState /\ GroupState /\ MatchIsMine
  BY <1>1 DEF Init, CallState, GroupState, MatchIsMine, AfterDequeue, Looping
<1>5. QED
  BY <1>3, <1>4 DEF QueueInv

\* The call returns: what it stored stays.
LEMMA ReturnKeeps ==
    ASSUME QueueInv, Return, UNCHANGED <<status, matches>>
    PROVE  QueueInv'
  BY DEF QueueInv, Return, Stored, CallState, GroupState, MatchIsMine, AfterDequeue, Looping

\* A call begins with a user who has no match, or who waits.
LEMMA BeginKeeps ==
    ASSUME QueueInv, NEW u \in Users,
           (\E mo \in Modes : BeginJoin(u, mo)) \/ BeginCancel(u)
    PROVE  QueueInv'
<1>1. UNCHANGED <<status, matches>> /\ pc' \in {"delete", "set", "remove"} /\ caller' = u
  BY DEF BeginJoin, BeginCancel, storeVars
<1>2. Stored' /\ MatchIsMine'
  BY <1>1 DEF QueueInv, Stored, MatchIsMine
<1>3. GroupState'
  BY <1>1 DEF GroupState, AfterDequeue, Looping
<1>4. CallState'
  BY DEF BeginJoin, BeginCancel, storeVars, CallState
<1>5. QED
  BY <1>2, <1>3, <1>4 DEF QueueInv

\* Until the group is drawn, and in Cancel, only the state of the caller changes,
\* who has no match.
LEMMA CallerKeeps ==
    ASSUME QueueInv,
           \/ DeleteStatus \/ SetMatching \/ Enqueue \/ CheckLen
           \/ RemoveFromQueue \/ SetCancelled
    PROVE  /\ QueueInv'
           /\ \A u \in Users : status[u].state = "matched" => status'[u] = status[u]
<1> USE DEF QueueInv
<1>1. /\ matches' = matches
      /\ pc \in {"delete", "set", "enqueue", "len", "remove", "cancel"}
      /\ \/ /\ pc' \in {"set", "enqueue", "len", "dequeue", "cancel"}
            /\ UNCHANGED <<caller, mode, group, todo, id>>
         \/ Return
  BY DEF DeleteStatus, SetMatching, Enqueue, CheckLen, RemoveFromQueue, SetCancelled, Goto, storeVars
<1>2. (caller \in Users /\ status[caller].state # "matched") \/ status' = status
  BY <1>1 DEF CallState, DeleteStatus, SetMatching, Enqueue, CheckLen, RemoveFromQueue, SetCancelled,
              storeVars
<1>3. \E st \in Statuses :
        /\ st.state # "matched"
        /\ status' = status \/ status' = [status EXCEPT ![caller] = st]
  <2>1. /\ NoStatus \in Statuses /\ NoStatus.state # "matched"
        /\ mode \in Modes =>
            [NoStatus EXCEPT !.state = "matching", !.mode = mode] \in Statuses
        /\ [NoStatus EXCEPT !.state = "matching", !.mode = mode].state # "matched"
    <3>1. ASSUME NEW st \in Statuses
          PROVE  /\ mode \in Modes => [st EXCEPT !.state = "matching", !.mode = mode] \in Statuses
                 /\ [st EXCEPT !.state = "matching", !.mode = mode].state = "matching"
      BY DEF Statuses
    <3>2. QED
      BY <3>1, NoStatusFacts
  <2>2. CASE pc = "cancel" /\ SetCancelled
    <3>1. status[caller] \in Statuses
      BY <2>2 DEF Stored, CallState
    <3>2. [status[caller] EXCEPT !.state = "cancelled"] \in Statuses
      BY <3>1 DEF Statuses
    <3>3. [status[caller] EXCEPT !.state = "cancelled"].state # "matched"
      BY <3>1 DEF Statuses
    <3>4. QED
      BY <2>2, <3>2, <3>3 DEF SetCancelled
  <2>3. CASE ~SetCancelled
    BY <1>1, <2>1, <2>3
    DEF CallState, DeleteStatus, SetMatching, Enqueue, CheckLen, RemoveFromQueue, storeVars
  <2>4. QED
    BY <2>2, <2>3 DEF SetCancelled
<1>4. Stored' /\ MatchIsMine'
  BY <1>1, <1>3 DEF Stored, MatchIsMine
<1>5. \A u \in Users : status[u].state = "matched" => status'[u] = status[u]
  BY <1>2, <1>3 DEF Stored
<1>6. GroupState'
  BY <1>1 DEF Return, GroupState, AfterDequeue, Looping
<1>7. CallState'
  <2>1. CASE Return
    BY <2>1 DEF Return, CallState
  <2>2. CASE pc' = "set"
    <3>1. DeleteStatus
      BY <2>2 DEF DeleteStatus, SetMatching, Enqueue, CheckLen, RemoveFromQueue, SetCancelled, Goto, Return
    <3>2. status'[caller] = NoStatus /\ UNCHANGED <<caller, mode, matches>> /\ pc = "delete"
      BY <3>1 DEF DeleteStatus, Goto, CallState, Stored
    <3>3. QED
      BY <2>2, <3>2 DEF CallState, NoStatus
  <2>3. CASE pc' \in {"enqueue", "len"}
    <3>1. UNCHANGED <<caller, mode, matches>> /\ pc \in {"set", "enqueue"}
      BY <2>3, <1>1 DEF DeleteStatus, SetMatching, Enqueue, CheckLen, RemoveFromQueue, SetCancelled, Goto, Return
    <3>2. QED
      BY <2>3, <3>1 DEF CallState
  <2>4. CASE pc' = "dequeue"
    <3>1. CheckLen /\ pc = "len" /\ UNCHANGED <<caller, mode, matches, status>> /\ Required[mode] # 0
      BY <2>4, <1>1 DEF DeleteStatus, SetMatching, Enqueue, CheckLen, RemoveFromQueue, SetCancelled,
                        Goto, Return, storeVars
    <3>2. Required[mode] \in Nat
      BY <3>1, QueueAssumption DEF CallState
    <3>3. QED
      BY <2>4, <3>1, <3>2 DEF CallState
  <2>5. CASE pc' = "cancel"
    <3>1. pc = "remove" /\ UNCHANGED <<caller, status>>
      BY <2>5, <1>1 DEF DeleteStatus, SetMatching, Enqueue, CheckLen, RemoveFromQueue, SetCancelled, Goto, Return
    <3>2. QED
      BY <2>5, <3>1 DEF CallState
  <2>6. QED
    BY <1>1, <2>1, <2>2, <2>3, <2>4, <2>5
<1>8. QED
  BY <1>4, <1>5, <1>6, <1>7

\* A group is drawn and a match of exactly its users is created.
LEMMA CreateKeeps ==
    ASSUME QueueInv, Dequeue \/ CreateMatch
    PROVE  QueueInv'
<1> USE DEF QueueInv
<1>1. CASE Dequeue
  <2>1. /\ UNCHANGED <<status, matches, caller, mode>>
        /\ pc = "dequeue" /\ pc' = "create"
        /\ group' = SubSeq(queue[mode], 1, Required[mode])
    BY <1>1 DEF Dequeue
  <2>2. Required[mode] \in Nat /\ Required[mode] > 0
    BY <2>1, QueueAssumption DEF CallState
  <2>3. group' # <<>> /\ \E S : group' \in Seq(S)
    BY <2>1, <2>2, DequeuedGroup
  <2>4. Stored' /\ MatchIsMine'
    BY <2>1 DEF Stored, MatchIsMine
  <2>5. CallState' /\ GroupState'
    BY <2>1, <2>3 DEF CallState, GroupState, AfterDequeue, Looping
  <2>6. QED
    BY <2>4, <2>5
<1>2. CASE CreateMatch
  <2>1. /\ UNCHANGED <<status, caller, mode, group>>
        /\ pc = "create" /\ pc' = "matched"
        /\ matches' = Append(matches, Elems(group))
        /\ id' = Len(matches) + 1
        /\ todo' = group
    BY <1>2 DEF CreateMatch, InsertMatch
  <2>2. /\ \E S : matches' \in Seq(S)
        /\ Len(matches) \in Nat
        /\ Len(matches') = Len(matches) + 1
        /\ \A i \in 1 .. Len(matches) : matches'[i] = matches[i]
        /\ matches'[Len(matches) + 1] = Elems(group)
    <3>1. PICK S : matches \in Seq(S)
      BY DEF Stored
    <3>2. /\ \E T : Append(matches, Elems(group)) \in Seq(T)
          /\ Len(matches) \in Nat
          /\ Len(Append(matches, Elems(group))) = Len(matches) + 1
          /\ \A i \in 1 .. Len(matches) : Append(matches, Elems(group))[i] = matches[i]
          /\ Append(matches, Elems(group))[Len(matches) + 1] = Elems(group)
      BY ONLY <3>1, AppendKeeps, Zenon
    <3>3. QED
      BY ONLY <2>1, <3>2, Zenon
  <2>3. Len(matches) < MaxMatches /\ MaxMatches \in Nat
    BY <2>1, QueueAssumption DEF CallState
  <2>4. Stored'
    BY <2>1, <2>2, <2>3 DEF Stored
  <2>5. MatchIsMine'
    BY <2>1, <2>2 DEF MatchIsMine
  <2>6. CallState'
    BY <2>1 DEF CallState
  <2>7. GroupState'
    BY <2>1, <2>2 DEF GroupState, AfterDequeue, Looping
  <2>8. QED
    BY <2>4, <2>5, <2>6, <2>7
<1>3. QED
  BY <1>1, <1>2

\* The loops over the group send its users to their match, or take it back.
LEMMA LoopKeeps ==
    ASSUME QueueInv, MarkMatched \/ MarkChunk \/ RestoreStatus
    PROVE  /\ QueueInv'
           /\ \A u \in Users :
                status[u].state = "matched" /\ status'[u].state # "matched" =>
                    pc = "restore" /\ u \in Elems(group)
<1> USE DEF QueueInv
<1> DEFINE u0 == Head(todo)
<1>1. /\ UNCHANGED <<matches, caller, mode, group, id>>
      /\ pc \in {"matched", "chunk", "restore"}
      /\ pc' \in {"matched", "assign", "chunk", "room", "requeue"}
      /\ pc' = "matched" => pc = "matched"
      /\ pc' \in Looping => todo' = todo \/ (todo' = Tail(todo) /\ Len(todo) > 1)
  <2>1. CASE MarkMatched
    BY <2>1 DEF MarkMatched, NextUser, AfterMatched, Looping
  <2>2. CASE MarkChunk
    BY <2>2 DEF MarkChunk, NextUser, Looping
  <2>3. CASE RestoreStatus
    BY <2>3 DEF RestoreStatus, Goto, Looping
  <2>4. QED
    BY <2>1, <2>2, <2>3
<1>2. /\ u0 \in Elems(group)
      /\ \E S : Tail(todo) \in Seq(S)
      /\ Elems(Tail(todo)) \subseteq Elems(group)
      /\ Len(todo) > 1 => Tail(todo) # <<>>
  BY <1>1, HeadTailElems DEF GroupState, Looping
<1> HIDE DEF u0
<1>3. CallState' /\ GroupState'
  BY <1>1, <1>2 DEF CallState, GroupState, AfterDequeue, Looping
<1>4. \A u \in Users :
        /\ status'[u] \in Statuses
        /\ status'[u].state = "matched" =>
            \/ status[u].state = "matched" /\ status'[u].match = status[u].match
            \/ pc = "matched" /\ u = u0 /\ status'[u].match = id
        /\ status[u].state = "matched" /\ status'[u].state # "matched" =>
            pc = "restore" /\ u = u0
  <2> SUFFICES ASSUME NEW u \in Users
               PROVE  /\ status'[u] \in Statuses
                      /\ status'[u].state = "matched" =>
                            \/ status[u].state = "matched" /\ status'[u].match = status[u].match
                            \/ pc = "matched" /\ u = u0 /\ status'[u].match = id
                      /\ status[u].state = "matched" /\ status'[u].state # "matched" =>
                            pc = "restore" /\ u = u0
    OBVIOUS
  <2>1. status[u] \in Statuses
    BY DEF Stored
  <2>2. CASE MarkMatched
    <3>1. pc = "matched" /\ id \in 0 .. MaxMatches
      BY <2>2, QueueAssumption DEF MarkMatched, GroupState, Stored
    <3>2. \/ status'[u] = status[u]
          \/ u = u0 /\ status'[u] = [status[u] EXCEPT !.state = "matched", !.match = id]
      BY <2>2 DEF MarkMatched, u0, Stored
    <3>3. QED
      BY <2>1, <3>1, <3>2 DEF Statuses
  <2>3. CASE MarkChunk
    <3>1. status'[u] = status[u] \/ status'[u] = [status[u] EXCEPT !.chunk = TRUE]
      BY <2>3 DEF MarkChunk, Stored
    <3>2. QED
      BY <2>1, <3>1 DEF Statuses
  <2>4. CASE RestoreStatus
    <3>1. pc = "restore" /\ 0 \in 0 .. MaxMatches
      BY <2>4, QueueAssumption DEF RestoreStatus
    <3>2. \/ status'[u] = status[u]
          \/ /\ u = u0
             /\ status'[u] = [status[u] EXCEPT !.state = "matching", !.match = 0, !.chunk = FALSE]
      BY <2>4 DEF RestoreStatus, u0, Stored
    <3>3. QED
      BY <2>1, <3>1, <3>2 DEF Statuses
  <2>5. QED
    BY <2>2, <2>3, <2>4
<1>5. \E f : status' = [u \in Users |-> f[u]]
  <2>1. \A x, y : [status EXCEPT ![x] = y] = [u \in Users |-> [status EXCEPT ![x] = y][u]]
    BY DEF Stored
  <2>2. QED
    BY <2>1 DEF MarkMatched, MarkChunk, RestoreStatus
<1>6. Stored'
  BY <1>1, <1>4, <1>5 DEF Stored
<1>7. MatchIsMine'
  BY <1>1, <1>2, <1>4 DEF MatchIsMine, GroupState
<1>8. QED
  BY <1>2, <1>3, <1>4, <1>6, <1>7

\* The steps of Join between its loops.
LEMMA BetweenKeeps ==
    ASSUME QueueInv, AssignChunk \/ CreateRoom \/ RestoreQueue
    PROVE  QueueInv' /\ status' = status
<1> USE DEF QueueInv
<1>1. status' = status /\ matches' = matches
  BY DEF AssignChunk, CreateRoom, RestoreQueue, storeVars
<1>2. CASE AssignChunk
  BY <1>1, <1>2 DEF AssignChunk, Stored, CallState, GroupState, MatchIsMine, AfterDequeue, Looping
<1>3. CASE Return
  BY <1>1, <1>3, ReturnKeeps
<1>4. CASE RestoreQueue /\ ~Return
  <2>1. /\ pc = "requeue" /\ pc' = "restore" /\ Len(todo) # 1
        /\ todo' = Tail(todo) /\ UNCHANGED <<caller, mode, group, id>>
    BY <1>4 DEF RestoreQueue
  <2>2. /\ Tail(todo) # <<>> /\ \E S : Tail(todo) \in Seq(S)
        /\ Elems(Tail(todo)) \subseteq Elems(group)
    <3>1. todo # <<>> /\ (\E S : todo \in Seq(S)) /\ Elems(todo) \subseteq Elems(group)
      BY <2>1 DEF GroupState, Looping
    <3>2. QED
      BY <2>1, <3>1, HeadTailElems
  <2>3. QED
    BY <1>1, <2>1, <2>2 DEF Stored, CallState, GroupState, MatchIsMine, AfterDequeue, Looping
<1>5. QED
  BY <1>1, <1>2, <1>3, <1>4 DEF CreateRoom

\* Failing calls and restarts leave the states of the users alone; a match may be
\* created although the group goes back to the queue.
LEMMA FailureKeeps ==
    ASSUME QueueInv, CreateFails \/ CallFails \/ Restart
    PROVE  QueueInv' /\ status' = status
<1> USE DEF QueueInv
<1>1. CASE CallFails \/ Restart
  BY <1>1, ReturnKeeps DEF CallFails, Restart, storeVars
<1>2. CASE CreateFails
  <2>1. /\ status' = status /\ UNCHANGED <<caller, mode, group, id>>
        /\ pc \in {"create", "assign"} /\ pc' = "restore" /\ todo' = group
        /\ \/ matches' = matches
           \/ pc = "create" /\ matches' = Append(matches, Elems(group))
    BY <1>2 DEF CreateFails, Restore, InsertMatch
  <2>2. /\ Stored'
        /\ Len(matches) \in Nat /\ Len(matches') \in Nat /\ Len(matches) <= Len(matches')
        /\ \A i \in 1 .. Len(matches) : matches'[i] = matches[i]
    <3>1. CASE matches' = matches
      BY <2>1, <3>1 DEF Stored
    <3>2. CASE pc = "create" /\ matches' = Append(matches, Elems(group))
      <4>1. Len(matches) < MaxMatches /\ MaxMatches \in Nat
        BY <3>2, QueueAssumption DEF CallState
      <4>2. /\ \E S : matches' \in Seq(S)
            /\ Len(matches) \in Nat
            /\ Len(matches') = Len(matches) + 1
            /\ \A i \in 1 .. Len(matches) : matches'[i] = matches[i]
        <5>1. PICK S : matches \in Seq(S)
          BY DEF Stored
        <5>2. /\ \E T : Append(matches, Elems(group)) \in Seq(T)
              /\ Len(matches) \in Nat
              /\ Len(Append(matches, Elems(group))) = Len(matches) + 1
              /\ \A i \in 1 .. Len(matches) : Append(matches, Elems(group))[i] = matches[i]
              /\ Append(matches, Elems(group))[Len(matches) + 1] = Elems(group)
          BY ONLY <5>1, AppendKeeps, Zenon
        <5>3. QED
          BY ONLY <3>2, <5>2, Zenon
      <4>3. QED
        BY <2>1, <4>1, <4>2 DEF Stored
    <3>3. QED
      BY <2>1, <3>1, <3>2
  <2>3. MatchIsMine'
    BY <2>1, <2>2 DEF MatchIsMine
  <2>4. CallState' /\ GroupState'
    BY <2>1 DEF CallState, GroupState, AfterDequeue, Looping
  <2>5. QED
    BY <2>1, <2>2, <2>3, <2>4
<1>3. QED
  BY <1>1, <1>2

\* Every step keeps the invariant, and none but that of a restoring Join takes a
\* match from a user.
LEMMA NextQueue ==
    ASSUME QueueInv, [Next]_vars
    PROVE  /\ QueueInv'
           /\ \A u \in Users :
                status[u].state = "matched" /\ status'[u].state # "matched" =>
                    pc = "restore" /\ u \in Elems(group)
<1>1. CASE UNCHANGED vars
  BY <1>1 DEF vars, storeVars, callVars, QueueInv, Stored, CallState, GroupState, MatchIsMine,
              AfterDequeue, Looping
<1>2. CASE (\E u \in Users, mo \in Modes : BeginJoin(u, mo)) \/ \E u \in Users : BeginCancel(u)
  <2>1. PICK u \in Users : (\E mo \in Modes : BeginJoin(u, mo)) \/ BeginCancel(u)
    BY <1>2
  <2>2. QED
    BY <2>1, BeginKeeps DEF BeginJoin, BeginCancel, storeVars
<1>3. CASE Dequeue \/ CreateMatch
  BY <1>3, CreateKeeps DEF Dequeue, CreateMatch
<1>4. QED
  BY <1>1, <1>2, <1>3, CallerKeeps, LoopKeeps, BetweenKeeps, FailureKeeps DEF Next, JoinStep

-----------------------------------------------------------------------------
(* Theorems *)

\* The invariant, for every instance.
THEOREM QueueInvariant == Spec => []QueueInv
  BY InitQueue, NextQueue, PTL DEF Spec

\* The match a user is sent to exists, and the user is one of its players.
THEOREM SentToOwnMatch == Spec => []MatchIsMine
<1>1. QueueInv => MatchIsMine
  BY DEF QueueInv
<1>2. QED
  BY <1>1, QueueInvariant, PTL

\* Nothing but the Join that matched a group, while it puts the group back, ends
\* a match for the queue.
THEOREM MatchesLast == Spec => MatchedForGood
<1>1. QueueInv /\ [Next]_vars =>
        [\A u \in Users :
            status[u].state = "matched" /\ status'[u].state # "matched" =>
                pc = "restore" /\ u \in Elems(group)]_vars
  BY NextQueue
<1>2. QED
  BY <1>1, QueueInvariant, PTL DEF Spec, MatchedForGood

-----------------------------------------------------------------------------
(* What the queues and the groups hold *)

\* No element stands at two places.
NoDup(s) == \A i, j \in DOMAIN s : s[i] = s[j] => i = j

\* A set of naturals that is not empty has a least element.
LEMMA LeastNat ==
    ASSUME NEW T \in SUBSET Nat, T # {}
    PROVE  \E n \in T : \A m \in T : n <= m
<1> DEFINE R == OpToRel(<, Nat)
<1>1. \A m, n \in Nat : m < n => <<m, n>> \in R
  BY DEF OpToRel
<1>2. IsWellFoundedOn(R, Nat)
  BY NatLessThanWellFounded
<1> HIDE DEF R
<1>3. PICK n \in T : \A m \in T : ~ (<<m, n>> \in R)
  BY <1>2, WFMin
<1>4. ASSUME NEW m \in T PROVE n <= m
  <2>1. m \in Nat /\ n \in Nat /\ ~ (m < n)
    BY <1>1, <1>3
  <2>2. QED
    BY <2>1
<1>5. QED
  BY <1>4

\* The empty sequence holds nothing.
LEMMA EmptyFacts == NoDup(<<>>) /\ Elems(<<>>) = {} /\ Len(<<>>) = 0
  BY DEF NoDup, Elems

\* Enqueue adds one user at the end.
LEMMA AppendFacts ==
    ASSUME NEW S, NEW s \in Seq(S), NEW x \in S
    PROVE  /\ Append(s, x) \in Seq(S)
           /\ Len(s) \in Nat /\ Len(Append(s, x)) = Len(s) + 1
           /\ Elems(Append(s, x)) = Elems(s) \union {x}
           /\ NoDup(s) /\ x \notin Elems(s) => NoDup(Append(s, x))
<1> DEFINE t == Append(s, x)
<1>1. /\ t \in Seq(S)
      /\ Len(s) \in Nat /\ Len(t) = Len(s) + 1
      /\ \A i \in 1 .. Len(s) : t[i] = s[i]
      /\ t[Len(s) + 1] = x
      /\ DOMAIN s = 1 .. Len(s) /\ DOMAIN t = 1 .. Len(t)
  BY AppendProperties, LenProperties
<1> HIDE DEF t
<1>2. 1 .. Len(t) = 1 .. Len(s) \union {Len(s) + 1}
  BY <1>1
<1>3. Elems(t) = Elems(s) \union {x}
  BY <1>1, <1>2 DEF Elems
<1>4. ASSUME NoDup(s), x \notin Elems(s) PROVE NoDup(t)
  BY <1>1, <1>2, <1>4 DEF Elems, NoDup
<1>5. QED
  BY <1>1, <1>3, <1>4 DEF t

\* A loop over the group is done with one user at a time.
LEMMA TailFacts ==
    ASSUME NEW S, NEW s \in Seq(S), s # <<>>
    PROVE  /\ Head(s) \in S /\ Tail(s) \in Seq(S)
           /\ Len(s) \in Nat \ {0} /\ Len(Tail(s)) = Len(s) - 1
           /\ Elems(s) = Elems(Tail(s)) \union {Head(s)}
           /\ NoDup(s) => NoDup(Tail(s)) /\ Head(s) \notin Elems(Tail(s))
           /\ Len(s) = 1 => Tail(s) = <<>>
<1> DEFINE t == Tail(s)
<1>1. /\ t \in Seq(S) /\ Head(s) \in S
      /\ Len(s) \in Nat \ {0} /\ Len(t) = Len(s) - 1
      /\ \A i \in 1 .. Len(t) : t[i] = s[i + 1]
      /\ Head(s) = s[1]
      /\ DOMAIN s = 1 .. Len(s) /\ DOMAIN t = 1 .. Len(t)
  BY HeadTailProperties, LenProperties, EmptySeq
<1>2. Len(s) = 1 => t = <<>>
  <2>1. t # <<>> => Len(t) \in Nat \ {0}
    BY <1>1, EmptySeq
  <2>2. QED
    BY <1>1, <2>1
<1> HIDE DEF t
<1>3. \A i \in 1 .. Len(s) : i = 1 \/ i - 1 \in 1 .. Len(t)
  BY <1>1
<1>4. \A i \in 1 .. Len(t) : i + 1 \in 1 .. Len(s) /\ i + 1 # 1
  BY <1>1
<1>5. 1 \in 1 .. Len(s)
  BY <1>1
<1>6. Elems(s) = Elems(t) \union {Head(s)}
  <2>1. ASSUME NEW i \in 1 .. Len(s) PROVE s[i] \in Elems(t) \union {s[1]}
    <3>1. CASE i - 1 \in 1 .. Len(t)
      <4>1. t[i - 1] = s[i - 1 + 1] /\ i - 1 + 1 = i
        BY <1>1, <3>1
      <4>2. QED
        BY <1>1, <3>1, <4>1 DEF Elems
    <3>2. QED
      BY <1>3, <3>1
  <2>2. ASSUME NEW i \in 1 .. Len(t) PROVE t[i] \in Elems(s)
    BY <1>1, <1>4 DEF Elems
  <2>3. Head(s) \in Elems(s)
    <3>1. s[1] \in Elems(s)
      BY <1>1, <1>5 DEF Elems
    <3>2. QED
      BY <1>1, <3>1
  <2>4. Elems(s) \subseteq Elems(t) \union {Head(s)}
    <3>1. Elems(s) \subseteq Elems(t) \union {s[1]}
      BY <1>1, <2>1 DEF Elems
    <3>2. QED
      BY <1>1, <3>1
  <2>5. Elems(t) \subseteq Elems(s)
    BY <1>1, <2>2 DEF Elems
  <2>6. \A x : x \in Elems(s) <=> x \in Elems(t) \union {Head(s)}
    BY <2>3, <2>4, <2>5
  <2>7. QED
    BY <2>6, Zenon
<1>7. ASSUME NoDup(s) PROVE NoDup(t) /\ s[1] \notin Elems(t)
  <2> USE <1>1
  <2>1. \A i, j \in 1 .. Len(s) : s[i] = s[j] => i = j
    BY <1>7 DEF NoDup
  <2>2. ASSUME NEW i \in 1 .. Len(t), NEW j \in 1 .. Len(t), t[i] = t[j] PROVE i = j
    <3>1. i + 1 = j + 1
      BY <1>4, <2>1, <2>2
    <3>2. QED
      BY <3>1
  <2>3. ASSUME NEW i \in 1 .. Len(t), t[i] = s[1] PROVE FALSE
    BY <1>4, <1>5, <2>1, <2>3
  <2>4. NoDup(t) /\ s[1] \notin Elems(t)
    BY <2>2, <2>3 DEF NoDup, Elems
  <2>5. QED
    BY <2>4
<1>8. QED
  BY <1>1, <1>2, <1>6, <1>7 DEF t

\* DequeueBatch splits a queue.
LEMMA SplitFacts ==
    ASSUME NEW S, NEW s \in Seq(S), NEW n \in 1 .. Len(s)
    PROVE  /\ SubSeq(s, 1, n) \in Seq(S) /\ SubSeq(s, n + 1, Len(s)) \in Seq(S)
           /\ Len(SubSeq(s, 1, n)) = n
           /\ Len(SubSeq(s, n + 1, Len(s))) = Len(s) - n
           /\ Elems(s) = Elems(SubSeq(s, 1, n)) \union Elems(SubSeq(s, n + 1, Len(s)))
           /\ NoDup(s) => /\ NoDup(SubSeq(s, 1, n)) /\ NoDup(SubSeq(s, n + 1, Len(s)))
                          /\ Elems(SubSeq(s, 1, n)) \cap Elems(SubSeq(s, n + 1, Len(s))) = {}
<1> DEFINE a == SubSeq(s, 1, n)
           b == SubSeq(s, n + 1, Len(s))
           N == Len(s)
<1>1. /\ N \in Nat /\ n \in 1 .. N /\ DOMAIN s = 1 .. N
      /\ \A i \in 1 .. N : s[i] \in S
  BY LenProperties, ElementOfSeq
<1>2. /\ a \in Seq(S) /\ Len(a) = n
      /\ \A i \in 1 .. n : a[i] = s[i]
  BY <1>1, SubSeqProperties
<1>3. /\ b \in Seq(S) /\ Len(b) = N - n
      /\ \A i \in 1 .. N - n : b[i] = s[n + i]
  <2>1. \A i \in n + 1 .. N : s[i] \in S
    BY <1>1
  <2>2. /\ b \in Seq(S) /\ Len(b) = IF n + 1 <= N THEN N - (n + 1) + 1 ELSE 0
        /\ \A i \in 1 .. N - (n + 1) + 1 : b[i] = s[n + 1 + i - 1]
    BY <1>1, <2>1, SubSeqProperties
  <2>3. N - (n + 1) + 1 = N - n /\ \A i \in 1 .. N - n : n + 1 + i - 1 = n + i
    BY <1>1
  <2>4. Len(b) = N - n
    <3> HIDE DEF b, N
    <3>1. QED
      BY <1>1, <2>2
  <2>5. \A i \in 1 .. N - n : b[i] = s[n + i]
    <3> HIDE DEF b, N
    <3>1. QED
      BY <2>2, <2>3
  <2>6. QED
    BY <2>2, <2>4, <2>5
<1>4. DOMAIN a = 1 .. n /\ DOMAIN b = 1 .. N - n
  BY <1>2, <1>3, LenProperties
<1> HIDE DEF a, b, N
<1>5. /\ \A i \in 1 .. N : i \in 1 .. n \/ i - n \in 1 .. N - n
      /\ \A i \in 1 .. N - n : n + i \in 1 .. N /\ n + i \notin 1 .. n
      /\ \A i \in 1 .. n : i \in 1 .. N
      /\ \A i \in 1 .. N : n + (i - n) = i
  BY <1>1
<1>6. Elems(s) = Elems(a) \union Elems(b)
  <2>1. ASSUME NEW i \in 1 .. N PROVE s[i] \in Elems(a) \union Elems(b)
    <3>1. CASE i \in 1 .. n
      BY <1>2, <1>4, <3>1 DEF Elems
    <3>2. CASE i - n \in 1 .. N - n
      <4>1. b[i - n] = s[i]
        BY <1>3, <1>5, <3>2
      <4>2. QED
        BY <1>4, <3>2, <4>1 DEF Elems
    <3>3. QED
      BY <1>5, <3>1, <3>2
  <2>2. \A i \in 1 .. n : a[i] \in Elems(s)
    BY <1>1, <1>2, <1>5 DEF Elems
  <2>3. \A i \in 1 .. N - n : b[i] \in Elems(s)
    BY <1>1, <1>3, <1>5 DEF Elems
  <2>4. QED
    BY <1>1, <1>4, <2>1, <2>2, <2>3 DEF Elems
<1>7. ASSUME NoDup(s) PROVE NoDup(a) /\ NoDup(b) /\ Elems(a) \cap Elems(b) = {}
  <2>1. \A i, j \in 1 .. N : s[i] = s[j] => i = j
    BY <1>1, <1>7 DEF NoDup
  <2>2. NoDup(a)
    BY <1>2, <1>4, <1>5, <2>1 DEF NoDup
  <2>3. NoDup(b)
    <3>1. ASSUME NEW i \in 1 .. N - n, NEW j \in 1 .. N - n, b[i] = b[j] PROVE i = j
      <4>1. n + i = n + j
        BY <1>3, <1>5, <2>1, <3>1
      <4>2. QED
        BY <1>1, <3>1, <4>1
    <3>2. QED
      BY <1>4, <3>1 DEF NoDup
  <2>4. ASSUME NEW i \in 1 .. n, NEW j \in 1 .. N - n, a[i] = b[j] PROVE FALSE
    BY <1>2, <1>3, <1>5, <2>1, <2>4
  <2>5. QED
    BY <1>4, <2>2, <2>3, <2>4 DEF Elems
<1>8. QED
  BY <1>2, <1>3, <1>6, <1>7 DEF a, b, N

\* f[i] is what Without keeps of the first i elements of s, up to n.
Keeps(f, s, u, n) ==
    f = [i \in 0 .. n |->
            IF i = 0 THEN <<>>
            ELSE IF s[i] = u THEN f[i - 1] ELSE Append(f[i - 1], s[i])]

\* The recursion of Without has a solution.
LEMMA KeepsExists ==
    ASSUME NEW s, NEW u, NEW n \in Nat
    PROVE  \E f : Keeps(f, s, u, n)
<1> DEFINE T == {k \in Nat : ~ \E f : Keeps(f, s, u, k)}
<1> SUFFICES ASSUME T # {} PROVE FALSE
  OBVIOUS
<1>1. PICK k \in T : \A m \in T : k <= m
  BY LeastNat
<1>2. k # 0
  <2>1. Keeps([i \in 0 .. 0 |-> <<>>], s, u, 0)
    BY DEF Keeps
  <2>2. QED
    BY <2>1
<1>3. k - 1 \in Nat /\ k - 1 \notin T
  BY <1>1, <1>2
<1>4. PICK h : Keeps(h, s, u, k - 1)
  BY <1>3
<1> DEFINE Val(g, i) == IF i = 0 THEN <<>>
                        ELSE IF s[i] = u THEN g[i - 1] ELSE Append(g[i - 1], s[i])
           f == [i \in 0 .. k |-> Val(h, i)]
<1>5. h = [i \in 0 .. k - 1 |-> Val(h, i)]
  BY <1>4 DEF Keeps
<1>6. \A i \in 0 .. k - 1 : h[i] = Val(h, i) /\ f[i] = Val(h, i)
  <2>1. \A i \in 0 .. k - 1 : i \in 0 .. k
    BY <1>3
  <2> HIDE DEF Val
  <2>2. QED
    BY <1>5, <2>1
<1>7. \A i \in 0 .. k : Val(f, i) = Val(h, i)
  <2>1. \A i \in 0 .. k : i # 0 => i - 1 \in 0 .. k - 1
    BY <1>3
  <2>2. \A i \in 0 .. k : i # 0 => f[i - 1] = h[i - 1]
    BY <1>6, <2>1
  <2> HIDE DEF f
  <2>3. QED
    BY <2>2
<1>8. f = [i \in 0 .. k |-> Val(f, i)]
  <2> HIDE DEF Val
  <2>1. QED
    BY <1>7
<1>9. Keeps(f, s, u, k)
  <2> HIDE DEF f
  <2>1. QED
    BY <1>8 DEF Keeps
<1>10. QED
  BY <1>9, <1>1

\* Without is what the recursion keeps of the whole sequence.
LEMMA WithoutKeeps ==
    ASSUME NEW S, NEW s \in Seq(S), NEW u
    PROVE  \E f : Keeps(f, s, u, Len(s)) /\ Without(s, u) = f[Len(s)]
<1> DEFINE Kept == CHOOSE f : f = [i \in 0 .. Len(s) |->
                                    IF i = 0 THEN <<>>
                                    ELSE IF s[i] = u THEN f[i - 1] ELSE Append(f[i - 1], s[i])]
<1>1. Without(s, u) = Kept[Len(s)]
  BY DEF Without
<1>2. Len(s) \in Nat
  BY LenProperties
<1>3. \E f : Keeps(f, s, u, Len(s))
  BY <1>2, KeepsExists
<1>4. Keeps(Kept, s, u, Len(s))
  BY <1>3, Zenon DEF Keeps
<1>5. QED
  BY <1>1, <1>4

\* RemoveFromQueue leaves the others in the queue.
LEMMA WithoutFacts ==
    ASSUME NEW S, NEW s \in Seq(S), NEW u
    PROVE  /\ Without(s, u) \in Seq(S)
           /\ Len(s) \in Nat /\ Len(Without(s, u)) <= Len(s)
           /\ Elems(Without(s, u)) = Elems(s) \ {u}
           /\ NoDup(s) => NoDup(Without(s, u))
<1>1. Len(s) \in Nat /\ DOMAIN s = 1 .. Len(s) /\ \A i \in 1 .. Len(s) : s[i] \in S
  BY LenProperties, ElementOfSeq
<1>2. PICK f : Keeps(f, s, u, Len(s)) /\ Without(s, u) = f[Len(s)]
  BY WithoutKeeps
<1> DEFINE Good(k) == /\ f[k] \in Seq(S) /\ Len(f[k]) <= k
                      /\ Elems(f[k]) = {s[i] : i \in 1 .. k} \ {u}
                      /\ NoDup(s) => NoDup(f[k])
           T == {k \in 0 .. Len(s) : ~ Good(k)}
<1>3. T = {}
  <2> SUFFICES ASSUME T # {} PROVE FALSE
    OBVIOUS
  <2>1. PICK k \in T : \A m \in T : k <= m
    <3>1. T \in SUBSET Nat
      BY <1>1
    <3> HIDE DEF T
    <3>2. QED
      BY <3>1, LeastNat
  <2>2. k \in 0 .. Len(s) /\ ~ Good(k)
    BY <2>1
  <2>3. k # 0
    <3>1. f[0] = <<>>
      BY <1>1, <1>2 DEF Keeps
    <3>2. {s[i] : i \in 1 .. 0} = {}
      OBVIOUS
    <3>3. Good(0)
      BY <3>1, <3>2, EmptyFacts, EmptySeq
    <3>4. QED
      BY <2>2, <3>3
  <2>4. k \in 1 .. Len(s) /\ k - 1 \in 0 .. Len(s) /\ k - 1 \notin T
    <3>1. k \in 1 .. Len(s) /\ k - 1 \in 0 .. Len(s) /\ ~ (k <= k - 1)
      BY <1>1, <2>2, <2>3
    <3> HIDE DEF T
    <3>2. QED
      BY <2>1, <3>1
  <2>5. Good(k - 1)
    BY <2>4
  <2> HIDE DEF T
  <2> DEFINE g == f[k - 1]
             E(m) == {s[i] : i \in 1 .. m}
  <2>6. f[k] = IF s[k] = u THEN g ELSE Append(g, s[k])
    BY <1>2, <2>2, <2>3 DEF Keeps
  <2>7. E(k) = E(k - 1) \union {s[k]}
    <3>1. 1 .. k = 1 .. k - 1 \union {k}
      BY <1>1, <2>4
    <3>2. QED
      BY <3>1
  <2>8. /\ g \in Seq(S) /\ Len(g) <= k - 1 /\ Elems(g) = E(k - 1) \ {u}
        /\ NoDup(s) => NoDup(g)
    BY <2>5
  <2>9. NoDup(s) => s[k] \notin E(k - 1)
    <3> SUFFICES ASSUME NoDup(s), NEW i \in 1 .. k - 1, s[i] = s[k] PROVE FALSE
      OBVIOUS
    <3>1. i \in DOMAIN s /\ k \in DOMAIN s /\ i # k
      BY <1>1, <2>4
    <3>2. QED
      BY <3>1 DEF NoDup
  <2>10. /\ f[k] \in Seq(S) /\ Len(f[k]) <= k /\ Elems(f[k]) = E(k) \ {u}
         /\ NoDup(s) => NoDup(f[k])
    <3> HIDE DEF g, E, Good
    <3>1. Len(g) \in Nat /\ k \in Nat
      BY <1>1, <2>4, <2>8, LenProperties
    <3>2. CASE s[k] = u
      BY <2>6, <2>7, <2>8, <3>1, <3>2
    <3>3. CASE s[k] # u
      <4>1. s[k] \in S
        BY <1>1, <2>4
      <4>2. /\ Append(g, s[k]) \in Seq(S)
            /\ Len(Append(g, s[k])) = Len(g) + 1
            /\ Elems(Append(g, s[k])) = Elems(g) \union {s[k]}
            /\ NoDup(g) /\ s[k] \notin Elems(g) => NoDup(Append(g, s[k]))
        BY <2>8, <4>1, AppendFacts
      <4>3. QED
        BY <2>6, <2>7, <2>8, <2>9, <3>1, <3>3, <4>2
    <3>4. QED
      BY <3>2, <3>3
  <2>11. QED
    BY <2>2, <2>10
<1>4. Good(Len(s))
  <2>1. Len(s) \in 0 .. Len(s)
    BY <1>1
  <2> HIDE DEF Good
  <2>2. QED
    BY <1>3, <2>1
<1>5. {s[i] : i \in 1 .. Len(s)} = Elems(s)
  BY <1>1 DEF Elems
<1>6. QED
  BY <1>1, <1>2, <1>4, <1>5

-----------------------------------------------------------------------------
(* The users of the queues and of the group, whatever fails *)

\* The match of a Join that is not through with it.
Unfinished == {"matched", "assign", "chunk", "room"}

\* What QueuedWait says, queue by queue.
QueuesHold ==
    \A mo \in Modes :
        /\ NoDup(queue[mo])
        /\ \A u \in Elems(queue[mo]) : status[u].state = "matching" /\ status[u].mode = mo

\* The caller of a Join is not queued before Enqueue, that of a Cancel not after
\* RemoveFromQueue; a group is drawn from a queue that is long enough.
Unqueued ==
    /\ pc \in {"delete", "set"} => status[caller].state # "matching"
    /\ pc = "enqueue" => status[caller].state = "matching" /\ status[caller].mode = mode
    /\ pc \in {"enqueue", "cancel"} => \A mo \in Modes : caller \notin Elems(queue[mo])
    /\ pc = "remove" => mode = status[caller].mode
    /\ pc = "dequeue" => Len(queue[mode]) >= Required[mode]

\* The users of the group wait for the mode or have a match in it, nobody twice; the
\* queues hold none of them, or none that is still to be put back.
DrawnGroup ==
    /\ mode \in Modes
    /\ NoDup(group)
    /\ \A u \in Elems(group) : status[u].state \in {"matching", "matched"} /\ status[u].mode = mode
    /\ pc \in Looping => NoDup(todo)
    /\ \A mo \in Modes : \A u \in Elems(queue[mo]) :
            IF pc \in {"restore", "requeue"} THEN u \notin Elems(todo) ELSE u \notin Elems(group)
    /\ pc = "create" => \A u \in Elems(group) : status[u].state = "matching"
    /\ pc = "matched" => \A u \in Elems(todo) : status[u].state = "matching"
    /\ pc = "requeue" => status[Head(todo)].state = "matching"

WaitInv ==
    /\ TypeOK
    /\ QueuesHold
    /\ Unqueued
    /\ pc \in AfterDequeue => DrawnGroup
    /\ pc \in Unfinished => id \in 1 .. Len(matches)

\* What a sequence holds is of the set it is a sequence over.
LEMMA ElemsIn == ASSUME NEW S, NEW s \in Seq(S) PROVE Elems(s) \subseteq S
  BY LenProperties, ElementOfSeq DEF Elems

\* Two queues share no user, for a user waits in one mode.
LEMMA QueuesHoldEnough == ASSUME TypeOK, QueuesHold PROVE QueuedWait
<1>1. ASSUME NEW mo \in Modes, NEW no \in Modes,
             NEW i \in DOMAIN queue[mo], NEW j \in DOMAIN queue[no], queue[mo][i] = queue[no][j]
      PROVE  mo = no /\ i = j
  <2>1. queue[mo][i] \in Elems(queue[mo]) /\ queue[no][j] \in Elems(queue[no])
    BY DEF Elems
  <2>2. mo = no
    BY <1>1, <2>1 DEF QueuesHold
  <2>3. QED
    BY <1>1, <2>2 DEF QueuesHold, NoDup
<1>2. \A mo \in Modes : \A u \in Elems(queue[mo]) :
            status[u].state = "matching" /\ status[u].mode = mo
  BY DEF QueuesHold
<1>3. QED
  BY <1>1, <1>2 DEF QueuedWait

\* The invariant holds when nobody has joined.
LEMMA InitWait == Init => WaitInv
<1> SUFFICES ASSUME Init PROVE WaitInv
  OBVIOUS
<1>1. TypeOK
  <2>1. matches \in Seq(SUBSET Users) /\ Len(matches) = 0 /\ <<>> \in Seq(Users)
    BY EmptySeq DEF Init
  <2>2. rooms \subseteq 1 .. Len(matches) /\ id \in 0 .. Len(matches) /\ Len(matches) <= MaxMatches
    BY <2>1, QueueAssumption DEF Init
  <2>3. status \in [Users -> Statuses] /\ queue \in [Modes -> Seq(Users)]
    BY <2>1, NoStatusFacts DEF Init
  <2>4. QED
    BY <2>1, <2>2, <2>3 DEF Init, TypeOK, Control
<1>2. QueuesHold
  BY EmptyFacts DEF Init, QueuesHold
<1>3. QED
  BY <1>1, <1>2 DEF Init, WaitInv, Unqueued, AfterDequeue, Unfinished

\* A call that returns has nothing in its hands.
LEMMA ReturnWaits ==
    ASSUME WaitInv, Return, matches' = matches, failed' \in BOOLEAN,
           rooms' \subseteq 1 .. Len(matches),
           status' \in [Users -> Statuses], queue' \in [Modes -> Seq(Users)], QueuesHold'
    PROVE  WaitInv'
<1>1. Len(matches) \in Nat /\ <<>> \in Seq(Users)
  BY EmptySeq, LenProperties DEF WaitInv, TypeOK
<1>2. TypeOK'
  BY <1>1 DEF WaitInv, TypeOK, Return, Control
<1>3. QED
  BY <1>2 DEF WaitInv, Return, Unqueued, AfterDequeue, Unfinished

\* A call begins: Join with a user who does not wait, Cancel with one who does.
LEMMA BeginWaits ==
    ASSUME WaitInv, UNCHANGED failed, NEW u \in Users,
           (\E mo \in Modes : BeginJoin(u, mo)) \/ BeginCancel(u)
    PROVE  WaitInv'
<1>1. /\ pc = "free" /\ UNCHANGED <<storeVars, group, todo, id>> /\ caller' = u
      /\ mode' \in Modes \union {NoMode}
      /\ \/ pc' \in {"delete", "set"} /\ status[u].state # "matching"
         \/ pc' = "remove" /\ mode' = status[u].mode
  <2>1. status[u].mode \in Modes \union {NoMode}
    BY DEF WaitInv, TypeOK, Statuses
  <2>2. QED
    BY <2>1 DEF BeginJoin, BeginCancel, storeVars
<1>2. TypeOK'
  BY <1>1 DEF WaitInv, TypeOK, storeVars, Control
<1>3. QueuesHold' /\ Unqueued'
  BY <1>1 DEF WaitInv, QueuesHold, Unqueued, storeVars
<1>4. QED
  BY <1>1, <1>2, <1>3 DEF WaitInv, AfterDequeue, Unfinished

\* Before a group is drawn, and in Cancel.
LEMMA CallerWaits ==
    ASSUME QueueInv, QueueInv', WaitInv, UNCHANGED failed,
           \/ DeleteStatus \/ SetMatching \/ Enqueue \/ CheckLen
           \/ RemoveFromQueue \/ SetCancelled
    PROVE  WaitInv'
<1> USE DEF WaitInv
<1>1. /\ status \in [Users -> Statuses] /\ status' \in [Users -> Statuses]
      /\ queue \in [Modes -> Seq(Users)]
      /\ pc # "free" => caller \in Users
      /\ pc \in {"set", "enqueue", "len"} => mode \in Modes
  BY DEF TypeOK, QueueInv, Stored, CallState
<1>2. ASSUME Goto(pc'), pc' \in {"set", "enqueue", "len", "dequeue", "cancel"},
             UNCHANGED <<matches, rooms>>, queue' \in [Modes -> Seq(Users)], QueuesHold', Unqueued'
      PROVE  WaitInv'
  <2>1. TypeOK'
    BY <1>1, <1>2 DEF TypeOK, Goto, Control
  <2>2. QED
    BY <1>2, <2>1 DEF AfterDequeue, Unfinished
<1>3. CASE DeleteStatus
  <2>1. /\ pc = "delete" /\ pc' = "set" /\ Goto(pc') /\ UNCHANGED <<queue, matches, rooms, caller, mode>>
        /\ status' = [status EXCEPT ![caller] = NoStatus] /\ caller \in Users
    BY <1>1, <1>3 DEF DeleteStatus, Goto
  <2>2. \A u \in Users : status[u].state = "matching" => status'[u] = status[u]
    BY <1>1, <2>1 DEF Unqueued
  <2>3. QueuesHold'
    <3>1. \A mo \in Modes : Elems(queue[mo]) \subseteq Users
      BY <1>1, ElemsIn
    <3>2. QED
      BY <2>1, <2>2, <3>1 DEF QueuesHold
  <2>4. Unqueued'
    BY <1>1, <2>1, NoStatusFacts DEF Unqueued
  <2>5. QED
    BY <1>1, <1>2, <2>1, <2>3, <2>4
<1>4. CASE SetMatching
  <2>1. /\ pc = "set" /\ pc' = "enqueue" /\ Goto(pc') /\ UNCHANGED <<queue, matches, rooms, caller, mode>>
        /\ status' = [status EXCEPT ![caller] = [NoStatus EXCEPT !.state = "matching", !.mode = mode]]
        /\ caller \in Users /\ mode \in Modes
    BY <1>1, <1>4 DEF SetMatching, Goto
  <2>2. \A u \in Users : status[u].state = "matching" => status'[u] = status[u]
    BY <1>1, <2>1 DEF Unqueued
  <2>3. \A mo \in Modes : Elems(queue[mo]) \subseteq Users
    BY <1>1, ElemsIn
  <2>4. QueuesHold'
    <3>1. queue' = queue
      BY <2>1
    <3>2. QED
      BY <2>2, <2>3, <3>1 DEF QueuesHold
  <2>5. status'[caller].state = "matching" /\ status'[caller].mode = mode
    <3>1. NoStatus \in Statuses
      BY NoStatusFacts
    <3>2. QED
      BY <1>1, <2>1, <3>1 DEF Statuses
  <2>6. \A mo \in Modes : caller \notin Elems(queue[mo])
    BY <2>1 DEF QueuesHold, Unqueued
  <2>7. Unqueued'
    BY <1>1, <2>1, <2>5, <2>6 DEF Unqueued
  <2>8. QED
    BY <1>1, <1>2, <2>1, <2>4, <2>7
<1>5. CASE Enqueue
  <2>1. /\ pc = "enqueue" /\ pc' = "len" /\ Goto(pc') /\ UNCHANGED <<status, matches, rooms, caller, mode>>
        /\ queue' = [queue EXCEPT ![mode] = Append(queue[mode], caller)]
        /\ caller \in Users /\ mode \in Modes
    BY <1>1, <1>5 DEF Enqueue, Goto
  <2>2. /\ queue'[mode] \in Seq(Users)
        /\ Elems(queue'[mode]) = Elems(queue[mode]) \union {caller}
        /\ NoDup(queue'[mode])
        /\ \A mo \in Modes : mo # mode => queue'[mo] = queue[mo]
    <3>1. queue[mode] \in Seq(Users) /\ NoDup(queue[mode]) /\ caller \notin Elems(queue[mode])
      BY <1>1, <2>1 DEF QueuesHold, Unqueued
    <3>2. queue'[mode] = Append(queue[mode], caller)
      BY <1>1, <2>1
    <3>3. QED
      BY <1>1, <2>1, <3>1, <3>2, AppendFacts
  <2>3. queue' \in [Modes -> Seq(Users)]
    BY <1>1, <2>1, <2>2
  <2>4. QueuesHold'
    BY <2>1, <2>2 DEF QueuesHold, Unqueued
  <2>5. Unqueued'
    BY <2>1 DEF Unqueued
  <2>6. QED
    BY <1>2, <2>1, <2>3, <2>4, <2>5
<1>6. CASE CheckLen
  <2>1. /\ pc = "len" /\ UNCHANGED <<status, queue, matches, rooms>>
        /\ \/ Return
           \/ /\ Goto("dequeue") /\ Goto(pc') /\ pc' = "dequeue"
              /\ ~ (Len(queue[mode]) < Required[mode])
    BY <1>6 DEF CheckLen, storeVars, Goto
  <2>2. QueuesHold'
    BY <2>1 DEF QueuesHold
  <2>3. CASE Return
    <3>1. rooms' \subseteq 1 .. Len(matches) /\ failed' \in BOOLEAN /\ queue' = queue
      BY <2>1 DEF TypeOK
    <3>2. QED
      BY <1>1, <2>1, <2>2, <2>3, <3>1, ReturnWaits
  <2>4. CASE Goto("dequeue") /\ ~ (Len(queue[mode]) < Required[mode])
    <3>1. Len(queue[mode]) \in Nat /\ Required[mode] \in Nat
      BY <1>1, <2>1, LenProperties, QueueAssumption
    <3>2. Unqueued'
      BY <2>1, <2>4, <3>1 DEF Unqueued, Goto
    <3>3. QED
      BY <1>1, <1>2, <2>1, <2>2, <2>4, <3>2 DEF Goto
  <2>5. QED
    BY <2>1, <2>3, <2>4
<1>7. CASE RemoveFromQueue
  <2>1. /\ pc = "remove" /\ pc' = "cancel" /\ Goto(pc') /\ UNCHANGED <<status, matches, rooms, caller, mode>>
        /\ queue' = [queue EXCEPT ![mode] = Without(queue[mode], caller)]
        /\ caller \in Users
    BY <1>1, <1>7 DEF RemoveFromQueue, Goto
  <2>2. \A mo \in Modes :
            /\ queue'[mo] \in Seq(Users)
            /\ Elems(queue'[mo]) = Elems(queue[mo]) \ {caller}
            /\ NoDup(queue'[mo])
    <3> SUFFICES ASSUME NEW mo \in Modes
                 PROVE  /\ queue'[mo] \in Seq(Users)
                        /\ Elems(queue'[mo]) = Elems(queue[mo]) \ {caller}
                        /\ NoDup(queue'[mo])
      OBVIOUS
    <3>1. queue[mo] \in Seq(Users) /\ NoDup(queue[mo])
      BY <1>1 DEF QueuesHold
    <3>2. CASE mo = mode
      <4>1. queue'[mo] = Without(queue[mo], caller)
        BY <1>1, <2>1, <3>2
      <4>2. QED
        BY <3>1, <4>1, WithoutFacts
    <3>3. CASE mo # mode
      <4>1. queue'[mo] = queue[mo]
        BY <1>1, <2>1, <3>3
      <4>2. caller \notin Elems(queue[mo])
        BY <2>1, <3>3 DEF QueuesHold, Unqueued
      <4>3. QED
        BY <3>1, <4>1, <4>2
    <3>4. QED
      BY <3>2, <3>3
  <2>3. queue' \in [Modes -> Seq(Users)]
    BY <1>1, <2>1, <2>2
  <2>4. QueuesHold' /\ Unqueued'
    BY <2>1, <2>2 DEF QueuesHold, Unqueued
  <2>5. QED
    BY <1>2, <2>1, <2>3, <2>4
<1>8. CASE SetCancelled
  <2>1. /\ pc = "cancel" /\ Return /\ UNCHANGED <<queue, matches, rooms>>
        /\ status' = [status EXCEPT ![caller].state = "cancelled"] /\ caller \in Users
    BY <1>1, <1>8 DEF SetCancelled, Return
  <2>2. \A u \in Users : u # caller => status'[u] = status[u]
    BY <1>1, <2>1
  <2>3. \A mo \in Modes : Elems(queue[mo]) \subseteq Users /\ caller \notin Elems(queue[mo])
    BY <1>1, <2>1, ElemsIn DEF Unqueued
  <2>4. QueuesHold'
    BY <2>1, <2>2, <2>3 DEF QueuesHold
  <2>5. rooms' \subseteq 1 .. Len(matches) /\ failed' \in BOOLEAN
    BY <2>1 DEF TypeOK
  <2>6. QED
    BY <1>1, <2>1, <2>4, <2>5, ReturnWaits
<1>9. QED
  BY <1>3, <1>4, <1>5, <1>6, <1>7, <1>8

\* A group is drawn and its match is created.
LEMMA CreateWaits ==
    ASSUME QueueInv, QueueInv', WaitInv, UNCHANGED failed, Dequeue \/ CreateMatch
    PROVE  WaitInv'
<1> USE DEF WaitInv
<1>1. /\ status \in [Users -> Statuses] /\ queue \in [Modes -> Seq(Users)]
      /\ \A mo \in Modes : NoDup(queue[mo])
  BY DEF TypeOK, QueuesHold
<1>2. CASE Dequeue
  <2> DEFINE n == Required[mode]
             s == queue[mode]
  <2>1. /\ UNCHANGED <<status, matches, rooms, caller, mode, todo, id>>
        /\ pc = "dequeue" /\ pc' = "create" /\ mode \in Modes
        /\ group' = SubSeq(s, 1, n)
        /\ queue' = [queue EXCEPT ![mode] = SubSeq(s, n + 1, Len(s))]
    BY <1>2 DEF Dequeue, QueueInv, CallState
  <2>2. s \in Seq(Users) /\ NoDup(s) /\ n \in 1 .. Len(s)
    <3>1. s \in Seq(Users) /\ NoDup(s)
      BY <1>1, <2>1
    <3>2. n \in Nat /\ n > 0 /\ Len(s) >= n
      BY <2>1, QueueAssumption DEF QueueInv, CallState, Unqueued
    <3>3. Len(s) \in Nat
      BY <3>1, LenProperties
    <3> HIDE DEF n, s
    <3>4. QED
      BY <3>1, <3>2, <3>3
  <2>3. /\ queue'[mode] = SubSeq(s, n + 1, Len(s))
        /\ \A mo \in Modes : mo # mode => queue'[mo] = queue[mo]
    BY <1>1, <2>1
  <2> HIDE DEF n
  <2>4. /\ group' \in Seq(Users) /\ queue'[mode] \in Seq(Users)
        /\ NoDup(group') /\ NoDup(queue'[mode])
        /\ Elems(group') \subseteq Elems(s) /\ Elems(queue'[mode]) \subseteq Elems(s)
        /\ Elems(group') \cap Elems(queue'[mode]) = {}
    <3> DEFINE a == SubSeq(s, 1, n)
               b == SubSeq(s, n + 1, Len(s))
    <3>1. group' = a /\ queue'[mode] = b
      BY <2>1, <2>3
    <3> HIDE DEF s
    <3>2. /\ a \in Seq(Users) /\ b \in Seq(Users)
          /\ Elems(s) = Elems(a) \union Elems(b)
          /\ NoDup(s) => NoDup(a) /\ NoDup(b) /\ Elems(a) \cap Elems(b) = {}
      BY <2>2, SplitFacts
    <3> HIDE DEF a, b
    <3>3. QED
      BY <2>2, <3>1, <3>2
  <2>5. queue' \in [Modes -> Seq(Users)]
    <3>1. queue' \in [Modes -> Seq(Users) \union {queue'[mode]}]
      BY <1>1, <2>1, <2>3
    <3>2. QED
      BY <3>1, <2>4
  <2>6. TypeOK'
    BY <2>1, <2>4, <2>5 DEF TypeOK, Control
  <2>7. \A mo \in Modes : Elems(queue'[mo]) \subseteq Elems(queue[mo]) /\ NoDup(queue'[mo])
    BY <1>1, <2>3, <2>4
  <2>8. QueuesHold'
    BY <2>1, <2>7 DEF QueuesHold
  <2>9. \A u \in Elems(group') : status[u].state = "matching" /\ status[u].mode = mode
    BY <2>1, <2>4 DEF QueuesHold
  <2>10. ASSUME NEW mo \in Modes, NEW u \in Elems(queue'[mo]) PROVE u \notin Elems(group')
    <3>1. status[u].mode = mo
      BY <2>7 DEF QueuesHold
    <3>2. QED
      BY <2>4, <2>9, <3>1
  <2>11. DrawnGroup'
    BY <2>1, <2>4, <2>9, <2>10 DEF DrawnGroup, Looping
  <2>12. QED
    BY <2>1, <2>6, <2>8, <2>11 DEF Unqueued, Unfinished
<1>3. CASE CreateMatch
  <2>1. /\ UNCHANGED <<status, queue, rooms, caller, mode, group>>
        /\ pc = "create" /\ pc' = "matched"
        /\ matches' = Append(matches, Elems(group))
        /\ id' = Len(matches) + 1
        /\ todo' = group
    BY <1>3 DEF CreateMatch, InsertMatch
  <2>2. /\ matches' \in Seq(SUBSET Users) /\ Len(matches) \in Nat
        /\ Len(matches') = Len(matches) + 1
    <3>1. Elems(group) \in SUBSET Users
      BY ElemsIn DEF TypeOK
    <3>2. QED
      BY <2>1, <3>1, AppendFacts DEF TypeOK
  <2>3. TypeOK'
    <3>1. Len(matches') <= MaxMatches
      BY DEF QueueInv, Stored
    <3>2. rooms' \subseteq 1 .. Len(matches') /\ id' \in 0 .. Len(matches')
      BY <2>1, <2>2 DEF TypeOK
    <3>3. QED
      BY <2>1, <2>2, <3>1, <3>2 DEF TypeOK, Control
  <2>4. QueuesHold' /\ Unqueued'
    BY <2>1 DEF QueuesHold, Unqueued
  <2>5. DrawnGroup'
    BY <2>1 DEF DrawnGroup, AfterDequeue
  <2>6. id' \in 1 .. Len(matches')
    BY <2>1, <2>2
  <2>7. QED
    BY <2>3, <2>4, <2>5, <2>6
<1>4. QED
  BY <1>2, <1>3

\* The loops over the group take one user after the other.
LEMMA TodoFacts ==
    ASSUME QueueInv, WaitInv, pc \in Looping
    PROVE  /\ Head(todo) \in Users /\ Head(todo) \in Elems(group) /\ Head(todo) \in Elems(todo)
           /\ Tail(todo) \in Seq(Users) /\ NoDup(Tail(todo))
           /\ Elems(Tail(todo)) = Elems(todo) \ {Head(todo)}
           /\ Elems(todo) \subseteq Elems(group) /\ Elems(group) \subseteq Users
           /\ Len(todo) \in Nat
           /\ Len(todo) > 1 \/ (Len(todo) = 1 /\ Tail(todo) = <<>>)
<1>1. todo \in Seq(Users) /\ group \in Seq(Users) /\ NoDup(todo)
  BY DEF WaitInv, TypeOK, DrawnGroup, AfterDequeue, Looping
<1>2. todo # <<>> /\ Elems(todo) \subseteq Elems(group)
  BY DEF QueueInv, GroupState
<1>3. /\ Head(todo) \in Users /\ Tail(todo) \in Seq(Users)
      /\ Len(todo) \in Nat \ {0}
      /\ Elems(todo) = Elems(Tail(todo)) \union {Head(todo)}
      /\ NoDup(todo) => NoDup(Tail(todo)) /\ Head(todo) \notin Elems(Tail(todo))
      /\ Len(todo) = 1 => Tail(todo) = <<>>
  BY <1>1, <1>2, TailFacts
<1>4. Elems(group) \subseteq Users
  BY <1>1, ElemsIn
<1>5. Len(todo) > 1 \/ Len(todo) = 1
  <2>1. Len(todo) \in Nat /\ Len(todo) # 0
    BY <1>3
  <2>2. QED
    BY <2>1
<1>6. QED
  BY <1>1, <1>2, <1>3, <1>4, <1>5

\* The group is told of its match or of its chunk, or a user of it waits again.
LEMMA LoopWaits ==
    ASSUME QueueInv, QueueInv', WaitInv, UNCHANGED failed,
           MarkMatched \/ MarkChunk \/ RestoreStatus
    PROVE  WaitInv'
<1> USE DEF WaitInv
<1> DEFINE u0 == Head(todo)
<1>1. /\ UNCHANGED <<queue, matches, rooms, caller, mode, group, id>>
      /\ pc \in {"matched", "chunk", "restore"}
      /\ \/ pc = "matched" /\ pc' \in {"matched", "assign", "room"} /\ todo' = Tail(todo)
         \/ pc = "chunk" /\ pc' \in {"chunk", "room"} /\ todo' = Tail(todo)
         \/ pc = "restore" /\ pc' = "requeue" /\ todo' = todo
  <2>1. CASE MarkMatched
    BY <2>1 DEF MarkMatched, NextUser, AfterMatched
  <2>2. CASE MarkChunk
    BY <2>2 DEF MarkChunk, NextUser
  <2>3. CASE RestoreStatus
    BY <2>3 DEF RestoreStatus, Goto
  <2>4. QED
    BY <2>1, <2>2, <2>3
<1>2. pc \in Looping /\ pc \in AfterDequeue /\ DrawnGroup
  BY <1>1 DEF Looping, AfterDequeue
<1>3. /\ u0 \in Users /\ u0 \in Elems(group) /\ u0 \in Elems(todo)
      /\ Tail(todo) \in Seq(Users) /\ NoDup(Tail(todo)) /\ NoDup(todo)
      /\ Elems(Tail(todo)) = Elems(todo) \ {u0}
      /\ Elems(todo) \subseteq Elems(group) /\ Elems(group) \subseteq Users
  BY <1>2, TodoFacts DEF DrawnGroup
<1> HIDE DEF u0
<1>4. \A u \in Users :
        /\ u # u0 => status'[u] = status[u]
        /\ status[u].state = status'[u].state \/ pc # "chunk"
        /\ status'[u].mode = status[u].mode
        /\ u = u0 /\ pc = "matched" => status'[u].state = "matched"
        /\ u = u0 /\ pc = "restore" => status'[u].state = "matching"
  <2> SUFFICES ASSUME NEW u \in Users
               PROVE  /\ u # u0 => status'[u] = status[u]
                      /\ status[u].state = status'[u].state \/ pc # "chunk"
                      /\ status'[u].mode = status[u].mode
                      /\ u = u0 /\ pc = "matched" => status'[u].state = "matched"
                      /\ u = u0 /\ pc = "restore" => status'[u].state = "matching"
    OBVIOUS
  <2>1. status[u] \in Statuses /\ status \in [Users -> Statuses]
    BY DEF TypeOK
  <2>2. u = u0 => status[u] # NoStatus
    BY <1>2, <1>3, NoStatusFacts DEF DrawnGroup
  <2>3. CASE MarkMatched
    <3>1. /\ u # u0 => status'[u] = status[u]
          /\ u = u0 => status'[u] = [status[u] EXCEPT !.state = "matched", !.match = id]
          /\ pc = "matched"
      BY <2>1, <2>2, <2>3 DEF MarkMatched, u0
    <3>2. QED
      BY <2>1, <3>1 DEF Statuses
  <2>4. CASE MarkChunk
    <3>1. pc = "chunk" /\ (status'[u] = status[u] \/ status'[u] = [status[u] EXCEPT !.chunk = TRUE])
          /\ (u # u0 => status'[u] = status[u])
      BY <2>1, <2>4 DEF MarkChunk, u0
    <3>2. QED
      BY <2>1, <3>1 DEF Statuses
  <2>5. CASE RestoreStatus
    <3>1. /\ u # u0 => status'[u] = status[u]
          /\ u = u0 => status'[u] = [status[u] EXCEPT !.state = "matching", !.match = 0, !.chunk = FALSE]
          /\ pc = "restore"
      BY <2>1, <2>2, <2>5 DEF RestoreStatus, u0
    <3>2. QED
      BY <2>1, <3>1 DEF Statuses
  <2>6. QED
    BY <2>3, <2>4, <2>5
<1>5. \A mo \in Modes : Elems(queue[mo]) \subseteq Users /\ u0 \notin Elems(queue[mo])
  <2>1. \A mo \in Modes : Elems(queue[mo]) \subseteq Users
    BY ElemsIn DEF TypeOK
  <2>2. QED
    BY <1>1, <1>2, <1>3, <2>1 DEF DrawnGroup
<1>6. TypeOK'
  <2>1. status' \in [Users -> Statuses]
    BY DEF QueueInv, Stored
  <2>2. todo' \in Seq(Users)
    BY <1>1, <1>3 DEF TypeOK
  <2>3. QED
    BY <1>1, <2>1, <2>2 DEF TypeOK, Control
<1>7. QueuesHold' /\ Unqueued'
  BY <1>1, <1>4, <1>5 DEF QueuesHold, Unqueued
<1>8. DrawnGroup'
  <2>1. mode' \in Modes /\ NoDup(group') /\ (pc' \in Looping => NoDup(todo'))
    BY <1>1, <1>2, <1>3 DEF DrawnGroup
  <2>2. \A u \in Elems(group) : status'[u].state \in {"matching", "matched"} /\ status'[u].mode = mode
    <3> SUFFICES ASSUME NEW u \in Elems(group)
                 PROVE  status'[u].state \in {"matching", "matched"} /\ status'[u].mode = mode
      OBVIOUS
    <3>1. u \in Users /\ status[u].state \in {"matching", "matched"} /\ status[u].mode = mode
      BY <1>2, <1>3 DEF DrawnGroup
    <3>2. QED
      BY <1>1, <1>4, <3>1
  <2>3. \A mo \in Modes : \A u \in Elems(queue[mo]) :
            IF pc' \in {"restore", "requeue"} THEN u \notin Elems(todo') ELSE u \notin Elems(group)
    BY <1>1, <1>2 DEF DrawnGroup
  <2>4. pc' = "matched" => \A u \in Elems(todo') : status'[u].state = "matching"
    <3> SUFFICES ASSUME pc' = "matched", NEW u \in Elems(todo') PROVE status'[u].state = "matching"
      OBVIOUS
    <3>1. pc = "matched" /\ u \in Elems(todo) /\ u # u0 /\ u \in Users
      BY <1>1, <1>3
    <3>2. status[u].state = "matching"
      BY <1>2, <3>1 DEF DrawnGroup
    <3>3. QED
      BY <1>4, <3>1, <3>2
  <2>5. pc' = "requeue" => status'[Head(todo')].state = "matching"
    BY <1>1, <1>3, <1>4 DEF u0
  <2>6. QED
    BY <1>1, <2>1, <2>2, <2>3, <2>4, <2>5 DEF DrawnGroup
<1>9. pc' \in Unfinished => id' \in 1 .. Len(matches')
  BY <1>1 DEF Unfinished
<1>10. QED
  BY <1>6, <1>7, <1>8, <1>9

\* The steps of Join between its loops, and what fails.
LEMMA OtherWaits ==
    ASSUME QueueInv, QueueInv', WaitInv, failed' \in BOOLEAN,
           \/ AssignChunk \/ CreateRoom \/ RestoreQueue
           \/ CreateFails \/ CallFails \/ Restart
    PROVE  WaitInv'
<1> USE DEF WaitInv
<1>1. ASSUME Return, UNCHANGED <<status, queue, matches>>, rooms' \subseteq 1 .. Len(matches)
      PROVE  WaitInv'
  <2>1. QueuesHold' /\ status' \in [Users -> Statuses] /\ queue' \in [Modes -> Seq(Users)]
    BY <1>1 DEF QueuesHold, TypeOK
  <2>2. QED
    BY <1>1, <2>1, ReturnWaits
<1>2. CASE CallFails \/ Restart
  BY <1>1, <1>2 DEF CallFails, Restart, storeVars, TypeOK
<1>3. CASE CreateRoom
  <2>1. Return /\ UNCHANGED <<status, queue, matches>> /\ rooms' = rooms \union {id}
        /\ id \in 1 .. Len(matches)
    BY <1>3 DEF CreateRoom, Unfinished
  <2>2. rooms' \subseteq 1 .. Len(matches)
    BY <2>1 DEF TypeOK
  <2>3. QED
    BY <1>1, <2>1, <2>2
<1>4. CASE AssignChunk
  <2>1. /\ pc = "assign" /\ pc' = "chunk" /\ todo' = group
        /\ UNCHANGED <<status, queue, matches, rooms, caller, mode, group, id>>
    BY <1>4 DEF AssignChunk, storeVars
  <2>2. TypeOK' /\ QueuesHold' /\ Unqueued'
    BY <2>1 DEF TypeOK, Control, QueuesHold, Unqueued
  <2>3. DrawnGroup'
    BY <2>1 DEF DrawnGroup, AfterDequeue
  <2>4. QED
    BY <2>1, <2>2, <2>3 DEF Unfinished
<1>5. CASE CreateFails
  <2>1. /\ UNCHANGED <<status, queue, rooms, caller, mode, group, id>>
        /\ pc \in {"create", "assign"} /\ pc' = "restore" /\ todo' = group
        /\ matches' = matches \/ matches' = Append(matches, Elems(group))
    BY <1>5 DEF CreateFails, Restore, InsertMatch
  <2>2. matches' \in Seq(SUBSET Users) /\ 1 .. Len(matches) \subseteq 1 .. Len(matches')
        /\ 0 .. Len(matches) \subseteq 0 .. Len(matches')
    <3>1. Elems(group) \in SUBSET Users /\ matches \in Seq(SUBSET Users)
      BY ElemsIn DEF TypeOK
    <3>2. CASE matches' = matches
      BY <3>1, <3>2
    <3>3. CASE matches' = Append(matches, Elems(group))
      <4>1. matches' \in Seq(SUBSET Users) /\ Len(matches) \in Nat /\ Len(matches') = Len(matches) + 1
        BY <3>1, <3>3, AppendFacts
      <4>2. QED
        BY <4>1
    <3>4. QED
      BY <2>1, <3>2, <3>3
  <2>3. TypeOK'
    <3>1. Len(matches') <= MaxMatches
      BY DEF QueueInv, Stored
    <3>2. QED
      BY <2>1, <2>2, <3>1 DEF TypeOK, Control
  <2>4. QueuesHold' /\ Unqueued'
    BY <2>1 DEF QueuesHold, Unqueued
  <2>5. DrawnGroup'
    BY <2>1 DEF DrawnGroup, AfterDequeue
  <2>6. QED
    BY <2>1, <2>3, <2>4, <2>5 DEF Unfinished
<1>6. CASE RestoreQueue
  <2> DEFINE u0 == Head(todo)
  <2>1. /\ UNCHANGED <<status, matches, rooms>> /\ pc = "requeue"
        /\ queue' = [queue EXCEPT ![mode] = IF status[u0] = NoStatus THEN queue[mode]
                                            ELSE Append(queue[mode], u0)]
        /\ \/ Return
           \/ /\ pc' = "restore" /\ todo' = Tail(todo) /\ UNCHANGED <<caller, mode, group, id>>
    BY <1>6 DEF RestoreQueue
  <2>2. DrawnGroup /\ pc \in Looping
    BY <2>1 DEF AfterDequeue, Looping
  <2>3. /\ u0 \in Users /\ u0 \in Elems(group) /\ u0 \in Elems(todo)
        /\ Tail(todo) \in Seq(Users) /\ NoDup(Tail(todo))
        /\ Elems(Tail(todo)) = Elems(todo) \ {u0}
    BY <2>2, TodoFacts
  <2>4. status[u0].state = "matching" /\ status[u0].mode = mode /\ mode \in Modes
    BY <2>1, <2>2, <2>3 DEF DrawnGroup
  <2>5. \A mo \in Modes : u0 \notin Elems(queue[mo])
    BY <2>1, <2>2, <2>3 DEF DrawnGroup
  <2>6. /\ queue \in [Modes -> Seq(Users)]
        /\ queue' = [queue EXCEPT ![mode] = Append(queue[mode], u0)]
    BY <2>1, <2>4, NoStatusFacts DEF TypeOK
  <2> HIDE DEF u0
  <2>7. /\ queue'[mode] \in Seq(Users)
        /\ Elems(queue'[mode]) = Elems(queue[mode]) \union {u0}
        /\ NoDup(queue'[mode])
        /\ \A mo \in Modes : mo # mode => queue'[mo] = queue[mo]
    <3>1. queue[mode] \in Seq(Users) /\ NoDup(queue[mode]) /\ u0 \notin Elems(queue[mode])
      BY <2>4, <2>5, <2>6 DEF QueuesHold
    <3>2. queue'[mode] = Append(queue[mode], u0)
      BY <2>4, <2>6
    <3>3. QED
      BY <2>3, <2>4, <2>6, <3>1, <3>2, AppendFacts
  <2>8. queue' \in [Modes -> Seq(Users)]
    BY <2>6, <2>7
  <2>9. QueuesHold'
    BY <2>1, <2>4, <2>7 DEF QueuesHold
  <2>10. CASE Return
    <3>1. rooms' \subseteq 1 .. Len(matches) /\ status' \in [Users -> Statuses]
      BY <2>1 DEF TypeOK
    <3>2. QED
      BY <2>1, <2>8, <2>9, <2>10, <3>1, ReturnWaits
  <2>11. CASE pc' = "restore" /\ todo' = Tail(todo) /\ UNCHANGED <<caller, mode, group, id>>
    <3>1. TypeOK' /\ Unqueued'
      BY <2>1, <2>3, <2>8, <2>11 DEF TypeOK, Control, Unqueued
    <3>2. \A mo \in Modes : \A u \in Elems(queue'[mo]) : u \notin Elems(todo')
      <4> SUFFICES ASSUME NEW mo \in Modes, NEW u \in Elems(queue'[mo]) PROVE u \notin Elems(todo')
        OBVIOUS
      <4>1. u \in Elems(queue[mo]) \/ u = u0
        BY <2>7
      <4>2. u \in Elems(queue[mo]) => u \notin Elems(todo)
        BY <2>1, <2>2 DEF DrawnGroup
      <4>3. QED
        BY <2>3, <2>11, <4>1, <4>2
    <3>3. DrawnGroup'
      BY <2>1, <2>2, <2>3, <2>11, <3>2 DEF DrawnGroup
    <3>4. QED
      BY <2>9, <2>11, <3>1, <3>3 DEF Unfinished
  <2>12. QED
    BY <2>1, <2>10, <2>11
<1>7. QED
  BY <1>2, <1>3, <1>4, <1>5, <1>6

\* Every step keeps the invariant.
LEMMA NextWaits ==
    ASSUME QueueInv, QueueInv', WaitInv, [Next]_vars
    PROVE  WaitInv'
<1>1. CASE UNCHANGED vars
  BY <1>1 DEF vars, storeVars, callVars, WaitInv, TypeOK, QueuesHold, Unqueued, DrawnGroup
<1>2. CASE UNCHANGED failed /\ \/ \E u \in Users, mo \in Modes : BeginJoin(u, mo)
                               \/ \E u \in Users : BeginCancel(u)
  BY <1>2, BeginWaits
<1>3. failed' \in BOOLEAN \/ UNCHANGED vars
  BY DEF Next, CreateFails, CallFails, Restart, WaitInv, TypeOK
<1>4. QED
  BY <1>1, <1>2, <1>3, CallerWaits, CreateWaits, LoopWaits, OtherWaits DEF Next, JoinStep

\* The invariant, for every instance.
THEOREM WaitInvariant == Spec => []WaitInv
  BY InitWait, NextWaits, QueueInvariant, PTL DEF Spec

\* Every variable keeps its shape.
THEOREM TypeCorrect == Spec => []TypeOK
<1>1. WaitInv => TypeOK
  BY DEF WaitInv
<1>2. QED
  BY <1>1, WaitInvariant, PTL

\* Whatever fails, nobody is queued twice, and whoever is queued waits in that mode:
\* no Join draws a user who cancelled or plays, or one user for both teams.
THEOREM WhoIsQueuedWaits == Spec => []QueuedWait
<1>1. WaitInv => QueuedWait
  BY QueuesHoldEnough DEF WaitInv
<1>2. QED
  BY <1>1, WaitInvariant, PTL

-----------------------------------------------------------------------------
(* Calls that run to their end *)

\* A user who waits is queued, or is in the hands of the call.
Waiting(u) ==
    /\ ~status[u].chunk
    /\ status[u].mode \in Modes
    /\ \/ u \in Elems(queue[status[u].mode])
       \/ pc \in {"enqueue", "cancel"} /\ u = caller
       \/ pc = "create" /\ u \in Elems(group)
       \/ pc = "matched" /\ u \in Elems(todo)

\* No queue is longer than its group, nor as long but when it is about to be drawn.
ShortQueues ==
    \A mo \in Modes : Required[mo] > 0 =>
        \/ Len(queue[mo]) < Required[mo]
        \/ pc \in {"len", "dequeue"} /\ mo = mode /\ Len(queue[mo]) <= Required[mo]

\* The players of a finished match know it and its chunk, and it has a room.
Finished(m) ==
    /\ m \in rooms
    /\ \A u \in matches[m] :
        /\ status[u].state = "matched" /\ status[u].match = m
        /\ status[u].chunk <=> status[u].mode \in ChunkModes

\* The loops over the group have told those they are done with.
Telling ==
    /\ id = Len(matches) /\ matches[id] = Elems(group)
    /\ \A u \in Elems(group) :
        /\ (pc = "matched" => u \notin Elems(todo)) =>
                status[u].state = "matched" /\ status[u].match = id
        /\ pc \in {"matched", "assign"} => ~status[u].chunk
        /\ pc = "chunk" /\ u \notin Elems(todo) => status[u].chunk
        /\ pc = "room" => (status[u].chunk <=> mode \in ChunkModes)
    /\ pc \in {"assign", "chunk"} => mode \in ChunkModes

\* What holds as long as no call has failed.
Smooth ==
    /\ pc \notin {"restore", "requeue"}
    /\ \A u \in Users : status[u].state = "matching" => Waiting(u)
    /\ ShortQueues
    /\ pc \in Unfinished => Telling
    /\ \A m \in 1 .. Len(matches) : Finished(m) \/ (pc \in Unfinished /\ m = id)

SmoothInv == ~failed => Smooth

\* The players of a match are users.
LEMMA PlayersAreUsers ==
    ASSUME TypeOK, NEW m \in 1 .. Len(matches) PROVE matches[m] \subseteq Users
  BY ElementOfSeq DEF TypeOK

\* The queues have lengths to compare with the sizes of the groups.
LEMMA QueueLens ==
    ASSUME TypeOK, NEW mo \in Modes PROVE Len(queue[mo]) \in Nat /\ Required[mo] \in Nat
  BY LenProperties, QueueAssumption DEF TypeOK

\* The invariant holds when nobody has joined.
LEMMA InitSmooth == Init => SmoothInv
<1> SUFFICES ASSUME Init PROVE Smooth
  BY DEF SmoothInv
<1>1. \A u \in Users : status[u].state # "matching"
  BY NoStatusFacts DEF Init
<1>2. Len(matches) = 0 /\ \A mo \in Modes : Len(queue[mo]) = 0
  BY EmptyFacts DEF Init
<1>3. ShortQueues
  BY <1>2, QueueAssumption DEF ShortQueues
<1>4. pc = "free"
  BY DEF Init
<1>5. QED
  BY <1>1, <1>2, <1>3, <1>4 DEF Smooth, Unfinished

\* A call begins between two others, when nobody is in the hands of one.
LEMMA BeginSmooth ==
    ASSUME WaitInv, Smooth, NEW u \in Users,
           (\E mo \in Modes : BeginJoin(u, mo)) \/ BeginCancel(u)
    PROVE  Smooth'
<1>1. /\ pc = "free" /\ pc' \in {"delete", "set", "remove"}
      /\ UNCHANGED <<status, queue, matches, rooms>>
  BY DEF BeginJoin, BeginCancel, storeVars
<1>2. \A v \in Users : status'[v].state = "matching" => Waiting(v)'
  BY <1>1 DEF Smooth, Waiting
<1>3. ShortQueues'
  BY <1>1 DEF Smooth, ShortQueues
<1>4. \A m \in 1 .. Len(matches') : Finished(m)'
  BY <1>1 DEF Smooth, Finished, Unfinished
<1>5. QED
  BY <1>1, <1>2, <1>3, <1>4 DEF Smooth, Unfinished

\* Only the caller changes, and it has no match.
LEMMA OthersFinished ==
    ASSUME TypeOK, NEW v \in Users, status[v].state # "matched",
           NEW m \in 1 .. Len(matches), Finished(m),
           \A u \in Users : u # v => status'[u] = status[u],
           matches' = matches, rooms' = rooms
    PROVE  Finished(m)'
<1>1. matches[m] \subseteq Users /\ v \notin matches[m]
  BY PlayersAreUsers DEF Finished
<1>2. QED
  BY <1>1 DEF Finished

\* Before a group is drawn, and in Cancel: the caller waits in a queue, or in the call.
LEMMA CallerSmooth ==
    ASSUME QueueInv, WaitInv, Smooth,
           \/ DeleteStatus \/ SetMatching \/ Enqueue \/ CheckLen
           \/ RemoveFromQueue \/ SetCancelled
    PROVE  Smooth'
<1> USE DEF WaitInv
<1>1. /\ status \in [Users -> Statuses] /\ queue \in [Modes -> Seq(Users)]
      /\ pc # "free" => caller \in Users
      /\ pc \in {"delete", "set", "enqueue", "len", "dequeue"} => mode \in Modes
      /\ \A mo \in Modes : Len(queue[mo]) \in Nat /\ Required[mo] \in Nat
  BY QueueLens DEF TypeOK, QueueInv, CallState
<1>2. CASE DeleteStatus \/ SetMatching \/ SetCancelled
  <2>1. /\ UNCHANGED <<queue, matches, rooms>> /\ caller \in Users
        /\ pc \in {"delete", "set", "cancel"}
        /\ pc = "set" => pc' = "enqueue" /\ UNCHANGED <<caller, mode>> /\ mode \in Modes
        /\ pc # "set" => pc' \in {"set", "free"}
        /\ pc = "cancel" <=> pc' = "free"
    BY <1>1, <1>2 DEF DeleteStatus, SetMatching, SetCancelled, Goto, Return
  <2>2. \A u \in Users : u # caller => status'[u] = status[u]
    BY <1>1, <1>2 DEF DeleteStatus, SetMatching, SetCancelled
  <2>3. status[caller].state # "matched"
    BY <2>1 DEF QueueInv, CallState
  <2>4. \A m \in 1 .. Len(matches) : Finished(m)'
    <3>1. \A m \in 1 .. Len(matches) : Finished(m)
      BY <2>1 DEF Smooth, Unfinished
    <3>2. QED
      BY <2>1, <2>2, <2>3, <3>1, OthersFinished
  <2>5. \/ pc' # "enqueue" /\ status'[caller].state # "matching"
        \/ pc' = "enqueue" /\ ~status'[caller].chunk /\ status'[caller].mode \in Modes
    <3>1. NoStatus \in Statuses /\ NoStatus.state = "none" /\ ~NoStatus.chunk
      BY NoStatusFacts DEF NoStatus
    <3>2. CASE DeleteStatus
      BY <1>1, <2>1, <3>1, <3>2 DEF DeleteStatus
    <3>3. CASE SetMatching
      <4>1. status'[caller] = [NoStatus EXCEPT !.state = "matching", !.mode = mode]
            /\ pc' = "enqueue" /\ mode \in Modes
        BY <1>1, <2>1, <3>3 DEF SetMatching
      <4>2. QED
        BY <3>1, <4>1 DEF Statuses
    <3>4. CASE SetCancelled
      <4>1. status'[caller] = [status[caller] EXCEPT !.state = "cancelled"] /\ pc' = "free"
        BY <1>1, <2>1, <3>4 DEF SetCancelled, Return
      <4>2. status[caller] \in Statuses
        BY <1>1, <2>1
      <4>3. QED
        BY <4>1, <4>2 DEF Statuses
    <3>5. QED
      BY <1>2, <3>2, <3>3, <3>4
  <2>6. ASSUME NEW u \in Users, status'[u].state = "matching" PROVE Waiting(u)'
    <3>1. CASE u = caller
      BY <2>1, <2>5, <2>6, <3>1 DEF Waiting
    <3>2. CASE u # caller
      <4>1. Waiting(u) /\ status'[u] = status[u]
        BY <2>2, <2>6, <3>2 DEF Smooth
      <4>2. QED
        BY <2>1, <3>2, <4>1 DEF Waiting
    <3>3. QED
      BY <3>1, <3>2
  <2>7. ShortQueues'
    BY <2>1 DEF Smooth, ShortQueues
  <2>8. QED
    BY <2>1, <2>4, <2>6, <2>7 DEF Smooth, Unfinished
<1>3. CASE Enqueue
  <2>1. /\ pc = "enqueue" /\ pc' = "len" /\ UNCHANGED <<status, matches, rooms, caller, mode>>
        /\ queue' = [queue EXCEPT ![mode] = Append(queue[mode], caller)]
        /\ caller \in Users /\ mode \in Modes
        /\ status[caller].mode = mode
    BY <1>1, <1>3 DEF Enqueue, Goto, Unqueued
  <2>2. /\ Elems(queue'[mode]) = Elems(queue[mode]) \union {caller}
        /\ Len(queue'[mode]) = Len(queue[mode]) + 1
        /\ \A mo \in Modes : mo # mode => queue'[mo] = queue[mo]
    <3>1. queue[mode] \in Seq(Users) /\ queue'[mode] = Append(queue[mode], caller)
      BY <1>1, <2>1
    <3>2. QED
      BY <1>1, <2>1, <3>1, AppendFacts
  <2>3. ASSUME NEW u \in Users, status'[u].state = "matching" PROVE Waiting(u)'
    <3>1. Waiting(u)
      BY <2>1, <2>3 DEF Smooth
    <3>2. \A mo \in Modes : Elems(queue[mo]) \subseteq Elems(queue'[mo])
      BY <2>2
    <3>3. QED
      BY <2>1, <2>2, <3>1, <3>2 DEF Waiting
  <2>4. ShortQueues'
    <3> SUFFICES ASSUME NEW mo \in Modes, Required[mo] > 0
                 PROVE  \/ Len(queue'[mo]) < Required[mo]
                        \/ mo = mode /\ Len(queue'[mo]) <= Required[mo]
      BY <2>1 DEF ShortQueues
    <3>1. Len(queue[mo]) < Required[mo] /\ Len(queue[mo]) \in Nat /\ Required[mo] \in Nat
      BY <1>1, <2>1 DEF Smooth, ShortQueues
    <3>2. QED
      BY <2>2, <3>1
  <2>5. \A m \in 1 .. Len(matches') : Finished(m)'
    BY <2>1 DEF Smooth, Finished, Unfinished
  <2>6. QED
    BY <2>1, <2>3, <2>4, <2>5 DEF Smooth, Unfinished
<1>4. CASE CheckLen
  <2>1. /\ pc = "len" /\ UNCHANGED <<status, queue, matches, rooms>> /\ mode \in Modes
        /\ \/ pc' = "free" /\ (Required[mode] = 0 \/ Len(queue[mode]) < Required[mode])
           \/ pc' = "dequeue" /\ mode' = mode
    BY <1>1, <1>4 DEF CheckLen, storeVars, Goto, Return
  <2>2. \A u \in Users : status'[u].state = "matching" => Waiting(u)'
    BY <2>1 DEF Smooth, Waiting
  <2>3. ShortQueues'
    <3> SUFFICES ASSUME NEW mo \in Modes, Required[mo] > 0
                 PROVE  \/ Len(queue[mo]) < Required[mo]
                        \/ pc' = "dequeue" /\ mo = mode /\ Len(queue[mo]) <= Required[mo]
      BY <2>1 DEF ShortQueues
    <3>1. \/ Len(queue[mo]) < Required[mo]
          \/ mo = mode /\ Len(queue[mo]) <= Required[mo]
      BY <2>1 DEF Smooth, ShortQueues
    <3>2. QED
      BY <2>1, <3>1
  <2>4. \A m \in 1 .. Len(matches') : Finished(m)'
    BY <2>1 DEF Smooth, Finished, Unfinished
  <2>5. QED
    BY <2>1, <2>2, <2>3, <2>4 DEF Smooth, Unfinished
<1>5. CASE RemoveFromQueue
  <2>1. /\ pc = "remove" /\ pc' = "cancel" /\ UNCHANGED <<status, matches, rooms, caller, mode>>
        /\ queue' = [queue EXCEPT ![mode] = Without(queue[mode], caller)]
        /\ caller \in Users
    BY <1>1, <1>5 DEF RemoveFromQueue, Goto
  <2>2. \A mo \in Modes :
            /\ Elems(queue[mo]) \ {caller} \subseteq Elems(queue'[mo])
            /\ Len(queue'[mo]) \in Nat /\ Len(queue'[mo]) <= Len(queue[mo])
    <3> SUFFICES ASSUME NEW mo \in Modes
                 PROVE  /\ Elems(queue[mo]) \ {caller} \subseteq Elems(queue'[mo])
                        /\ Len(queue'[mo]) \in Nat /\ Len(queue'[mo]) <= Len(queue[mo])
      OBVIOUS
    <3>1. queue[mo] \in Seq(Users) /\ Len(queue[mo]) \in Nat
      BY <1>1
    <3>2. CASE mo = mode
      <4>1. queue'[mo] = Without(queue[mo], caller)
        BY <1>1, <2>1, <3>2
      <4>2. QED
        BY <3>1, <4>1, WithoutFacts, LenProperties
    <3>3. CASE mo # mode
      BY <1>1, <2>1, <3>1, <3>3
    <3>4. QED
      BY <3>2, <3>3
  <2>3. ASSUME NEW u \in Users, status'[u].state = "matching" PROVE Waiting(u)'
    <3>1. Waiting(u)
      BY <2>1, <2>3 DEF Smooth
    <3>2. QED
      BY <2>1, <2>2, <3>1 DEF Waiting
  <2>4. ShortQueues'
    <3> SUFFICES ASSUME NEW mo \in Modes, Required[mo] > 0
                 PROVE  Len(queue'[mo]) < Required[mo]
      BY <2>1 DEF ShortQueues
    <3>1. Len(queue[mo]) < Required[mo] /\ Len(queue[mo]) \in Nat /\ Required[mo] \in Nat
      BY <1>1, <2>1 DEF Smooth, ShortQueues
    <3>2. QED
      BY <2>2, <3>1
  <2>5. \A m \in 1 .. Len(matches') : Finished(m)'
    BY <2>1 DEF Smooth, Finished, Unfinished
  <2>6. QED
    BY <2>1, <2>3, <2>4, <2>5 DEF Smooth, Unfinished
<1>6. QED
  BY <1>2, <1>3, <1>4, <1>5

\* The group is the whole queue, and goes into the match.
LEMMA CreateSmooth ==
    ASSUME QueueInv, WaitInv, Smooth, Dequeue \/ CreateMatch
    PROVE  Smooth'
<1> USE DEF WaitInv
<1>1. /\ queue \in [Modes -> Seq(Users)]
      /\ \A mo \in Modes : Len(queue[mo]) \in Nat /\ Required[mo] \in Nat
  BY QueueLens DEF TypeOK
<1>2. CASE Dequeue
  <2> DEFINE n == Required[mode]
             s == queue[mode]
             a == SubSeq(s, 1, n)
             b == SubSeq(s, n + 1, Len(s))
  <2>1. /\ UNCHANGED <<status, matches, rooms, caller, mode>>
        /\ pc = "dequeue" /\ pc' = "create" /\ mode \in Modes
        /\ group' = a
        /\ queue' = [queue EXCEPT ![mode] = b]
    BY <1>2 DEF Dequeue, QueueInv, CallState
  <2>2. s \in Seq(Users) /\ n \in 1 .. Len(s) /\ Len(s) = n /\ n \in Nat /\ n > 0
    <3>1. s \in Seq(Users) /\ Len(s) \in Nat /\ n \in Nat
      BY <1>1, <2>1
    <3>2. n > 0 /\ Len(s) >= n /\ Len(s) <= n
      <4>1. n > 0 /\ Len(s) >= n
        BY <2>1 DEF QueueInv, CallState, Unqueued
      <4>2. Len(s) < n \/ Len(s) <= n
        BY <2>1, <4>1 DEF Smooth, ShortQueues
      <4> HIDE DEF s, n
      <4>3. QED
        BY <3>1, <4>1, <4>2
    <3> HIDE DEF s, n
    <3>3. QED
      BY <3>1, <3>2
  <2>3. /\ queue'[mode] = b
        /\ \A mo \in Modes : mo # mode => queue'[mo] = queue[mo]
    BY <1>1, <2>1
  <2>4. Elems(s) = Elems(a) \union Elems(b) /\ Len(b) = 0
    <3> HIDE DEF s, n
    <3>1. Elems(s) = Elems(a) \union Elems(b) /\ Len(b) = Len(s) - n
      BY <2>2, SplitFacts
    <3>2. QED
      BY <2>2, <3>1
  <2>5. ASSUME NEW u \in Users, status'[u].state = "matching" PROVE Waiting(u)'
    <3>1. Waiting(u)
      BY <2>1, <2>5 DEF Smooth
    <3>2. status[u].mode \in Modes /\ ~status[u].chunk /\ u \in Elems(queue[status[u].mode])
      BY <2>1, <3>1 DEF Waiting
    <3>3. u \in Elems(queue'[status[u].mode]) \/ u \in Elems(group')
      <4>1. CASE status[u].mode = mode
        <5>1. u \in Elems(s)
          BY <3>2, <4>1
        <5>2. QED
          BY <2>1, <2>3, <2>4, <4>1, <5>1
      <4>2. CASE status[u].mode # mode
        BY <2>3, <3>2, <4>2
      <4>3. QED
        BY <4>1, <4>2
    <3>4. QED
      BY <2>1, <3>2, <3>3 DEF Waiting
  <2>6. ShortQueues'
    <3> SUFFICES ASSUME NEW mo \in Modes, Required[mo] > 0
                 PROVE  Len(queue'[mo]) < Required[mo]
      BY DEF ShortQueues
    <3>1. CASE mo = mode
      BY <1>1, <2>3, <2>4, <3>1
    <3>2. CASE mo # mode
      BY <2>1, <2>3, <3>2 DEF Smooth, ShortQueues
    <3>3. QED
      BY <3>1, <3>2
  <2>7. \A m \in 1 .. Len(matches') : Finished(m)'
    BY <2>1 DEF Smooth, Finished, Unfinished
  <2>8. QED
    BY <2>1, <2>5, <2>6, <2>7 DEF Smooth, Unfinished
<1>3. CASE CreateMatch
  <2>1. /\ UNCHANGED <<status, queue, rooms, caller, mode, group>>
        /\ pc = "create" /\ pc' = "matched"
        /\ matches' = Append(matches, Elems(group))
        /\ id' = Len(matches) + 1
        /\ todo' = group
    BY <1>3 DEF CreateMatch, InsertMatch
  <2>2. /\ Len(matches) \in Nat /\ Len(matches') = Len(matches) + 1
        /\ \A m \in 1 .. Len(matches) : matches'[m] = matches[m]
        /\ matches'[id'] = Elems(group)
    <3>1. Elems(group) \in SUBSET Users /\ matches \in Seq(SUBSET Users)
      BY ElemsIn DEF TypeOK
    <3>2. QED
      BY <2>1, <3>1, AppendProperties, LenProperties
  <2>3. DrawnGroup /\ Elems(group) \subseteq Users
    BY <2>1, ElemsIn DEF AfterDequeue, TypeOK
  <2>4. ASSUME NEW u \in Users, status'[u].state = "matching" PROVE Waiting(u)'
    <3>1. Waiting(u)
      BY <2>1, <2>4 DEF Smooth
    <3>2. QED
      BY <2>1, <3>1 DEF Waiting
  <2>5. ShortQueues'
    BY <2>1 DEF Smooth, ShortQueues
  <2>6. Telling'
    <3>1. \A u \in Elems(group) : ~status[u].chunk
      BY <2>1, <2>3 DEF DrawnGroup, Smooth, Waiting
    <3>2. QED
      BY <2>1, <2>2, <3>1 DEF Telling
  <2>7. ASSUME NEW m \in 1 .. Len(matches'), m # id' PROVE Finished(m)'
    <3>1. m \in 1 .. Len(matches)
      BY <2>1, <2>2, <2>7
    <3>2. Finished(m)
      BY <2>1, <3>1 DEF Smooth, Unfinished
    <3>3. QED
      BY <2>1, <2>2, <3>1, <3>2 DEF Finished
  <2>8. QED
    BY <2>1, <2>4, <2>5, <2>6, <2>7 DEF Smooth, Unfinished
<1>4. QED
  BY <1>2, <1>3

\* The group is told of the match and of its chunk; none of it plays in a finished match.
LEMMA GroupSmooth ==
    ASSUME QueueInv, WaitInv, Smooth, MarkMatched \/ MarkChunk
    PROVE  Smooth'
<1> USE DEF WaitInv
<1> DEFINE u0 == Head(todo)
<1>1. /\ UNCHANGED <<queue, matches, rooms, caller, mode, group, id>> /\ todo' = Tail(todo)
      /\ \/ /\ pc = "matched"
            /\ pc' = IF Len(todo) > 1 THEN "matched" ELSE AfterMatched
         \/ /\ pc = "chunk"
            /\ pc' = IF Len(todo) > 1 THEN "chunk" ELSE "room"
  BY DEF MarkMatched, MarkChunk, NextUser
<1>2. DrawnGroup /\ Telling /\ pc \in Looping /\ id \in 1 .. Len(matches) /\ pc \in Unfinished
  BY <1>1 DEF Looping, AfterDequeue, Unfinished, Smooth
<1>3. /\ u0 \in Users /\ u0 \in Elems(group) /\ u0 \in Elems(todo)
      /\ Elems(Tail(todo)) = Elems(todo) \ {u0}
      /\ Elems(todo) \subseteq Elems(group) /\ Elems(group) \subseteq Users
      /\ Len(todo) > 1 \/ Elems(Tail(todo)) = {}
  BY <1>2, TodoFacts, EmptyFacts
<1> HIDE DEF u0
<1>4. /\ status \in [Users -> Statuses]
      /\ \A u \in Users : u # u0 => status'[u] = status[u]
      /\ status'[u0].state = "matched" /\ status'[u0].match = id
      /\ status'[u0].mode = mode /\ status[u0].mode = mode
      /\ pc = "matched" => status[u0].state = "matching" /\ ~status[u0].chunk /\ ~status'[u0].chunk
      /\ pc = "chunk" => status[u0].match = id /\ status'[u0].chunk
  <2>1. status \in [Users -> Statuses] /\ status[u0] \in Statuses
    BY <1>3 DEF TypeOK
  <2>2. status[u0] # NoStatus /\ status[u0].mode = mode
    BY <1>2, <1>3, NoStatusFacts DEF DrawnGroup
  <2>3. CASE MarkMatched
    <3>1. /\ pc = "matched"
          /\ status' = [status EXCEPT ![u0] = [status[u0] EXCEPT !.state = "matched", !.match = id]]
      BY <2>1, <2>2, <2>3 DEF MarkMatched, u0
    <3>2. status[u0].state = "matching" /\ ~status[u0].chunk
      BY <1>2, <1>3, <3>1 DEF DrawnGroup, Telling
    <3>3. status'[u0] = [status[u0] EXCEPT !.state = "matched", !.match = id]
      BY <1>3, <2>1, <3>1
    <3>4. /\ status'[u0].state = "matched" /\ status'[u0].match = id
          /\ status'[u0].mode = status[u0].mode /\ status'[u0].chunk = status[u0].chunk
      BY <2>1, <3>3 DEF Statuses
    <3>5. QED
      BY <1>3, <2>1, <2>2, <3>1, <3>2, <3>4
  <2>4. CASE MarkChunk
    <3>1. /\ pc = "chunk"
          /\ status' = [status EXCEPT ![u0] = [status[u0] EXCEPT !.chunk = TRUE]]
      BY <2>1, <2>2, <2>4 DEF MarkChunk, u0
    <3>2. status[u0].state = "matched" /\ status[u0].match = id
      BY <1>2, <1>3, <3>1 DEF Telling
    <3>3. status'[u0] = [status[u0] EXCEPT !.chunk = TRUE]
      BY <1>3, <2>1, <3>1
    <3>4. /\ status'[u0].state = "matched" /\ status'[u0].match = id
          /\ status'[u0].mode = status[u0].mode /\ status'[u0].chunk
      BY <2>1, <3>2, <3>3 DEF Statuses
    <3>5. QED
      BY <1>3, <2>1, <2>2, <3>1, <3>2, <3>4
  <2>5. QED
    BY <2>3, <2>4
<1>5. ASSUME NEW u \in Users, status'[u].state = "matching" PROVE Waiting(u)'
  <2>1. u # u0 /\ status'[u] = status[u] /\ Waiting(u)
    BY <1>4, <1>5 DEF Smooth
  <2>2. \/ u \in Elems(queue[status[u].mode])
        \/ pc = "matched" /\ u \in Elems(todo)
    BY <1>1, <2>1 DEF Waiting
  <2>3. u \in Elems(todo) => u \in Elems(todo') /\ Len(todo) > 1
    BY <1>1, <1>3, <2>1
  <2>4. QED
    BY <1>1, <2>1, <2>2, <2>3 DEF Waiting
<1>6. ShortQueues'
  BY <1>1 DEF Smooth, ShortQueues
<1>7. pc' \in Unfinished /\ Telling'
  <2>1. pc' \in Unfinished
    BY <1>1 DEF Unfinished, AfterMatched
  <2>2. id' = Len(matches') /\ matches'[id'] = Elems(group')
    BY <1>1, <1>2 DEF Telling
  <2>3. pc' \in {"assign", "chunk"} => mode' \in ChunkModes
    BY <1>1, <1>2 DEF Telling, AfterMatched
  <2>4. ASSUME NEW u \in Elems(group)
        PROVE  /\ (pc' = "matched" => u \notin Elems(todo')) =>
                        status'[u].state = "matched" /\ status'[u].match = id
               /\ pc' \in {"matched", "assign"} => ~status'[u].chunk
               /\ pc' = "chunk" /\ u \notin Elems(todo') => status'[u].chunk
               /\ pc' = "room" => (status'[u].chunk <=> mode \in ChunkModes)
    <3>1. u \in Users
      BY <1>3
    <3>2. CASE pc = "matched"
      <4>1. ~status'[u].chunk
        BY <1>2, <1>4, <3>1, <3>2 DEF Telling
      <4>2. u \notin Elems(todo') => status'[u].state = "matched" /\ status'[u].match = id
        BY <1>1, <1>2, <1>3, <1>4, <3>1, <3>2 DEF Telling
      <4>3. pc' # "matched" => u \notin Elems(todo')
        BY <1>1, <1>3, <3>2
      <4>4. pc' # "chunk" /\ (pc' = "room" => mode \notin ChunkModes)
        BY <1>1, <3>2 DEF AfterMatched
      <4>5. QED
        BY <4>1, <4>2, <4>3, <4>4
    <3>3. CASE pc = "chunk"
      <4>1. status'[u].state = "matched" /\ status'[u].match = id
        BY <1>2, <1>4, <3>1, <3>3 DEF Telling
      <4>2. u \notin Elems(todo') => status'[u].chunk
        BY <1>1, <1>2, <1>3, <1>4, <3>1, <3>3 DEF Telling
      <4>3. pc' = "room" => u \notin Elems(todo')
        BY <1>1, <1>3, <3>3
      <4>4. pc' \in {"chunk", "room"} /\ mode \in ChunkModes
        BY <1>1, <1>2, <3>3 DEF Telling
      <4>5. QED
        BY <4>1, <4>2, <4>3, <4>4
    <3>4. QED
      BY <1>1, <3>2, <3>3
  <2>5. QED
    BY <1>1, <2>1, <2>2, <2>3, <2>4 DEF Telling
<1>8. ASSUME NEW m \in 1 .. Len(matches'), m # id' PROVE Finished(m)'
  <2>1. m \in 1 .. Len(matches) /\ Finished(m) /\ matches[m] \subseteq Users
    BY <1>1, <1>8, PlayersAreUsers DEF Smooth
  <2>2. u0 \notin matches[m]
    BY <1>1, <1>4, <1>8, <2>1 DEF Finished
  <2>3. QED
    BY <1>1, <1>4, <2>1, <2>2 DEF Finished
<1>9. QED
  BY <1>1, <1>5, <1>6, <1>7, <1>8 DEF Smooth, Unfinished

\* The steps of Join after its loops: with its room the match is finished.
LEMMA OtherSmooth ==
    ASSUME QueueInv, WaitInv, Smooth, AssignChunk \/ CreateRoom
    PROVE  Smooth'
<1> USE DEF WaitInv
<1>1. CASE AssignChunk
  <2>1. /\ pc = "assign" /\ pc' = "chunk" /\ todo' = group
        /\ UNCHANGED <<status, queue, matches, rooms, caller, mode, group, id>>
    BY <1>1 DEF AssignChunk, storeVars
  <2>2. ASSUME NEW u \in Users, status'[u].state = "matching" PROVE Waiting(u)'
    <3>1. Waiting(u)
      BY <2>1, <2>2 DEF Smooth
    <3>2. QED
      BY <2>1, <3>1 DEF Waiting
  <2>3. ShortQueues'
    BY <2>1 DEF Smooth, ShortQueues
  <2>4. Telling'
    BY <2>1 DEF Smooth, Telling, Unfinished
  <2>5. \A m \in 1 .. Len(matches') : Finished(m)' \/ m = id'
    BY <2>1 DEF Smooth, Finished
  <2>6. QED
    BY <2>1, <2>2, <2>3, <2>4, <2>5 DEF Smooth, Unfinished
<1>2. CASE CreateRoom
  <2>1. /\ pc = "room" /\ pc' = "free" /\ rooms' = rooms \union {id}
        /\ UNCHANGED <<status, queue, matches>>
    BY <1>2 DEF CreateRoom, Return
  <2>2. ASSUME NEW u \in Users, status'[u].state = "matching" PROVE Waiting(u)'
    <3>1. Waiting(u)
      BY <2>1, <2>2 DEF Smooth
    <3>2. QED
      BY <2>1, <3>1 DEF Waiting
  <2>3. ShortQueues'
    BY <2>1 DEF Smooth, ShortQueues
  <2>4. DrawnGroup /\ Telling
    BY <2>1 DEF AfterDequeue, Unfinished, Smooth
  <2>5. ASSUME NEW m \in 1 .. Len(matches') PROVE Finished(m)'
    <3>1. CASE m = id
      <4>1. matches[m] = Elems(group)
        BY <2>4, <3>1 DEF Telling
      <4>2. \A u \in Elems(group) :
                /\ status[u].state = "matched" /\ status[u].match = m
                /\ status[u].chunk <=> status[u].mode \in ChunkModes
        BY <2>1, <2>4, <3>1 DEF Telling, DrawnGroup
      <4>3. QED
        BY <2>1, <3>1, <4>1, <4>2 DEF Finished
    <3>2. CASE m # id
      <4>1. Finished(m)
        BY <2>1, <3>2 DEF Smooth
      <4>2. QED
        BY <2>1, <4>1 DEF Finished
    <3>3. QED
      BY <3>1, <3>2
  <2>6. QED
    BY <2>1, <2>2, <2>3, <2>5 DEF Smooth, Unfinished
<1>3. QED
  BY <1>1, <1>2

\* Every step keeps the invariant, or is the first failure.
LEMMA NextSmooth ==
    ASSUME QueueInv, WaitInv, SmoothInv, [Next]_vars
    PROVE  SmoothInv'
<1> SUFFICES ASSUME ~failed' PROVE Smooth'
  BY DEF SmoothInv
<1>1. CASE UNCHANGED vars
  BY <1>1 DEF vars, storeVars, callVars, SmoothInv, Smooth, Waiting, ShortQueues, Telling, Finished
<1>2. CASE Next
  <2>1. UNCHANGED failed /\ ~failed
    BY <1>2 DEF Next, CreateFails, CallFails, Restart
  <2>2. Smooth
    BY <2>1 DEF SmoothInv
  <2>3. ~RestoreStatus /\ ~RestoreQueue
    BY <2>2 DEF Smooth, RestoreStatus, RestoreQueue
  <2>4. CASE \/ \E u \in Users, mo \in Modes : BeginJoin(u, mo)
             \/ \E u \in Users : BeginCancel(u)
    BY <2>2, <2>4, BeginSmooth
  <2>5. \/ \E u \in Users, mo \in Modes : BeginJoin(u, mo)
        \/ \E u \in Users : BeginCancel(u)
        \/ JoinStep \/ RemoveFromQueue \/ SetCancelled
    BY <1>2, <2>1 DEF Next, CreateFails, CallFails, Restart
  <2>6. QED
    BY <2>2, <2>3, <2>4, <2>5, CallerSmooth, CreateSmooth, GroupSmooth, OtherSmooth DEF JoinStep
<1>3. QED
  BY <1>1, <1>2

\* The invariant, for every instance.
THEOREM SmoothInvariant == Spec => []SmoothInv
  BY InitSmooth, NextSmooth, QueueInvariant, WaitInvariant, PTL DEF Spec

\* Between two calls, if none has failed: whoever waits is queued in that mode, and no
\* complete group goes on waiting.
THEOREM GroupsAreDrawn == Spec => []NoGroupWaits
<1>1. WaitInv /\ SmoothInv => NoGroupWaits
  <2> SUFFICES ASSUME WaitInv, Smooth, pc = "free"
               PROVE  /\ \A u \in Users : status[u].state = "matching" =>
                            u \in Elems(queue[status[u].mode])
                      /\ \A mo \in Modes : Required[mo] > 0 => Len(queue[mo]) < Required[mo]
    BY DEF SmoothInv, NoGroupWaits
  <2>1. QED
    BY DEF Smooth, Waiting, ShortQueues
<1>2. QED
  BY <1>1, WaitInvariant, SmoothInvariant, PTL

\* Between two calls, if none has failed: every player of every match was told of it
\* and of its chunk, and the match has its room.
THEOREM EveryPlayerTold == Spec => []GroupTold
<1>1. SmoothInv => GroupTold
  BY DEF SmoothInv, Smooth, Unfinished, Finished, GroupTold
<1>2. QED
  BY <1>1, SmoothInvariant, PTL

=============================================================================
