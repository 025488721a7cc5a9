---------------------------- MODULE ResultProofs -----------------------------
(***************************************************************************)
(* Proofs about the result of a match, from WinnerLoop to RankSettlement.  *)
(* For every set of matches, users and workers and any number of           *)
(* submissions: a match is settled at most once, for one result, its       *)
(* settlement moves every player's rating by that result alone, and no     *)
(* published result is lost; so a rating is the sum of the results settled *)
(* for the player, and the leaderboard follows it.  For any teams and      *)
(* scores, the loop that looks for the winner finds it in every order.     *)
(***************************************************************************)
EXTENDS RankSettlement, WinnerLoop, FiniteSetTheorems, WellFoundedInduction, TLAPS

\* A worker holds an event exactly while it is not idle.
Holding == \A w \in Workers : IF wpc[w] = "idle" THEN wmsg[w] = NoEvent ELSE wmsg[w] \in Results

\* An open transaction is the only one of its match, and the match is not settled;
\* what follows the transaction comes after the settlement.
KeyHeld ==
    /\ \A w \in Workers :
        /\ wpc[w] = "open" => events[wmsg[w].match] = NoTeam
        /\ wpc[w] \in {"sync", "write", "ack"} => events[wmsg[w].match] # NoTeam
    /\ \A v, w \in Workers :
        wpc[v] = "open" /\ wpc[w] = "open" /\ wmsg[v].match = wmsg[w].match => v = w

RankInv == TypeOK /\ Holding /\ KeyHeld /\ NoResultLost

\* What a settlement does to the ratings: each player of a match that becomes
\* settled gains or loses by the result it is settled for, from 1000 points if
\* the player had none; a step that settles no match changes no rating.
RatingStep ==
    /\ \A m \in Matches : events'[m] # events[m] =>
        LET e == [match |-> m, winner |-> events'[m]] IN
        rating' = [u \in Users |->
                    IF u \notin Players(m) THEN rating[u]
                    ELSE IF rating[u] = NoRank THEN 1000 + Delta(u, e)
                    ELSE rating[u] + Delta(u, e)]
    /\ events' = events => rating' = rating

-----------------------------------------------------------------------------
(* Parts of the steps *)

\* A result is a match with a winner; neither is a null value.
LEMMA ResultFacts ==
    /\ \A e \in Results : /\ e.match \in Matches /\ e.winner \in Winners
                          /\ e.winner # NoTeam /\ e # NoEvent
                          /\ e = [match |-> e.match, winner |-> e.winner]
    /\ NoEvent.match \notin Matches
<1>1. ASSUME NEW e \in Results
      PROVE  /\ e.match \in Matches /\ e.winner \in Winners
             /\ e = [match |-> e.match, winner |-> e.winner]
  BY DEF Results
<1>2. NoEvent.match \notin Matches
  BY NullAssumption DEF NoEvent
<1>3. QED
  BY <1>1, <1>2, SettlementAssumption, NullAssumption

\* Forgetting the event keeps the types of the worker's variables.
LEMMA ForgetTypes ==
    ASSUME TypeOK, NEW w \in Workers, ForgetEvent(w)
    PROVE  /\ wpc' = [wpc EXCEPT ![w] = "idle"]
           /\ wmsg' = [wmsg EXCEPT ![w] = NoEvent]
           /\ wpc' \in [Workers -> WorkerControl]
           /\ wmsg' \in [Workers -> Results \union {NoEvent}]
           /\ wtodo' \in [Workers -> SUBSET Users]
           /\ wuser' \in [Workers -> Users \union {NoUser}]
           /\ wread' \in [Workers -> Int \union {NoRank}]
  BY DEF ForgetEvent, GotoW, TypeOK, WorkerControl

\* A commit settles the match of the worker's event, unsettled until then, and no
\* other, and moves the ratings.
LEMMA CommitSettles ==
    ASSUME RankInv, NEW w \in Workers, CommitEvent(w)
    PROVE  /\ wmsg[w] \in Results
           /\ events[wmsg[w].match] = NoTeam
           /\ events' = [events EXCEPT ![wmsg[w].match] = wmsg[w].winner]
           /\ events' \in [Matches -> Winners \union {NoTeam}]
           /\ \A m \in Matches : events[m] # NoTeam => events'[m] = events[m]
           /\ rating' \in [Users -> Int \union {NoRank}]
           /\ RatingStep
<1> DEFINE e == wmsg[w]
<1>1. e \in Results /\ events[e.match] = NoTeam
  BY DEF RankInv, Holding, KeyHeld, CommitEvent
<1>2. /\ events' = [events EXCEPT ![e.match] = e.winner]
      /\ rating' = [u \in Users |->
                    IF u \notin Players(e.match) THEN rating[u]
                    ELSE IF rating[u] = NoRank THEN 1000 + Delta(u, e)
                    ELSE rating[u] + Delta(u, e)]
  BY DEF CommitEvent
<1> HIDE DEF e
<1>3. /\ events' \in [Matches -> Winners \union {NoTeam}]
      /\ \A m \in Matches : events[m] # NoTeam => events'[m] = events[m]
  BY <1>1, <1>2, ResultFacts DEF RankInv, TypeOK
<1>4. \A u \in Users : Delta(u, e) \in Int
  BY DEF Delta
<1>5. rating' \in [Users -> Int \union {NoRank}]
  BY <1>2, <1>4 DEF RankInv, TypeOK
<1>6. RatingStep
  <2>1. events'[e.match] # events[e.match]
    BY <1>1, <1>2, ResultFacts DEF RankInv, TypeOK
  <2>2. ASSUME NEW m \in Matches, events'[m] # events[m]
        PROVE  m = e.match /\ [match |-> m, winner |-> events'[m]] = e
    BY <1>1, <1>2, <2>2, ResultFacts DEF RankInv, TypeOK
  <2>3. QED
    BY <1>2, <2>1, <2>2, <1>1, ResultFacts DEF RatingStep
<1>7. QED
  BY <1>1, <1>2, <1>3, <1>5, <1>6 DEF e

-----------------------------------------------------------------------------
(* The inductive invariant *)

\* The invariant holds when nothing has been submitted.
LEMMA InitRank == Init => RankInv
  BY SettlementAssumption, NullAssumption
  DEF Init, RankInv, TypeOK, Holding, KeyHeld, NoResultLost, WorkerControl

\* Submitting and publishing keep it: they only add events to the broker.
LEMMA SubmitKeeps ==
    ASSUME RankInv, NEW e \in Results, Submit(e) \/ Publish(e) \/ PublishFails(e)
    PROVE  RankInv'
<1> USE DEF RankInv
<1>1. e.match \in Matches /\ e.winner \in Winners
  BY ResultFacts
<1>2. UNCHANGED <<rankVars, workerVars, smooth>>
  BY DEF Submit, Publish, PublishFails
<1>3. Holding' /\ KeyHeld'
  BY <1>2 DEF Holding, KeyHeld, rankVars, workerVars
<1>4. CASE Submit(e)
  <2>1. submits' \in [Matches -> Nat] /\ \A m \in Matches : submits'[m] <= MaxSubmits[m]
    <3>1. /\ submits[e.match] < MaxSubmits[e.match]
          /\ submits' = [submits EXCEPT ![e.match] = @ + 1]
          /\ submits \in [Matches -> Nat] /\ \A m \in Matches : submits[m] <= MaxSubmits[m]
      BY <1>4 DEF Submit, TypeOK
    <3>2. ASSUME NEW m \in Matches PROVE submits'[m] \in Nat /\ submits'[m] <= MaxSubmits[m]
      <4>1. submits[m] \in Nat /\ MaxSubmits[m] \in Nat
        BY <3>1, SettlementAssumption
      <4>2. submits'[m] = IF m = e.match THEN submits[m] + 1 ELSE submits[m]
        BY <3>1
      <4>3. QED
        BY <3>1, <4>1, <4>2
    <3>3. QED
      BY <3>1, <3>2
  <2>2. /\ row' \in [Matches -> Winners \union {NoTeam}]
        /\ calls' \in [Results -> Nat]
        /\ UNCHANGED <<queue, published>>
    BY <1>1, <1>4 DEF Submit, TypeOK, brokerVars
  <2>3. TypeOK'
    BY <1>2, <2>1, <2>2 DEF TypeOK, rankVars, workerVars
  <2>4. NoResultLost'
    BY <1>2, <2>2 DEF NoResultLost, rankVars, workerVars
  <2>5. QED
    BY <1>3, <2>3, <2>4
<1>5. CASE Publish(e)
  <2>1. /\ calls' \in [Results -> Nat]
        /\ queue' = [queue EXCEPT ![e] = @ + 1]
        /\ queue' \in [Results -> Nat]
        /\ published' = published \union {e.match}
        /\ UNCHANGED <<row, submits>>
    BY <1>5 DEF Publish, TypeOK
  <2>2. TypeOK'
    BY <1>1, <1>2, <2>1 DEF TypeOK, rankVars, workerVars
  <2>3. ASSUME NEW f \in Results, f = e \/ queue[f] > 0 PROVE queue'[f] > 0
    BY <2>1, <2>3 DEF TypeOK
  <2>4. NoResultLost'
    BY <1>2, <2>1, <2>3 DEF NoResultLost, rankVars, workerVars
  <2>5. QED
    BY <1>3, <2>2, <2>4
<1>6. CASE PublishFails(e)
  <2>1. calls' \in [Results -> Nat] /\ UNCHANGED <<row, submits, queue, published>>
    BY <1>6 DEF PublishFails, TypeOK, brokerVars
  <2>2. TypeOK' /\ NoResultLost'
    BY <1>2, <2>1 DEF TypeOK, NoResultLost, rankVars, workerVars
  <2>3. QED
    BY <1>3, <2>2
<1>7. QED
  BY <1>4, <1>5, <1>6

\* Taking an event moves it from the broker to the worker.
LEMMA TakeKeeps ==
    ASSUME RankInv, NEW w \in Workers, Take(w)
    PROVE  RankInv'
<1> USE DEF RankInv
<1>1. PICK e \in Results :
        /\ queue[e] > 0
        /\ queue' = [queue EXCEPT ![e] = @ - 1]
        /\ wmsg' = [wmsg EXCEPT ![w] = e]
  BY DEF Take
<1>2. /\ wpc[w] = "idle"
      /\ wpc' = [wpc EXCEPT ![w] = "taken"]
      /\ smooth' \in BOOLEAN
      /\ UNCHANGED <<callVars, published, rankVars, wtodo, wuser, wread>>
  BY DEF Take, GotoW, TypeOK
<1>3. queue' \in [Results -> Nat]
  BY <1>1 DEF TypeOK
<1>4. TypeOK'
  BY <1>1, <1>2, <1>3 DEF TypeOK, callVars, rankVars, WorkerControl
<1>5. Holding' /\ KeyHeld'
  BY <1>1, <1>2 DEF TypeOK, Holding, KeyHeld, rankVars
<1>6. NoResultLost'
  <2> SUFFICES ASSUME NEW m \in published, events[m] = NoTeam
               PROVE  \/ \E f \in Results : f.match = m /\ queue'[f] > 0
                      \/ \E v \in Workers : wmsg'[v].match = m
    BY <1>2 DEF NoResultLost, rankVars
  <2>1. CASE m = e.match
    BY <1>1, <2>1 DEF TypeOK
  <2>2. CASE \E v \in Workers : wmsg[v].match = m
    <3>1. PICK v \in Workers : wmsg[v].match = m
      BY <2>2
    <3>2. v # w
      BY <1>2, <3>1, ResultFacts DEF TypeOK, Holding
    <3>3. QED
      BY <1>1, <3>1, <3>2 DEF TypeOK
  <2>3. CASE m # e.match /\ \E f \in Results : f.match = m /\ queue[f] > 0
    BY <1>1, <2>3 DEF TypeOK
  <2>4. QED
    BY <2>1, <2>2, <2>3 DEF NoResultLost
<1>7. QED
  BY <1>4, <1>5, <1>6

\* A worker is done with its event: it is acknowledged, after its match was
\* settled, or returned to the broker.
LEMMA AckKeeps ==
    ASSUME RankInv, NEW w \in Workers, Ack(w)
    PROVE  RankInv'
<1> USE DEF RankInv
<1>1. wpc[w] = "ack" /\ UNCHANGED <<callVars, brokerVars, rankVars, smooth>>
  BY DEF Ack
<1>2. TypeOK'
  BY <1>1, ForgetTypes DEF Ack, TypeOK, callVars, brokerVars, rankVars
<1>3. Holding'
  BY <1>1, ForgetTypes DEF Ack, TypeOK, Holding
<1>4. KeyHeld'
  <2>1. ASSUME NEW v \in Workers, wpc'[v] # "idle"
        PROVE  wpc'[v] = wpc[v] /\ wmsg'[v] = wmsg[v]
    BY <2>1, ForgetTypes DEF Ack, TypeOK
  <2>2. QED
    BY <1>1, <2>1 DEF KeyHeld, rankVars
<1>5. NoResultLost'
  <2> SUFFICES ASSUME NEW m \in published, events[m] = NoTeam
               PROVE  \/ \E f \in Results : f.match = m /\ queue[f] > 0
                      \/ \E v \in Workers : wmsg'[v].match = m
    BY <1>1 DEF NoResultLost, brokerVars, rankVars
  <2>1. ASSUME NEW v \in Workers, wmsg[v].match = m PROVE wmsg'[v].match = m
    BY <1>1, <2>1, ForgetTypes DEF Ack, KeyHeld, TypeOK
  <2>2. QED
    BY <2>1 DEF NoResultLost
<1>6. QED
  BY <1>2, <1>3, <1>4, <1>5

\* Returning the event moves it from the worker to the broker.
LEMMA RequeueKeeps ==
    ASSUME RankInv, NEW w \in Workers, SettleFails(w) \/ CommitUnseen(w)
    PROVE  RankInv'
<1> USE DEF RankInv
<1> DEFINE e == wmsg[w]
<1>1. e \in Results
  BY DEF Holding, SettleFails, CommitUnseen, CommitEvent
<1>2. /\ ForgetEvent(w)
      /\ queue' = [queue EXCEPT ![e] = @ + 1]
      /\ smooth' = FALSE
      /\ UNCHANGED <<callVars, published>>
  BY DEF SettleFails, CommitUnseen, Requeue
<1>3. /\ events' \in [Matches -> Winners \union {NoTeam}]
      /\ \A m \in Matches : events[m] # NoTeam => events'[m] = events[m]
      /\ \A m \in Matches : events'[m] # events[m] => wpc[w] = "open" /\ m = e.match
      /\ rating' \in [Users -> Int \union {NoRank}]
      /\ leaderboard' = leaderboard
  BY CommitSettles DEF SettleFails, CommitUnseen, CommitEvent, rankVars, TypeOK
<1>4. TypeOK'
  <2>1. queue' \in [Results -> Nat]
    BY <1>1, <1>2 DEF TypeOK
  <2>2. QED
    BY <1>2, <1>3, <2>1, ForgetTypes DEF TypeOK, callVars
<1>5. Holding' /\ KeyHeld'
  <2>1. Holding'
    BY <1>2, ForgetTypes DEF Holding, TypeOK
  <2>2. ASSUME NEW v \in Workers, wpc'[v] # "idle"
        PROVE  v # w /\ wpc'[v] = wpc[v] /\ wmsg'[v] = wmsg[v] /\ wmsg[v].match \in Matches
    BY <1>2, <2>2, ForgetTypes, ResultFacts DEF Holding, TypeOK
  <2>3. ASSUME NEW v \in Workers, wpc'[v] = "open" PROVE events'[wmsg'[v].match] = NoTeam
    BY <1>3, <2>2, <2>3 DEF KeyHeld
  <2>4. QED
    BY <1>3, <2>1, <2>2, <2>3 DEF KeyHeld
<1>6. NoResultLost'
  <2> SUFFICES ASSUME NEW m \in published, events'[m] = NoTeam
               PROVE  \/ \E f \in Results : f.match = m /\ queue'[f] > 0
                      \/ \E v \in Workers : wmsg'[v].match = m
    BY <1>2 DEF NoResultLost
  <2>1. events[m] = NoTeam
    BY <1>3 DEF TypeOK
  <2>2. CASE e.match = m
    BY <1>1, <1>2, <2>2 DEF TypeOK
  <2>3. CASE \E f \in Results : f.match = m /\ queue[f] > 0
    BY <1>1, <1>2, <2>3 DEF TypeOK
  <2>4. CASE e.match # m /\ \E v \in Workers : wmsg[v].match = m
    BY <1>2, <2>4, ForgetTypes DEF TypeOK
  <2>5. QED
    BY <2>1, <2>2, <2>3, <2>4 DEF NoResultLost
<1>7. QED
  BY <1>4, <1>5, <1>6

\* The insert of the event waits for the transaction that holds its key, and
\* finds a match already settled.
LEMMA AddEventKeeps ==
    ASSUME RankInv, NEW w \in Workers, AddEvent(w)
    PROVE  RankInv'
<1> USE DEF RankInv
<1>1. /\ wpc[w] = "taken"
      /\ KeyFree(wmsg[w].match)
      /\ UNCHANGED <<callVars, brokerVars, rankVars, wmsg, wtodo, wuser, wread, smooth>>
      /\ wpc' = [wpc EXCEPT ![w] = IF events[wmsg[w].match] = NoTeam THEN "open" ELSE "ack"]
  BY DEF AddEvent, GotoW
<1>2. TypeOK'
  BY <1>1 DEF TypeOK, callVars, brokerVars, rankVars, WorkerControl
<1>3. Holding' /\ NoResultLost'
  BY <1>1 DEF TypeOK, Holding, NoResultLost, brokerVars, rankVars
<1>4. KeyHeld'
  BY <1>1 DEF TypeOK, KeyHeld, KeyFree, rankVars
<1>5. QED
  BY <1>2, <1>3, <1>4

\* The commit ends the transaction and the leaderboard is brought up to date.
LEMMA SettleKeeps ==
    ASSUME RankInv, NEW w \in Workers, Commit(w) \/ ReadRank(w) \/ WriteBoard(w)
    PROVE  RankInv'
<1> USE DEF RankInv
<1>1. /\ UNCHANGED <<callVars, brokerVars, wmsg, smooth>>
      /\ \E pc \in {"sync", "write", "ack"} : wpc' = [wpc EXCEPT ![w] = pc]
      /\ wpc[w] \in {"open", "sync", "write"}
      /\ wpc[w] = "open" => CommitEvent(w)
      /\ wpc[w] # "open" => UNCHANGED <<events, rating>>
  BY DEF Commit, CommitEvent, ReadRank, WriteBoard, GotoW, rankVars
<1>2. /\ wmsg[w] \in Results
      /\ events' \in [Matches -> Winners \union {NoTeam}]
      /\ rating' \in [Users -> Int \union {NoRank}]
      /\ events'[wmsg[w].match] # NoTeam
      /\ \A m \in Matches : events[m] # NoTeam => events'[m] = events[m]
      /\ \A m \in Matches : events'[m] # events[m] => wpc[w] = "open" /\ m = wmsg[w].match
  BY <1>1, CommitSettles, ResultFacts DEF Holding, KeyHeld, TypeOK
<1>3. /\ leaderboard' \in [Users -> Int \union {NoRank}]
      /\ wtodo' \in [Workers -> SUBSET Users]
      /\ wuser' \in [Workers -> Users \union {NoUser}]
      /\ wread' \in [Workers -> Int \union {NoRank}]
  BY DEF Commit, CommitEvent, ReadRank, WriteBoard, TypeOK, rankVars, Players
<1>4. TypeOK'
  BY <1>1, <1>2, <1>3 DEF TypeOK, callVars, brokerVars, WorkerControl
<1>5. Holding'
  BY <1>1 DEF TypeOK, Holding
<1>6. KeyHeld'
  <2>1. ASSUME NEW v \in Workers, wpc'[v] = "open"
        PROVE  wpc[v] = "open" /\ v # w /\ wmsg[v].match \in Matches
    BY <1>1, <2>1, ResultFacts DEF TypeOK, Holding
  <2>2. ASSUME NEW v \in Workers, wpc'[v] \in {"sync", "write", "ack"}, v # w
        PROVE  wpc[v] = wpc'[v] /\ wmsg[v].match \in Matches
    BY <1>1, <2>2, ResultFacts DEF TypeOK, Holding
  <2>3. ASSUME NEW v \in Workers, wpc'[v] = "open" PROVE events'[wmsg[v].match] = NoTeam
    BY <1>2, <2>1, <2>3 DEF KeyHeld
  <2>4. ASSUME NEW v \in Workers, wpc'[v] \in {"sync", "write", "ack"}
        PROVE  events'[wmsg[v].match] # NoTeam
    BY <1>2, <2>2, <2>4 DEF KeyHeld
  <2>5. QED
    BY <1>1, <2>1, <2>3, <2>4 DEF KeyHeld
<1>7. NoResultLost'
  <2>1. published \subseteq Matches
    BY DEF TypeOK
  <2>2. QED
    BY <1>1, <1>2, <2>1 DEF NoResultLost, brokerVars
<1>8. QED
  BY <1>4, <1>5, <1>6, <1>7

\* Every step keeps the invariant.
LEMMA NextRank == RankInv /\ [Next]_vars => RankInv'
<1>1. ASSUME RankInv, UNCHANGED vars PROVE RankInv'
  BY <1>1 DEF vars, callVars, brokerVars, rankVars, workerVars, RankInv, TypeOK, Holding,
              KeyHeld, NoResultLost
<1>2. QED
  BY <1>1, SubmitKeeps, TakeKeeps, AddEventKeeps, SettleKeeps, AckKeeps, RequeueKeeps
  DEF Next, WorkerStep

-----------------------------------------------------------------------------
(* Theorems *)

\* The invariant, for every instance.
THEOREM RankInvariant == Spec => []RankInv
  BY InitRank, NextRank, PTL DEF Spec

\* Every variable keeps its type.
THEOREM RankTypes == Spec => []TypeOK
<1>1. RankInv => TypeOK
  BY DEF RankInv
<1>2. QED
  BY <1>1, RankInvariant, PTL

\* A published result is settled, waits, or is held by a worker.
THEOREM PublishedIsKept == Spec => []NoResultLost
<1>1. RankInv => NoResultLost
  BY DEF RankInv
<1>2. QED
  BY <1>1, RankInvariant, PTL

\* A step settles no match but by committing a transaction.
LEMMA StepSettles ==
    ASSUME RankInv, [Next]_vars
    PROVE  \/ UNCHANGED <<events, rating>>
           \/ \E w \in Workers : CommitEvent(w)
  BY DEF Next, vars, Submit, Publish, PublishFails, WorkerStep, Take, AddEvent, Commit, ReadRank,
         WriteBoard, Ack, SettleFails, CommitUnseen, rankVars

\* A settlement is final: no result submitted, published or delivered later
\* replaces the one a match was settled for.
THEOREM SettledForGood == Spec => SettlementFinal
<1>1. RankInv /\ [Next]_vars =>
        [\A m \in Matches : events[m] # NoTeam => events'[m] = events[m]]_vars
  BY StepSettles, CommitSettles
<1>2. QED
  BY <1>1, RankInvariant, PTL DEF Spec, SettlementFinal

\* The ratings move only when a match is settled, and then by its result, once for
\* each of its players: with SettledForGood, every settled match counts once.
THEOREM RatingsMoveOnce == Spec => [][RatingStep]_vars
<1>1. RankInv /\ [Next]_vars => [RatingStep]_vars
  BY StepSettles, CommitSettles DEF RatingStep
<1>2. QED
  BY <1>1, RankInvariant, PTL DEF Spec

-----------------------------------------------------------------------------
(* The leaderboard *)

\* As long as one worker at a time settled results and none of its calls failed: a user
\* whose leaderboard score is not the rating is still to be synced by that worker, or
\* is the one it is about to write, with the score it has read.
BoardInv ==
    smooth =>
        /\ \A v, w \in Workers : wpc[v] # "idle" /\ wpc[w] # "idle" => v = w
        /\ \A u \in Users : leaderboard[u] # rating[u] =>
            \E w \in Workers : \/ wpc[w] \in {"sync", "write"} /\ u \in wtodo[w]
                               \/ wpc[w] = "write" /\ u = wuser[w]
        /\ \A w \in Workers : wpc[w] = "write" => wread[w] = rating[wuser[w]]

\* A settlement puts the players it moves on the worker's list, and each write takes
\* one off it.
LEMMA BoardStep ==
    ASSUME RankInv, BoardInv, [Next]_vars
    PROVE  BoardInv'
<1> SUFFICES ASSUME smooth' PROVE BoardInv'
  BY DEF BoardInv
<1>1. CASE UNCHANGED <<rankVars, workerVars, smooth>>
  BY <1>1 DEF BoardInv, rankVars, workerVars
<1>2. ASSUME NEW w \in Workers, Take(w) PROVE BoardInv'
  <2>1. /\ wpc' = [wpc EXCEPT ![w] = "taken"] /\ wpc[w] = "idle"
        /\ smooth /\ \A v \in Workers : wpc[v] = "idle"
        /\ UNCHANGED <<leaderboard, rating, wtodo, wuser, wread>>
    BY <1>2 DEF Take, GotoW, rankVars
  <2>2. QED
    BY <2>1 DEF BoardInv, RankInv, TypeOK
<1>3. ASSUME NEW w \in Workers, AddEvent(w) PROVE BoardInv'
  <2>1. /\ \E pc \in {"open", "ack"} : wpc' = [wpc EXCEPT ![w] = pc]
        /\ wpc[w] = "taken" /\ smooth
        /\ UNCHANGED <<leaderboard, rating, wtodo, wuser, wread>>
    BY <1>3 DEF AddEvent, GotoW, rankVars
  <2>2. QED
    BY <2>1 DEF BoardInv, RankInv, TypeOK
<1>4. ASSUME NEW w \in Workers, Commit(w) PROVE BoardInv'
  <2>1. /\ wpc' = [wpc EXCEPT ![w] = "sync"] /\ wpc[w] = "open" /\ smooth
        /\ wtodo' = [wtodo EXCEPT ![w] = Players(wmsg[w].match)]
        /\ UNCHANGED <<leaderboard, wuser, wread>>
        /\ \A u \in Users : u \notin Players(wmsg[w].match) => rating'[u] = rating[u]
    BY <1>4 DEF Commit, CommitEvent, GotoW
  <2>2. \A v \in Workers : v # w => wpc[v] = "idle" /\ wpc'[v] = "idle"
    BY <2>1 DEF BoardInv, RankInv, TypeOK
  <2>3. \A u \in Users : leaderboard[u] = rating[u]
    BY <2>1, <2>2 DEF BoardInv
  <2>4. wpc'[w] = "sync" /\ wtodo'[w] = Players(wmsg[w].match)
    BY <2>1 DEF RankInv, TypeOK
  <2>5. QED
    BY <2>1, <2>2, <2>3, <2>4 DEF BoardInv
<1>5. ASSUME NEW w \in Workers, ReadRank(w) PROVE BoardInv'
  <2>1. PICK u \in wtodo[w] :
            /\ wuser' = [wuser EXCEPT ![w] = u]
            /\ wread' = [wread EXCEPT ![w] = rating[u]]
            /\ wtodo' = [wtodo EXCEPT ![w] = @ \ {u}]
    BY <1>5 DEF ReadRank
  <2>2. /\ wpc' = [wpc EXCEPT ![w] = "write"] /\ wpc[w] = "sync" /\ smooth
        /\ UNCHANGED <<leaderboard, rating>>
    BY <1>5 DEF ReadRank, GotoW, rankVars
  <2>3. \A v \in Workers : v # w => wpc[v] = "idle" /\ wpc'[v] = "idle"
    BY <2>2 DEF BoardInv, RankInv, TypeOK
  <2>4. \A t \in Users : leaderboard[t] # rating[t] => t \in wtodo[w]
    BY <2>2, <2>3 DEF BoardInv
  <2>5. /\ wpc'[w] = "write" /\ wuser'[w] = u /\ wread'[w] = rating[u]
        /\ wtodo'[w] = wtodo[w] \ {u}
    BY <2>1, <2>2 DEF RankInv, TypeOK
  <2>6. QED
    BY <2>2, <2>3, <2>4, <2>5 DEF BoardInv
<1>6. ASSUME NEW w \in Workers, WriteBoard(w) PROVE BoardInv'
  <2>1. /\ leaderboard' = [leaderboard EXCEPT ![wuser[w]] = wread[w]]
        /\ wpc' = [wpc EXCEPT ![w] = IF wtodo[w] # {} THEN "sync" ELSE "ack"]
        /\ wpc[w] = "write" /\ smooth
        /\ UNCHANGED <<rating, wtodo, wuser, wread>>
    BY <1>6 DEF WriteBoard, GotoW
  <2>2. \A v \in Workers : v # w => wpc[v] = "idle" /\ wpc'[v] = "idle"
    BY <2>1 DEF BoardInv, RankInv, TypeOK
  <2>3. wread[w] = rating[wuser[w]]
    BY <2>1 DEF BoardInv
  <2>4. \A u \in Users : leaderboard[u] # rating[u] => u \in wtodo[w] \/ u = wuser[w]
    BY <2>1, <2>2 DEF BoardInv
  <2>5. \A u \in Users : leaderboard'[u] # rating[u] => u \in wtodo[w]
    BY <2>1, <2>3, <2>4 DEF RankInv, TypeOK
  <2>6. wpc'[w] = IF wtodo[w] # {} THEN "sync" ELSE "ack"
    BY <2>1 DEF RankInv, TypeOK
  <2>7. QED
    BY <2>1, <2>2, <2>5, <2>6 DEF BoardInv
<1>7. ASSUME NEW w \in Workers, Ack(w) PROVE BoardInv'
  <2>1. wpc[w] = "ack" /\ smooth /\ UNCHANGED <<leaderboard, rating>>
    BY <1>7 DEF Ack, rankVars
  <2>2. \A v \in Workers : wpc'[v] = "idle"
    BY <1>7, <2>1, ForgetTypes DEF Ack, BoardInv, RankInv, TypeOK
  <2>3. \A u \in Users : leaderboard[u] = rating[u]
    BY <2>1 DEF BoardInv
  <2>4. QED
    BY <2>1, <2>2, <2>3 DEF BoardInv
<1>8. ASSUME NEW w \in Workers, SettleFails(w) \/ CommitUnseen(w) PROVE FALSE
  BY <1>8 DEF SettleFails, CommitUnseen, Requeue
<1>9. CASE UNCHANGED vars \/ \E e \in Results : Submit(e) \/ Publish(e) \/ PublishFails(e)
  <2>1. UNCHANGED <<rankVars, workerVars, smooth>>
    BY <1>9 DEF vars, Submit, Publish, PublishFails
  <2>2. QED
    BY <1>1, <2>1
<1>10. QED
  BY <1>2, <1>3, <1>4, <1>5, <1>6, <1>7, <1>8, <1>9 DEF Next, WorkerStep

\* As long as one worker at a time settled results and none of its calls failed, the
\* leaderboard shows the ratings once the workers are done.
THEOREM LeaderboardIsCurrent == Spec => []LeaderboardFollows
<1>1. Init => BoardInv
  BY DEF Init, BoardInv
<1>2. RankInv /\ BoardInv => LeaderboardFollows
  <2> SUFFICES ASSUME RankInv, BoardInv, smooth, Quiet PROVE leaderboard = rating
    BY DEF LeaderboardFollows, LeaderboardCurrent
  <2>1. \A u \in Users : leaderboard[u] = rating[u]
    BY DEF BoardInv, Quiet
  <2>2. QED
    BY <2>1 DEF RankInv, TypeOK
<1>3. QED
  BY <1>1, <1>2, RankInvariant, BoardStep, PTL DEF Spec

-----------------------------------------------------------------------------
(* Sums over finite sets, for any function: MapThenSumSet adds up one chosen   *)
(* element at a time, and the order makes no difference.                       *)

\* h adds up f over each subset of S, one chosen element at a time.
SumsUp(h, f, S) ==
    h = [t \in SUBSET S |-> IF t = {} THEN 0
                            ELSE f[CHOOSE x \in t : TRUE] + h[t \ {CHOOSE x \in t : TRUE}]]

\* The sum of f over S.
Total(f, S) == (CHOOSE h : SumsUp(h, f, S))[S]

\* A nonempty collection of subsets of a finite set has a smallest one: what follows
\* looks at a smallest set that would be a counterexample.
LEMMA SmallestSet ==
    ASSUME NEW S, IsFiniteSet(S), NEW B \in SUBSET SUBSET S, B # {}
    PROVE  \E s \in B : \A t \in B : t \subseteq s => t = s
<1>1. IsWellFoundedOn(StrictSubsetOrdering(S), SUBSET S)
  BY FS_StrictSubsetOrderingWellFounded, FS_FiniteSubsetsOfFinite
<1> DEFINE R == StrictSubsetOrdering(S)
<1>2. \A s, t \in SUBSET S : s \subseteq t /\ s # t => <<s, t>> \in R
  BY DEF StrictSubsetOrdering
<1> HIDE DEF R
<1>3. PICK s \in B : \A t \in B : ~ (<<t, s>> \in R)
  BY <1>1, WFMin DEF R
<1>4. QED
  BY <1>2, <1>3

\* Two functions that add up f agree on what they add up.
LEMMA OneSum ==
    ASSUME NEW f, NEW S, IsFiniteSet(S), NEW T \in SUBSET S,
           NEW g, SumsUp(g, f, S), NEW h, SumsUp(h, f, T)
    PROVE  g[T] = h[T]
<1> DEFINE B == {t \in SUBSET T : g[t] # h[t]}
<1> SUFFICES ASSUME B # {} PROVE FALSE
  OBVIOUS
<1>1. IsFiniteSet(T)
  BY FS_Subset
<1>2. PICK s \in B : \A t \in B : t \subseteq s => t = s
  <2>1. B \in SUBSET SUBSET T
    OBVIOUS
  <2> HIDE DEF B
  <2>2. QED
    BY <1>1, <2>1, SmallestSet
<1>3. s \in SUBSET T /\ g[s] # h[s]
  OBVIOUS
<1>4. CASE s = {}
  BY <1>3, <1>4 DEF SumsUp
<1>5. CASE s # {}
  <2> DEFINE c == CHOOSE x \in s : TRUE
  <2>1. c \in s
    BY <1>5
  <2>2. g[s] = f[c] + g[s \ {c}]
    BY <1>3, <1>5 DEF SumsUp
  <2>3. h[s] = f[c] + h[s \ {c}]
    BY <1>3, <1>5 DEF SumsUp
  <2>4. s \ {c} \in SUBSET T /\ s \ {c} # s /\ s \ {c} \subseteq s
    BY <1>3, <2>1
  <2> HIDE DEF c
  <2>5. g[s \ {c}] = h[s \ {c}]
    BY <1>2, <2>4
  <2>6. QED
    BY <1>3, <2>2, <2>3, <2>5
<1>6. QED
  BY <1>4, <1>5

\* Any f can be added up over any finite set.
LEMMA SumExists ==
    ASSUME NEW f, NEW S, IsFiniteSet(S)
    PROVE  \E h : SumsUp(h, f, S)
<1> DEFINE B == {t \in SUBSET S : ~ \E h : SumsUp(h, f, t)}
           A(t) == CHOOSE h : SumsUp(h, f, t)
           C(t) == CHOOSE x \in t : TRUE
           V(t) == IF t = {} THEN 0 ELSE f[C(t)] + A(t \ {C(t)})[t \ {C(t)}]
<1> SUFFICES ASSUME B # {} PROVE FALSE
  OBVIOUS
<1>1. PICK s \in B : \A t \in B : t \subseteq s => t = s
  <2>1. B \in SUBSET SUBSET S
    OBVIOUS
  <2> HIDE DEF B
  <2>2. QED
    BY <2>1, SmallestSet
<1>2. s \in SUBSET S /\ ~ \E h : SumsUp(h, f, s)
  OBVIOUS
<1>3. ASSUME NEW t \in SUBSET s, t # s PROVE SumsUp(A(t), f, t)
  BY <1>1, <1>2, <1>3
<1>4. \A t : t # {} => C(t) \in t
  OBVIOUS
<1>5. ASSUME NEW t \in SUBSET s, t # s PROVE A(t)[t] = V(t)
  <2>1. SumsUp(A(t), f, t)
    BY <1>3, <1>5
  <2>2. A(t)[t] = IF t = {} THEN 0 ELSE f[C(t)] + A(t)[t \ {C(t)}]
    <3> HIDE DEF A
    <3>1. QED
      BY <2>1 DEF SumsUp
  <2>3. CASE t # {}
    <3>1. t \ {C(t)} \in SUBSET t /\ t \ {C(t)} \in SUBSET s /\ t \ {C(t)} # s
      BY <1>5
    <3>2. SumsUp(A(t \ {C(t)}), f, t \ {C(t)})
      BY <1>3, <3>1
    <3>3. IsFiniteSet(t)
      BY <1>2, FS_Subset
    <3> HIDE DEF A, C
    <3>4. A(t)[t \ {C(t)}] = A(t \ {C(t)})[t \ {C(t)}]
      BY <2>1, <3>1, <3>2, <3>3, OneSum
    <3>5. QED
      BY <2>2, <2>3, <3>4
  <2>4. QED
    BY <2>2, <2>3
<1> DEFINE h == [t \in SUBSET s |-> V(t)]
<1>6. ASSUME NEW t \in SUBSET s
      PROVE  V(t) = IF t = {} THEN 0 ELSE f[C(t)] + h[t \ {C(t)}]
  <2>1. CASE t # {}
    <3>1. t \ {C(t)} \in SUBSET s /\ t \ {C(t)} # s
      BY <1>4, <1>6, <2>1
    <3>2. A(t \ {C(t)})[t \ {C(t)}] = V(t \ {C(t)})
      BY <1>5, <3>1
    <3>3. h[t \ {C(t)}] = V(t \ {C(t)})
      BY <3>1
    <3>4. V(t) = f[C(t)] + A(t \ {C(t)})[t \ {C(t)}]
      BY <2>1
    <3> HIDE DEF A, C, V, h
    <3>5. QED
      BY <2>1, <3>2, <3>3, <3>4
  <2>2. QED
    BY <2>1
<1>7. SumsUp(h, f, s)
  <2>1. h = [t \in SUBSET s |-> IF t = {} THEN 0 ELSE f[C(t)] + h[t \ {C(t)}]]
    <3> HIDE DEF C, V
    <3>1. QED
      BY <1>6
  <2> HIDE DEF h
  <2>2. QED
    BY <2>1 DEF SumsUp
<1>8. QED
  BY <1>2, <1>7

\* The sum over a set is that of its chosen element and the rest.
LEMMA TotalSteps ==
    ASSUME NEW f, NEW S, IsFiniteSet(S)
    PROVE  /\ Total(f, {}) = 0
           /\ S # {} => LET c == CHOOSE x \in S : TRUE IN
                        Total(f, S) = f[c] + Total(f, S \ {c})
<1> DEFINE A(t) == CHOOSE h : SumsUp(h, f, t)
<1>1. ASSUME NEW t \in SUBSET S PROVE SumsUp(A(t), f, t) /\ Total(f, t) = A(t)[t]
  BY FS_Subset, SumExists DEF Total
<1>2. \A t \in SUBSET S : t = {} => Total(f, t) = 0
  <2> SUFFICES ASSUME NEW t \in SUBSET S, t = {} PROVE Total(f, t) = 0
    OBVIOUS
  <2>1. SumsUp(A(t), f, t) /\ Total(f, t) = A(t)[t]
    BY <1>1
  <2> HIDE DEF A
  <2>2. QED
    BY <2>1 DEF SumsUp
<1>3. ASSUME S # {} PROVE LET c == CHOOSE x \in S : TRUE IN
                        Total(f, S) = f[c] + Total(f, S \ {c})
  <2> DEFINE c == CHOOSE x \in S : TRUE
  <2>1. SumsUp(A(S), f, S) /\ Total(f, S) = A(S)[S]
    BY <1>1
  <2>2. SumsUp(A(S \ {c}), f, S \ {c}) /\ Total(f, S \ {c}) = A(S \ {c})[S \ {c}]
    BY <1>1
  <2> HIDE DEF A
  <2>3. A(S)[S] = f[c] + A(S)[S \ {c}]
    BY <1>3, <2>1 DEF SumsUp
  <2>4. A(S)[S \ {c}] = A(S \ {c})[S \ {c}]
    <3> HIDE DEF c
    <3>1. S \ {c} \in SUBSET S
      OBVIOUS
    <3>2. QED
      BY <2>1, <2>2, <3>1, OneSum
  <2>5. QED
    BY <2>1, <2>2, <2>3, <2>4
<1>4. QED
  BY <1>2, <1>3

\* It is that of any of its elements and the rest.
LEMMA TotalAdds ==
    ASSUME NEW S, IsFiniteSet(S), NEW f, \A x \in S : f[x] \in Int, NEW a \in S
    PROVE  /\ Total(f, S) \in Int
           /\ Total(f, S) = f[a] + Total(f, S \ {a})
<1> DEFINE B == {t \in SUBSET S : ~ (/\ Total(f, t) \in Int
                    /\ \A x \in t : Total(f, t) = f[x] + Total(f, t \ {x}))}
<1> SUFFICES ASSUME B # {} PROVE FALSE
  OBVIOUS
<1>1. PICK s \in B : \A t \in B : t \subseteq s => t = s
  <2>1. B \in SUBSET SUBSET S
    OBVIOUS
  <2> HIDE DEF B
  <2>2. QED
    BY <2>1, SmallestSet
<1>2. s \in SUBSET S /\ IsFiniteSet(s)
  BY FS_Subset
<1>3. ASSUME NEW t \in SUBSET s, t # s
      PROVE  /\ Total(f, t) \in Int
             /\ \A x \in t : Total(f, t) = f[x] + Total(f, t \ {x})
  BY <1>1, <1>2, <1>3
<1>4. CASE s = {}
  <2>1. Total(f, s) = 0
    BY <1>2, <1>4, TotalSteps
  <2>2. QED
    BY <1>4, <2>1
<1>5. CASE s # {}
  <2> DEFINE c == CHOOSE x \in s : TRUE
  <2>1. c \in s
    BY <1>5
  <2>2. Total(f, s) = f[c] + Total(f, s \ {c})
    BY <1>2, <1>5, TotalSteps
  <2> HIDE DEF c
  <2>3. Total(f, s \ {c}) \in Int /\ f[c] \in Int
    BY <1>2, <1>3, <2>1
  <2>4. Total(f, s) \in Int
    BY <2>2, <2>3
  <2>5. ASSUME NEW x \in s PROVE Total(f, s) = f[x] + Total(f, s \ {x})
    <3>1. CASE x = c
      BY <2>2, <3>1
    <3>2. CASE x # c
      <4>1. Total(f, s \ {c}) = f[x] + Total(f, (s \ {c}) \ {x})
        BY <1>3, <2>1, <3>2
      <4>2. Total(f, s \ {x}) = f[c] + Total(f, (s \ {x}) \ {c})
        BY <1>3, <2>1, <3>2
      <4>3. (s \ {x}) \ {c} = (s \ {c}) \ {x}
        OBVIOUS
      <4>4. Total(f, (s \ {c}) \ {x}) \in Int /\ f[x] \in Int
        <5>1. (s \ {c}) \ {x} \in SUBSET s /\ (s \ {c}) \ {x} # s
          BY <2>1
        <5>2. QED
          BY <1>2, <1>3, <5>1
      <4>5. Total(f, s \ {x}) = f[c] + Total(f, (s \ {c}) \ {x})
        BY <4>2, <4>3
      <4>6. QED
        BY ONLY <2>2, <2>3, <4>1, <4>4, <4>5
    <3>3. QED
      BY <3>1, <3>2
  <2>6. QED
    BY <1>1, <2>4, <2>5
<1>6. QED
  BY <1>4, <1>5

\* Only the values on the set matter.
LEMMA TotalLocal ==
    ASSUME NEW S, IsFiniteSet(S), NEW f, NEW g, \A x \in S : f[x] = g[x]
    PROVE  Total(f, S) = Total(g, S)
<1> DEFINE B == {t \in SUBSET S : Total(f, t) # Total(g, t)}
<1> SUFFICES ASSUME B # {} PROVE FALSE
  OBVIOUS
<1>1. PICK s \in B : \A t \in B : t \subseteq s => t = s
  <2>1. B \in SUBSET SUBSET S
    OBVIOUS
  <2> HIDE DEF B
  <2>2. QED
    BY <2>1, SmallestSet
<1>2. s \in SUBSET S /\ IsFiniteSet(s) /\ Total(f, s) # Total(g, s)
  BY FS_Subset
<1>3. CASE s = {}
  BY <1>2, <1>3, TotalSteps
<1>4. CASE s # {}
  <2> DEFINE c == CHOOSE x \in s : TRUE
  <2>1. c \in s
    BY <1>4
  <2>2. Total(f, s) = f[c] + Total(f, s \ {c}) /\ Total(g, s) = g[c] + Total(g, s \ {c})
    BY <1>2, <1>4, TotalSteps
  <2> HIDE DEF c
  <2>3. Total(f, s \ {c}) = Total(g, s \ {c})
    BY <1>1, <1>2, <2>1
  <2>4. QED
    BY <1>2, <2>1, <2>2, <2>3
<1>5. QED
  BY <1>3, <1>4

-----------------------------------------------------------------------------
(* Every settled match counts once *)

\* What user u gains in each match, when ev are the winners the matches are settled for.
GainsOf(u, ev) == [m \in Matches |-> Delta(u, [match |-> m, winner |-> ev[m]])]

\* Gained is the sum of that function over the user's settled matches.
LEMMA GainedTotal ==
    ASSUME NEW u \in Users, NEW ev
    PROVE  Gained(u, ev) = Total(GainsOf(u, ev), SettledMatches(u, ev))
<1> DEFINE S == SettledMatches(u, ev)
           Gain(m) == Delta(u, [match |-> m, winner |-> ev[m]])
           c(t) == CHOOSE x \in t : TRUE
           it == CHOOSE it : it = [t \in SUBSET S |-> IF t = {} THEN 0
                     ELSE Gain(CHOOSE x \in t : TRUE) + it[t \ {CHOOSE x \in t : TRUE}]]
<1>1. IsFiniteSet(S)
  BY SettlementAssumption, FS_Subset DEF SettledMatches
<1>2. Gained(u, ev) = it[S]
  BY DEF Gained, MapThenSumSet, MapThenFoldSet
<1>3. ASSUME NEW h
      PROVE  SumsUp(h, GainsOf(u, ev), S) <=>
             h = [t \in SUBSET S |-> IF t = {} THEN 0
                     ELSE Gain(CHOOSE x \in t : TRUE) + h[t \ {CHOOSE x \in t : TRUE}]]
  <2>1. \A t \in SUBSET S : t # {} => GainsOf(u, ev)[c(t)] = Gain(c(t))
    <3>1. \A t \in SUBSET S : t # {} => c(t) \in Matches
      BY DEF SettledMatches
    <3> HIDE DEF c
    <3>2. QED
      BY <3>1 DEF GainsOf
  <2>2. ASSUME NEW t \in SUBSET S
        PROVE  (IF t = {} THEN 0 ELSE GainsOf(u, ev)[c(t)] + h[t \ {c(t)}])
               = (IF t = {} THEN 0 ELSE Gain(c(t)) + h[t \ {c(t)}])
    <3> HIDE DEF Gain
    <3>1. QED
      BY <2>1
  <2> HIDE DEF Gain
  <2>3. [t \in SUBSET S |-> IF t = {} THEN 0 ELSE GainsOf(u, ev)[c(t)] + h[t \ {c(t)}]]
        = [t \in SUBSET S |-> IF t = {} THEN 0 ELSE Gain(c(t)) + h[t \ {c(t)}]]
    BY <2>2
  <2>4. QED
    BY <2>3 DEF SumsUp
<1>4. SumsUp(it, GainsOf(u, ev), S)
  <2> HIDE DEF Gain, S, c
  <2>1. \E h : h = [t \in SUBSET S |-> IF t = {} THEN 0
                     ELSE Gain(CHOOSE x \in t : TRUE) + h[t \ {CHOOSE x \in t : TRUE}]]
    <3>1. PICK h : SumsUp(h, GainsOf(u, ev), S)
      BY <1>1, SumExists
    <3>2. h = [t \in SUBSET S |-> IF t = {} THEN 0
                     ELSE Gain(CHOOSE x \in t : TRUE) + h[t \ {CHOOSE x \in t : TRUE}]]
      BY <1>3, <3>1
    <3>3. QED
      BY <3>2
  <2>2. it = [t \in SUBSET S |-> IF t = {} THEN 0
                     ELSE Gain(CHOOSE x \in t : TRUE) + it[t \ {CHOOSE x \in t : TRUE}]]
    BY <2>1, Zenon
  <2> HIDE DEF it
  <2>3. QED
    BY <1>3, <2>2, Zenon
<1>5. SumsUp(CHOOSE h : SumsUp(h, GainsOf(u, ev), S), GainsOf(u, ev), S)
  BY <1>1, SumExists
<1>6. it[S] = Total(GainsOf(u, ev), S)
  <2> HIDE DEF it
  <2>1. QED
    BY <1>1, <1>4, <1>5, OneSum DEF Total
<1>7. QED
  BY <1>2, <1>6

\* A commit adds one match to what counts for each of its players, and its gain to
\* their ratings; it leaves the gains of the other matches alone.
LEMMA SettledStep ==
    ASSUME RankInv, SettledOnce, [Next]_vars
    PROVE  SettledOnce'
<1>1. CASE UNCHANGED <<events, rating>>
  <2>1. \A u \in Users : SettledMatches(u, events') = SettledMatches(u, events)
    BY <1>1 DEF SettledMatches
  <2>2. \A u \in Users : Gained(u, events') = Gained(u, events)
    BY <1>1, <2>1, GainedTotal
  <2>3. QED
    BY <1>1, <2>1, <2>2 DEF SettledOnce
<1>2. ASSUME NEW w \in Workers, CommitEvent(w) PROVE SettledOnce'
  <2> DEFINE m == wmsg[w].match
             e == wmsg[w]
  <2>1. /\ e \in Results /\ events[m] = NoTeam
        /\ events' = [events EXCEPT ![m] = e.winner]
        /\ m \in Matches /\ e.winner \in Winners /\ e.winner # NoTeam
        /\ e = [match |-> m, winner |-> e.winner]
        /\ rating' = [u \in Users |->
                    IF u \notin Players(m) THEN rating[u]
                    ELSE IF rating[u] = NoRank THEN 1000 + Delta(u, e)
                    ELSE rating[u] + Delta(u, e)]
        /\ events \in [Matches -> Winners \union {NoTeam}]
    BY <1>2, CommitSettles, ResultFacts DEF CommitEvent, RankInv, TypeOK
  <2> HIDE DEF e, m
  <2> SUFFICES ASSUME NEW u \in Users
               PROVE  IF SettledMatches(u, events') = {} THEN rating'[u] = NoRank
                      ELSE rating'[u] = 1000 + Total(GainsOf(u, events'), SettledMatches(u, events'))
    BY GainedTotal DEF SettledOnce
  <2> DEFINE Sum == Total(GainsOf(u, events), SettledMatches(u, events))
  <2>0. rating[u] = IF SettledMatches(u, events) = {} THEN NoRank ELSE 1000 + Sum
    BY GainedTotal DEF SettledOnce
  <2>2. /\ IsFiniteSet(SettledMatches(u, events)) /\ IsFiniteSet(SettledMatches(u, events'))
    BY SettlementAssumption, FS_Subset DEF SettledMatches
  <2>3. \A k \in Matches : k # m => GainsOf(u, events')[k] = GainsOf(u, events)[k]
    BY <2>1 DEF GainsOf
  <2>4. Total(GainsOf(u, events'), SettledMatches(u, events)) = Total(GainsOf(u, events), SettledMatches(u, events))
    BY <2>1, <2>2, <2>3, TotalLocal DEF SettledMatches
  <2>5. CASE u \notin Players(m)
    <3>1. SettledMatches(u, events') = SettledMatches(u, events) /\ rating'[u] = rating[u]
      BY <2>1, <2>5 DEF SettledMatches
    <3>2. QED
      BY <2>0, <2>4, <3>1
  <2>6. CASE u \in Players(m)
    <3>1. /\ SettledMatches(u, events') = SettledMatches(u, events) \union {m}
          /\ m \notin SettledMatches(u, events)
      BY <2>1, <2>6 DEF SettledMatches
    <3>2. GainsOf(u, events')[m] = Delta(u, e)
      BY <2>1 DEF GainsOf
    <3>3. \A k \in Matches : GainsOf(u, events')[k] \in Int /\ GainsOf(u, events)[k] \in Int
      BY DEF GainsOf, Delta
    <3>4. /\ Total(GainsOf(u, events'), SettledMatches(u, events'))
               = GainsOf(u, events')[m] + Total(GainsOf(u, events'), SettledMatches(u, events') \ {m})
      BY <2>2, <3>1, <3>3, TotalAdds DEF SettledMatches
    <3>5. SettledMatches(u, events') \ {m} = SettledMatches(u, events)
      BY <3>1
    <3>6. Total(GainsOf(u, events'), SettledMatches(u, events'))
               = Delta(u, e) + Total(GainsOf(u, events), SettledMatches(u, events))
      BY <2>4, <3>2, <3>4, <3>5
    <3>7. Delta(u, e) \in Int
      BY DEF Delta
    <3>8. SettledMatches(u, events') # {}
      BY <3>1
    <3>9. CASE SettledMatches(u, events) = {}
      <4>1. Total(GainsOf(u, events), SettledMatches(u, events)) = 0
        BY <2>2, <3>9, TotalSteps
      <4>2. rating[u] = NoRank
        BY <2>0, <3>9
      <4>3. rating'[u] = 1000 + Delta(u, e)
        BY <2>1, <2>6, <4>2
      <4>4. QED
        BY <3>6, <3>7, <3>8, <4>1, <4>3
    <3>10. CASE SettledMatches(u, events) # {}
      <4>1. rating[u] = 1000 + Total(GainsOf(u, events), SettledMatches(u, events))
        BY <2>0, <3>10
      <4>2. Total(GainsOf(u, events), SettledMatches(u, events)) \in Int
        <5>1. PICK k : k \in SettledMatches(u, events)
          BY <3>10
        <5>2. QED
          BY <2>2, <3>3, <5>1, TotalAdds DEF SettledMatches
      <4>3. rating[u] # NoRank
        BY <4>1, <4>2, NullAssumption
      <4>4. rating'[u] = rating[u] + Delta(u, e)
        BY <2>1, <2>6, <4>3
      <4>5. QED
        BY <3>6, <3>7, <3>8, <4>1, <4>2, <4>4
    <3>11. QED
      BY <3>9, <3>10
  <2>7. QED
    BY <2>5, <2>6
<1>3. QED
  BY <1>1, <1>2, StepSettles

\* A player's rating is 1000 points and what the settled matches gained the player, each
\* counted once: no event delivered, settled or committed again moves it twice.
THEOREM EveryMatchCountsOnce == Spec => []SettledOnce
<1>1. Init => SettledOnce
  BY DEF Init, SettledOnce, SettledMatches
<1>2. QED
  BY <1>1, RankInvariant, SettledStep, PTL DEF Spec

-----------------------------------------------------------------------------
(* The winner of a match *)

\* A sum of naturals is positive exactly if one of them is.
LEMMA TotalPositive ==
    ASSUME NEW S, IsFiniteSet(S), NEW f, \A x \in S : f[x] \in Nat
    PROVE  /\ Total(f, S) \in Nat
           /\ Total(f, S) > 0 <=> \E x \in S : f[x] > 0
<1> DEFINE Right(t) == /\ Total(f, t) \in Nat
                       /\ Total(f, t) > 0 <=> \E x \in t : f[x] > 0
           B == {t \in SUBSET S : ~ Right(t)}
<1> SUFFICES ASSUME B # {} PROVE FALSE
  OBVIOUS
<1>1. PICK s \in B : \A t \in B : t \subseteq s => t = s
  <2>1. B \in SUBSET SUBSET S
    OBVIOUS
  <2> HIDE DEF B
  <2>2. QED
    BY <2>1, SmallestSet
<1>2. s \in SUBSET S /\ IsFiniteSet(s) /\ ~ Right(s)
  BY FS_Subset
<1>3. CASE s = {}
  <2>1. Total(f, s) = 0
    BY <1>2, <1>3, TotalSteps
  <2>2. QED
    BY <1>2, <1>3, <2>1
<1>4. CASE s # {}
  <2>1. PICK c \in s : TRUE
    BY <1>4
  <2>2. Total(f, s) = f[c] + Total(f, s \ {c})
    <3>1. \A x \in s : f[x] \in Int
      BY <1>2
    <3>2. QED
      BY <1>2, <3>1, TotalAdds
  <2>3. Right(s \ {c})
    <3>1. s \ {c} \in SUBSET S /\ s \ {c} \subseteq s /\ s \ {c} # s
      BY <1>2
    <3> HIDE DEF Right
    <3>2. QED
      BY <1>1, <3>1
  <2>4. f[c] \in Nat /\ Total(f, s \ {c}) \in Nat
    BY <1>2, <2>3
  <2>5. Total(f, s) \in Nat
    BY <2>2, <2>4
  <2>6. Total(f, s) > 0 <=> f[c] > 0 \/ Total(f, s \ {c}) > 0
    BY <2>2, <2>4
  <2>7. (\E x \in s : f[x] > 0) <=> f[c] > 0 \/ \E x \in s \ {c} : f[x] > 0
    BY <2>1
  <2>8. Right(s)
    BY <2>3, <2>5, <2>6, <2>7
  <2>9. QED
    BY <1>2, <2>8
<1>5. QED
  BY <1>3, <1>4

\* A set of naturals that is not empty has a least element.
LEMMA LeastNat ==
    ASSUME NEW T \in SUBSET Nat, T # {}
    PROVE  \E n \in T : \A m \in T : n <= m
<1> DEFINE R == OpToRel(<, Nat)
<1>1. \A m, n \in Nat : m < n => <<m, n>> \in R
  BY DEF OpToRel
<1>2. IsWellFoundedOn(R, Nat)
  BY NatLessThanWellFounded
<1> HIDE DEF R
<1>3. PICK n \in T : \A m \in T : ~ (<<m, n>> \in R)
  BY <1>2, WFMin
<1>4. ASSUME NEW m \in T PROVE n <= m
  <2>1. m \in Nat /\ n \in Nat /\ ~ (m < n)
    BY <1>1, <1>3
  <2>2. QED
    BY <2>1
<1>5. QED
  BY <1>4

\* The scores of all users, by user.
ScoresOf == [u \in Listed |-> player[u].score]

\* The score of a team adds up those of its users.
LEMMA TeamScoreTotal ==
    ASSUME NEW t \in Teams
    PROVE  TeamScore(t) = Total(ScoresOf, Members[t])
<1> DEFINE S == Members[t]
           c(s) == CHOOSE x \in s : TRUE
           it == CHOOSE it : it = [s \in SUBSET S |-> IF s = {} THEN 0
                     ELSE player[CHOOSE x \in s : TRUE].score + it[s \ {CHOOSE x \in s : TRUE}]]
<1>1. IsFiniteSet(S) /\ S \subseteq Listed
  BY TeamAssumption DEF Listed
<1>2. TeamScore(t) = it[S]
  BY DEF TeamScore, MapThenSumSet, MapThenFoldSet
<1>3. ASSUME NEW h
      PROVE  SumsUp(h, ScoresOf, S) <=>
             h = [s \in SUBSET S |-> IF s = {} THEN 0
                     ELSE player[CHOOSE x \in s : TRUE].score + h[s \ {CHOOSE x \in s : TRUE}]]
  <2>1. \A s \in SUBSET S : s # {} => ScoresOf[c(s)] = player[c(s)].score
    <3>1. \A s \in SUBSET S : s # {} => c(s) \in Listed
      BY <1>1
    <3> HIDE DEF c
    <3>2. QED
      BY <3>1 DEF ScoresOf
  <2>2. ASSUME NEW s \in SUBSET S
        PROVE  (IF s = {} THEN 0 ELSE ScoresOf[c(s)] + h[s \ {c(s)}])
               = (IF s = {} THEN 0 ELSE player[c(s)].score + h[s \ {c(s)}])
    <3> HIDE DEF c
    <3>1. QED
      BY <2>1
  <2>3. [s \in SUBSET S |-> IF s = {} THEN 0 ELSE ScoresOf[c(s)] + h[s \ {c(s)}]]
        = [s \in SUBSET S |-> IF s = {} THEN 0 ELSE player[c(s)].score + h[s \ {c(s)}]]
    BY <2>2
  <2>4. QED
    BY <2>3 DEF SumsUp
<1>4. SumsUp(it, ScoresOf, S)
  <2> HIDE DEF S, c
  <2>1. \E h : h = [s \in SUBSET S |-> IF s = {} THEN 0
                     ELSE player[CHOOSE x \in s : TRUE].score + h[s \ {CHOOSE x \in s : TRUE}]]
    <3>1. PICK h : SumsUp(h, ScoresOf, S)
      BY <1>1, SumExists
    <3>2. h = [s \in SUBSET S |-> IF s = {} THEN 0
                     ELSE player[CHOOSE x \in s : TRUE].score + h[s \ {CHOOSE x \in s : TRUE}]]
      BY <1>3, <3>1
    <3>3. QED
      BY <3>2
  <2>2. it = [s \in SUBSET S |-> IF s = {} THEN 0
                     ELSE player[CHOOSE x \in s : TRUE].score + it[s \ {CHOOSE x \in s : TRUE}]]
    BY <2>1, Zenon
  <2> HIDE DEF it
  <2>3. QED
    BY <1>3, <2>2, Zenon
<1>5. SumsUp(CHOOSE h : SumsUp(h, ScoresOf, S), ScoresOf, S)
  BY <1>1, SumExists
<1>6. it[S] = Total(ScoresOf, S)
  <2> DEFINE h == CHOOSE h : SumsUp(h, ScoresOf, S)
  <2>1. Total(ScoresOf, S) = h[S] /\ SumsUp(h, ScoresOf, S) /\ S \in SUBSET S
    BY <1>5 DEF Total
  <2> HIDE DEF it, h, S
  <2>2. QED
    BY <1>1, <1>4, <2>1, OneSum
<1>7. QED
  BY <1>2, <1>6

\* Scores and times are naturals, and a team has a time exactly if it has scored.
LEMMA TeamFacts ==
    ASSUME WinnerTypeOK, NEW t \in Teams
    PROVE  /\ TeamScore(t) \in Nat /\ TeamLast(t) \in Nat
           /\ TeamScore(t) > 0 <=> TeamLast(t) > 0
<1> DEFINE times == {player[u].last : u \in Members[t]} \ {0}
<1>1. /\ IsFiniteSet(Members[t])
      /\ \A u \in Members[t] :
            /\ u \in Listed /\ player[u].score \in Nat /\ player[u].last \in Nat
            /\ ScoresOf[u] = player[u].score
            /\ player[u].score > 0 <=> player[u].last > 0
  BY TeamAssumption, ScoreAssumption DEF WinnerTypeOK, Listed, ScoresOf
<1>2. /\ TeamScore(t) \in Nat
      /\ TeamScore(t) > 0 <=> \E u \in Members[t] : player[u].score > 0
  <2>1. \A u \in Members[t] : ScoresOf[u] \in Nat
    BY <1>1
  <2>2. /\ Total(ScoresOf, Members[t]) \in Nat
        /\ Total(ScoresOf, Members[t]) > 0 <=> \E u \in Members[t] : ScoresOf[u] > 0
    BY <1>1, <2>1, TotalPositive
  <2>3. TeamScore(t) = Total(ScoresOf, Members[t])
    BY TeamScoreTotal
  <2>4. QED
    BY <1>1, <2>2, <2>3
<1>3. TeamLast(t) = IF times = {} THEN 0 ELSE Min(times)
  BY DEF TeamLast
<1>4. times \in SUBSET Nat /\ 0 \notin times
  BY <1>1
<1>5. times # {} <=> \E u \in Members[t] : player[u].last > 0
  BY <1>1
<1> HIDE DEF times
<1>6. times # {} => Min(times) \in times
  BY <1>4, LeastNat DEF Min
<1>7. CASE times = {}
  BY <1>1, <1>2, <1>3, <1>5, <1>7
<1>8. CASE times # {}
  <2>1. TeamLast(t) \in Nat /\ TeamLast(t) # 0
    BY <1>3, <1>4, <1>6, <1>8
  <2>2. TeamScore(t) > 0
    BY <1>1, <1>2, <1>5, <1>8
  <2>3. QED
    BY <1>2, <2>1, <2>2
<1>9. QED
  BY <1>7, <1>8

\* Of the teams that the loop has seen, it keeps the one that beats all others.
BestInv ==
    /\ WinnerTypeOK
    /\ winner = 0 => unseen = Teams
    /\ winner # 0 =>
        /\ winner \in Teams \ unseen
        /\ winnerScore = TeamScore(winner) /\ winnerLast = TeamLast(winner)
        /\ \A t \in (Teams \ unseen) \ {winner} : Beats(winner, t)

\* The order that is meant is total and transitive: of equal scores the earlier
\* time, of equal times the smaller team comes first.
LEMMA BeatsFacts ==
    ASSUME WinnerTypeOK, NEW r \in Teams, NEW s \in Teams, NEW t \in Teams
    PROVE  /\ Beats(r, s) /\ Beats(s, t) => Beats(r, t)
           /\ Beats(s, t) \/ Beats(t, s) \/ s = t
<1>1. /\ TeamScore(r) \in Nat /\ TeamScore(s) \in Nat /\ TeamScore(t) \in Nat
      /\ TeamLast(r) \in Nat /\ TeamLast(s) \in Nat /\ TeamLast(t) \in Nat
      /\ r \in Nat /\ s \in Nat /\ t \in Nat
  BY TeamFacts, TeamAssumption
<1>2. QED
  BY <1>1 DEF Beats

\* The condition of the loop is the order that is meant.
LEMMA BetterBeats ==
    ASSUME BestInv, winner # 0, NEW t \in unseen
    PROVE  Better(t) <=> Beats(t, winner)
<1>1. /\ winner \in Nat /\ t \in Nat /\ winner \in Teams /\ t \in Teams
      /\ TeamScore(t) \in Nat /\ TeamLast(t) \in Nat /\ (TeamScore(t) > 0 <=> TeamLast(t) > 0)
      /\ winnerScore = TeamScore(winner) /\ winnerLast = TeamLast(winner)
      /\ TeamScore(winner) \in Nat /\ TeamLast(winner) \in Nat
      /\ TeamScore(winner) > 0 <=> TeamLast(winner) > 0
  BY TeamFacts, TeamAssumption DEF BestInv, WinnerTypeOK
<1>2. QED
  BY <1>1 DEF Better, Beats

\* A visit takes the team if it beats the best one so far, and then it beats all seen.
LEMMA NextBest == BestInv /\ [WinnerNext]_winnerVars => BestInv'
<1> SUFFICES ASSUME BestInv, [WinnerNext]_winnerVars PROVE BestInv'
  OBVIOUS
<1>1. player' = player
  BY DEF WinnerNext, Visit, winnerVars
<1>2. \A t : TeamScore(t)' = TeamScore(t) /\ TeamLast(t)' = TeamLast(t)
  <2>1. ASSUME NEW t PROVE TeamScore(t)' = TeamScore(t)
    BY <1>1, Zenon DEF TeamScore, MapThenSumSet, MapThenFoldSet
  <2>2. ASSUME NEW t PROVE TeamLast(t)' = TeamLast(t)
    BY <1>1 DEF TeamLast
  <2>3. QED
    BY <2>1, <2>2
<1>3. CASE UNCHANGED winnerVars
  <2>1. UNCHANGED <<player, unseen, winner, winnerScore, winnerLast>>
    BY <1>3 DEF winnerVars
  <2>2. \A s, t : Beats(s, t)' <=> Beats(s, t)
    BY <1>2 DEF Beats
  <2>3. QED
    BY <1>2, <2>1, <2>2 DEF BestInv, WinnerTypeOK
<1>4. ASSUME NEW v \in unseen, Visit(v) PROVE BestInv'
  <2>1. /\ v \in Teams /\ v # 0 /\ unseen' = unseen \ {v}
        /\ Teams \ unseen' = (Teams \ unseen) \union {v}
    BY <1>4, TeamAssumption DEF Visit, BestInv, WinnerTypeOK
  <2>2. \A s, t : Beats(s, t)' <=> Beats(s, t)
    BY <1>2 DEF Beats
  <2>3. CASE Better(v)
    <3>1. winner' = v /\ winnerScore' = TeamScore(v) /\ winnerLast' = TeamLast(v)
      BY <1>4, <2>3 DEF Visit
    <3>2. WinnerTypeOK'
      BY <1>1, <2>1, <3>1, TeamFacts DEF BestInv, WinnerTypeOK
    <3>3. ASSUME NEW t \in Teams \ unseen PROVE Beats(v, t)
      <4>1. winner # 0 /\ winner \in Teams /\ Beats(v, winner)
        BY <2>1, <2>3, <3>3, BetterBeats DEF BestInv
      <4>2. t = winner \/ Beats(winner, t)
        BY <3>3, <4>1 DEF BestInv
      <4>3. QED
        BY <2>1, <3>3, <4>1, <4>2, BeatsFacts DEF BestInv
    <3>4. QED
      BY <1>2, <2>1, <2>2, <3>1, <3>2, <3>3 DEF BestInv
  <2>4. CASE ~Better(v)
    <3>1. UNCHANGED <<winner, winnerScore, winnerLast>> /\ winner # 0
      BY <1>4, <2>4 DEF Visit, Better
    <3>2. winner \in Teams \ unseen /\ Beats(winner, v)
      BY <2>1, <2>4, <3>1, BetterBeats, BeatsFacts DEF BestInv
    <3>3. WinnerTypeOK'
      BY <1>1, <2>1, <3>1 DEF BestInv, WinnerTypeOK
    <3>4. QED
      BY <1>2, <2>1, <2>2, <3>1, <3>2, <3>3 DEF BestInv
  <2>5. QED
    BY <2>3, <2>4
<1>5. QED
  BY <1>3, <1>4 DEF WinnerNext

\* WinnerExact: in whatever order the map yields the teams, the winner of
\* scoreWinnerTeam is the one that beats all others, for any teams and scores.
THEOREM TheWinnerIsExact ==
    WinnerInit /\ [][WinnerNext]_winnerVars => []WinnerExact
<1>1. WinnerInit => BestInv
  BY TeamAssumption DEF WinnerInit, BestInv, WinnerTypeOK
<1>2. BestInv => WinnerExact
  BY TeamAssumption DEF BestInv, WinnerExact
<1>3. QED
  BY <1>1, <1>2, NextBest, PTL

=============================================================================
