--------------------------- MODULE RankSettlement ---------------------------
(***************************************************************************)
(* How the result of a match becomes rating and leaderboard:               *)
(* MatchService.SetMatchResult writes the match's row and publishes an     *)
(* event (internal/service/match_service.go, internal/mq/publisher.go);    *)
(* the rank worker (cmd/worker/main.go) takes events from RabbitMQ and     *)
(* settles them with RankService.SettleMatchResult                         *)
(* (internal/service/rank_service.go, internal/repository/                 *)
(* rank_repository.go, sql/002_create_rank_table.sql).                     *)
(*                                                                         *)
(* SetMatchResult may be called several times for a match, by POST         *)
(* /match/result and by finishMatch, each time with another winner.  The   *)
(* broker delivers an event again until it is acknowledged, in no fixed    *)
(* order: the worker sets no prefetch limit, so a requeued event follows   *)
(* those already sent to it.  MySQL isolates the transactions: what one    *)
(* writes is seen when it commits, and an insert of a unique key waits for *)
(* the transaction that inserted it first.                                 *)
(***************************************************************************)
EXTENDS Integers, FiniteSets, FiniteSetsExt

CONSTANTS
    Matches, Users, Workers,
    Winners,      \* the win_team_no values that results are submitted with
    TeamOf,       \* the team of each user in each match, or NoTeam
    Faults,       \* external calls may fail, and a worker may stop
    MaxSubmits,   \* bound on the calls of SetMatchResult for each match
    NoTeam, NoMatch, NoUser, NoRank

ASSUME SettlementAssumption ==
    /\ TeamOf \in [Matches -> [Users -> Int \union {NoTeam}]]
    /\ Winners \subseteq Int
    /\ Faults \in BOOLEAN
    /\ MaxSubmits \in [Matches -> Nat]
    /\ IsFiniteSet(Matches)

ASSUME NullAssumption ==
    NoTeam \notin Int /\ NoRank \notin Int /\ NoMatch \notin Matches /\ NoUser \notin Users

Players(m) == {u \in Users : TeamOf[m][u] # NoTeam}

VARIABLES
    row,        \* MySQL: win_team_no of each match
    submits,    \* how many calls of SetMatchResult each match has seen
    calls,      \* how many calls with each result wrote the row, not the event
    queue,      \* RabbitMQ: how many events of each result wait for delivery
    published,  \* the matches with an event the broker has accepted
    events,     \* MySQL: gl_rank_event, as the winner each match is settled for
    rating,     \* MySQL: score in gl_player_rank
    leaderboard,\* Redis: the score of each user
    wpc, wmsg,  \* each worker: control, the event it holds
    wtodo, wuser, wread, \* each worker: players to sync, the one at hand, its score
    smooth      \* so far no settlement failed and no two went on at once

callVars   == <<row, submits, calls>>
brokerVars == <<queue, published>>
rankVars   == <<events, rating, leaderboard>>
workerVars == <<wpc, wmsg, wtodo, wuser, wread>>
vars == <<callVars, brokerVars, rankVars, workerVars, smooth>>

-----------------------------------------------------------------------------
(* Types *)

Results == [match : Matches, winner : Winners]
NoEvent == [match |-> NoMatch, winner |-> NoTeam]

WorkerControl == {"idle", "taken", "open", "sync", "write", "ack"}

\* The shape of every variable.
TypeOK ==
    /\ row \in [Matches -> Winners \union {NoTeam}]
    /\ submits \in [Matches -> Nat] /\ \A m \in Matches : submits[m] <= MaxSubmits[m]
    /\ calls \in [Results -> Nat]
    /\ queue \in [Results -> Nat]
    /\ published \subseteq Matches
    /\ events \in [Matches -> Winners \union {NoTeam}]
    /\ rating \in [Users -> Int \union {NoRank}]
    /\ leaderboard \in [Users -> Int \union {NoRank}]
    /\ wpc \in [Workers -> WorkerControl]
    /\ wmsg \in [Workers -> Results \union {NoEvent}]
    /\ wtodo \in [Workers -> SUBSET Users]
    /\ wuser \in [Workers -> Users \union {NoUser}]
    /\ wread \in [Workers -> Int \union {NoRank}]
    /\ smooth \in BOOLEAN

Init ==
    /\ row = [m \in Matches |-> NoTeam]
    /\ submits = [m \in Matches |-> 0]
    /\ calls = [e \in Results |-> 0]
    /\ queue = [e \in Results |-> 0]
    /\ published = {}
    /\ events = [m \in Matches |-> NoTeam]
    /\ rating = [u \in Users |-> NoRank]
    /\ leaderboard = [u \in Users |-> NoRank]
    /\ wpc = [w \in Workers |-> "idle"]
    /\ wmsg = [w \in Workers |-> NoEvent]
    /\ wtodo = [w \in Workers |-> {}]
    /\ wuser = [w \in Workers |-> NoUser]
    /\ wread = [w \in Workers |-> NoRank]
    /\ smooth = TRUE

-----------------------------------------------------------------------------
(* SetMatchResult *)

\* The match is read and its row rewritten with the winner of this call.
Submit(e) ==
    /\ submits[e.match] < MaxSubmits[e.match]
    /\ submits' = [submits EXCEPT ![e.match] = @ + 1]
    /\ row' = [row EXCEPT ![e.match] = e.winner]
    /\ calls' = [calls EXCEPT ![e] = @ + 1]
    /\ UNCHANGED <<brokerVars, rankVars, workerVars, smooth>>

\* The event "evt_<match>" is published, and the call returns.
Publish(e) ==
    /\ calls[e] > 0
    /\ calls' = [calls EXCEPT ![e] = @ - 1]
    /\ queue' = [queue EXCEPT ![e] = @ + 1]
    /\ published' = published \union {e.match}
    /\ UNCHANGED <<row, submits, rankVars, workerVars, smooth>>

\* Publishing fails, or the process stops: the row keeps the result.
PublishFails(e) ==
    /\ Faults
    /\ calls[e] > 0
    /\ calls' = [calls EXCEPT ![e] = @ - 1]
    /\ UNCHANGED <<row, submits, brokerVars, rankVars, workerVars, smooth>>

-----------------------------------------------------------------------------
(* The worker: one event at a time *)

GotoW(w, pc) == wpc' = [wpc EXCEPT ![w] = pc]

ForgetEvent(w) ==
    /\ GotoW(w, "idle")
    /\ wmsg' = [wmsg EXCEPT ![w] = NoEvent]
    /\ wtodo' = [wtodo EXCEPT ![w] = {}]
    /\ wuser' = [wuser EXCEPT ![w] = NoUser]
    /\ wread' = [wread EXCEPT ![w] = NoRank]

\* The broker delivers an event; GetMatchPlayers reads the players, which
\* never change.
Take(w) ==
    /\ wpc[w] = "idle"
    /\ \E e \in Results :
        /\ queue[e] > 0
        /\ queue' = [queue EXCEPT ![e] = @ - 1]
        /\ wmsg' = [wmsg EXCEPT ![w] = e]
    /\ GotoW(w, "taken")
    /\ smooth' = (smooth /\ \A v \in Workers : wpc[v] = "idle")
    /\ UNCHANGED <<callVars, published, rankVars, wtodo, wuser, wread>>

\* No other transaction holds the unique key of the match's event.
KeyFree(m) == \A v \in Workers : wpc[v] = "open" => wmsg[v].match # m

\* Fault: a duplicate key error does not stop the transaction.
AddEventAlways(w) ==
    /\ wpc[w] = "taken"
    /\ KeyFree(wmsg[w].match)
    /\ GotoW(w, "open")
    /\ UNCHANGED <<callVars, brokerVars, rankVars, wmsg, wtodo, wuser, wread, smooth>>

\* BeginTx and AddRankEvent: an event of a match already settled is a
\* duplicate and is acknowledged.
AddEvent(w) ==
    /\ wpc[w] = "taken"
    /\ KeyFree(wmsg[w].match)
    /\ GotoW(w, IF events[wmsg[w].match] = NoTeam THEN "open" ELSE "ack")
    /\ UNCHANGED <<callVars, brokerVars, rankVars, wmsg, wtodo, wuser, wread, smooth>>

Delta(u, e) == IF TeamOf[e.match][u] = e.winner THEN 100 ELSE -60

\* The transaction commits: the event, and UpdatePlayerRank of every player.
CommitEvent(w) ==
    LET e == wmsg[w] IN
    /\ wpc[w] = "open"
    /\ events' = [events EXCEPT ![e.match] = e.winner]
    /\ rating' = [u \in Users |->
                    IF u \notin Players(e.match) THEN rating[u]
                    ELSE IF rating[u] = NoRank THEN 1000 + Delta(u, e)
                    ELSE rating[u] + Delta(u, e)]
    /\ UNCHANGED leaderboard

Commit(w) ==
    /\ CommitEvent(w)
    /\ GotoW(w, "sync")
    /\ wtodo' = [wtodo EXCEPT ![w] = Players(wmsg[w].match)]
    /\ UNCHANGED <<callVars, brokerVars, wmsg, wuser, wread, smooth>>

\* After the commit, GetPlayerRank of the next player.
ReadRank(w) ==
    /\ wpc[w] = "sync"
    /\ \E u \in wtodo[w] :
        /\ wuser' = [wuser EXCEPT ![w] = u]
        /\ wread' = [wread EXCEPT ![w] = rating[u]]
        /\ wtodo' = [wtodo EXCEPT ![w] = @ \ {u}]
    /\ GotoW(w, "write")
    /\ UNCHANGED <<callVars, brokerVars, rankVars, wmsg, smooth>>

\* Fault: only the last player of the match is put on the leaderboard.
WriteLast(w) ==
    /\ wpc[w] = "write"
    /\ leaderboard' = IF wtodo[w] # {} THEN leaderboard
                      ELSE [leaderboard EXCEPT ![wuser[w]] = wread[w]]
    /\ GotoW(w, IF wtodo[w] # {} THEN "sync" ELSE "ack")
    /\ UNCHANGED <<callVars, brokerVars, events, rating, wmsg, wtodo, wuser, wread, smooth>>

\* SetPlayerScore.
WriteBoard(w) ==
    /\ wpc[w] = "write"
    /\ leaderboard' = [leaderboard EXCEPT ![wuser[w]] = wread[w]]
    /\ GotoW(w, IF wtodo[w] # {} THEN "sync" ELSE "ack")
    /\ UNCHANGED <<callVars, brokerVars, events, rating, wmsg, wtodo, wuser, wread, smooth>>

\* msg.Ack
Ack(w) ==
    /\ wpc[w] = "ack"
    /\ ForgetEvent(w)
    /\ UNCHANGED <<callVars, brokerVars, rankVars, smooth>>

\* The event returns to the broker: Nack with requeue, or the connection of a
\* worker that stopped.
Requeue(w) ==
    /\ queue' = [queue EXCEPT ![wmsg[w]] = @ + 1]
    /\ ForgetEvent(w)
    /\ smooth' = FALSE
    /\ UNCHANGED <<callVars, published>>

\* Fault: Nack without requeue.
SettleFailsAndDrops(w) ==
    /\ Faults
    /\ wpc[w] # "idle"
    /\ ForgetEvent(w)
    /\ smooth' = FALSE
    /\ UNCHANGED <<callVars, brokerVars, rankVars>>

\* SettleMatchResult returns an error at any of its calls, an open transaction
\* being rolled back; or the worker stops there.
SettleFails(w) ==
    /\ Faults
    /\ wpc[w] # "idle"
    /\ Requeue(w)
    /\ UNCHANGED rankVars

\* The commit succeeds and its reply is lost.
CommitUnseen(w) ==
    /\ Faults
    /\ CommitEvent(w)
    /\ Requeue(w)

WorkerStep(w) ==
    \/ Take(w) \/ AddEvent(w) \/ Commit(w)
    \/ ReadRank(w) \/ WriteBoard(w) \/ Ack(w)

-----------------------------------------------------------------------------
(* The system *)

Next ==
    \/ \E e \in Results : Submit(e) \/ Publish(e) \/ PublishFails(e)
    \/ \E w \in Workers : WorkerStep(w) \/ SettleFails(w) \/ CommitUnseen(w)

Spec == Init /\ [][Next]_vars

\* A worker runs, and none of its calls fails for ever: what it settles again
\* and again is committed and acknowledged in the end.
Fairness ==
    \A w \in Workers :
        WF_vars(WorkerStep(w)) /\ SF_vars(AddEvent(w)) /\ SF_vars(Commit(w)) /\ SF_vars(Ack(w))

FairSpec == Spec /\ Fairness

-----------------------------------------------------------------------------
(* Properties *)

\* The matches a user played in that are settled, for the winners in ev, and what they
\* gained the user in all.
SettledMatches(u, ev) == {m \in Matches : ev[m] # NoTeam /\ u \in Players(m)}

Gained(u, ev) ==
    LET Gain(m) == Delta(u, [match |-> m, winner |-> ev[m]]) IN
    MapThenSumSet(Gain, SettledMatches(u, ev))

\* A player's rating counts every settled match once, whatever is submitted,
\* published, delivered or committed more than once (rank_service.go 44-86).
SettledOnce ==
    \A u \in Users :
        rating[u] = IF SettledMatches(u, events) = {} THEN NoRank
                    ELSE 1000 + Gained(u, events)

\* A published result is settled, or an event of its match is with the broker
\* or a worker: acknowledging never loses it (cmd/worker/main.go 107-126).
NoResultLost ==
    \A m \in published :
        \/ events[m] # NoTeam
        \/ \E e \in Results : e.match = m /\ queue[e] > 0
        \/ \E w \in Workers : wmsg[w].match = m

\* A match is settled for a result that was submitted, and never again for
\* another one: its rating is final (rank_service.go 44-55).
SettlementFinal ==
    [][\A m \in Matches : events[m] # NoTeam => events'[m] = events[m]]_vars

\* No worker holds an event and none waits.
Quiet ==
    /\ \A w \in Workers : wpc[w] = "idle"
    /\ \A e \in Results : queue[e] = 0

\* Once the workers are done with what was published, the leaderboard shows the
\* ratings, whatever calls have failed.
LeaderboardCurrent == Quiet => leaderboard = rating

\* It does, as long as one worker at a time settled results and none of its
\* calls failed (rank_service.go 84-95).
LeaderboardFollows == smooth => LeaderboardCurrent

\* A published result is settled in the end, through any number of failures
\* that do not go on for ever.
ResultsSettle ==
    \A m \in Matches : m \in published ~> events[m] # NoTeam

=============================================================================
