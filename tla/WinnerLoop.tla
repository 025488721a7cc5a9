----------------------------- MODULE WinnerLoop -----------------------------
(***************************************************************************)
(* The loop of scoreWinnerTeam (internal/service/mine_match_service.go).   *)
(* It ranges over a Go map, whose order is random, and keeps the best team *)
(* seen so far; a time of zero stands for a team that has not scored.      *)
(***************************************************************************)
EXTENDS Naturals, FiniteSets, FiniteSetsExt

CONSTANTS
    Members,        \* state.Teams: the users of each team number
    Scores          \* the scores, with the times of the last one, to explore

Teams == DOMAIN Members
Listed == UNION {Members[t] : t \in Teams}

ASSUME TeamAssumption ==
    /\ Teams \subseteq Nat \ {0} /\ Teams # {}
    /\ \A t \in Teams : Members[t] # {} /\ IsFiniteSet(Members[t])
    /\ \A s, t \in Teams : s # t => Members[s] \intersect Members[t] = {}
\* A user has a time exactly if the user has scored (ApplyOpenResult).
ASSUME ScoreAssumption ==
    \A p \in Scores : p.score \in Nat /\ p.last \in Nat /\ (p.score > 0 <=> p.last > 0)

VARIABLES
    player,         \* state.PlayerScores and state.LastScoreAt
    unseen,         \* the teams the loop has not seen
    winner,         \* winnerTeam, 0 for none
    winnerScore, winnerLast

winnerVars == <<player, unseen, winner, winnerScore, winnerLast>>

-----------------------------------------------------------------------------
TeamScore(t) == MapThenSumSet(LAMBDA u : player[u].score, Members[t])

\* The earliest of the last times of its users that scored.
TeamLast(t) ==
    LET times == {player[u].last : u \in Members[t]} \ {0}
    IN IF times = {} THEN 0 ELSE Min(times)

\* The shape of every variable.
WinnerTypeOK ==
    /\ player \in [Listed -> Scores]
    /\ unseen \subseteq Teams
    /\ winner \in Teams \union {0}
    /\ winnerScore \in Nat /\ winnerLast \in Nat

WinnerInit ==
    /\ player \in [Listed -> Scores]
    /\ unseen = Teams
    /\ winner = 0
    /\ winnerScore = 0
    /\ winnerLast = 0

\* Fault: of equal teams the one seen first stays.
BetterSeenFirst(t) ==
    \/ winner = 0
    \/ TeamScore(t) > winnerScore
    \/ /\ TeamScore(t) = winnerScore
       /\ TeamLast(t) > 0 /\ (winnerLast = 0 \/ TeamLast(t) < winnerLast)

\* The condition under which the loop takes the next team.
Better(t) ==
    \/ winner = 0
    \/ TeamScore(t) > winnerScore
    \/ /\ TeamScore(t) = winnerScore
       /\ TeamLast(t) > 0 /\ (winnerLast = 0 \/ TeamLast(t) < winnerLast)
    \/ TeamScore(t) = winnerScore /\ TeamLast(t) = winnerLast /\ t < winner

Visit(t) ==
    /\ t \in unseen
    /\ unseen' = unseen \ {t}
    /\ IF Better(t)
       THEN winner' = t /\ winnerScore' = TeamScore(t) /\ winnerLast' = TeamLast(t)
       ELSE UNCHANGED <<winner, winnerScore, winnerLast>>
    /\ UNCHANGED player

WinnerNext == \E t \in unseen : Visit(t)

-----------------------------------------------------------------------------
(* Properties *)

\* The order that is meant: more points first, then the team that stopped
\* scoring earlier, then the smaller number.
Beats(s, t) ==
    \/ TeamScore(s) > TeamScore(t)
    \/ TeamScore(s) = TeamScore(t) /\ TeamLast(s) < TeamLast(t)
    \/ TeamScore(s) = TeamScore(t) /\ TeamLast(s) = TeamLast(t) /\ s < t

\* In whatever order the map is ranged over, the loop ends with the one team
\* that beats all others: two runs over the same match never name different
\* winners (mine_match_service.go 268-297).
WinnerExact == unseen = {} => \A t \in Teams \ {winner} : Beats(winner, t)

=============================================================================
