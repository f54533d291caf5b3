---------------------------- MODULE ReviewRounds ----------------------------
(***************************************************************************)
(* What a cross-examination promises, whichever way it is driven: rounds   *)
(* of four phases - independent analysis, cross-review, open exploration,  *)
(* synthesis with a vote - each attempted once and in this order, repeated *)
(* until the surgeons agree, and never more often than the mode allows.    *)
(* LiveCli and IterativeReview implement it.                               *)
(***************************************************************************)
EXTENDS Naturals

CONSTANT Limit   \* the numbers of rounds that modes allow

VARIABLES limit,    \* that of the mode chosen
          round,    \* the round under way
          stage,    \* phases of it attempted so far
          verdict   \* "open", "agreed" or "unresolved"

rvars == <<limit, round, stage, verdict>>

Init == limit \in Limit /\ round = 1 /\ stage = 0 /\ verdict = "open"

Attempt ==
  /\ stage < 3
  /\ stage' = stage + 1
  /\ UNCHANGED <<limit, round, verdict>>

\* The last phase; the vote may be taken with it.
Synthesize ==
  /\ stage = 3
  /\ stage' = 4
  /\ verdict' \in {"open", "agreed"}
  /\ UNCHANGED <<limit, round>>

Agree ==
  /\ stage = 4
  /\ verdict = "open"
  /\ verdict' = "agreed"
  /\ UNCHANGED <<limit, round, stage>>

NextRound ==
  /\ stage = 4
  /\ verdict = "open"
  /\ round < limit
  /\ round' = round + 1
  /\ stage' = 0
  /\ UNCHANGED <<limit, verdict>>

GiveUp ==
  /\ stage = 4
  /\ verdict = "open"
  /\ round = limit
  /\ verdict' = "unresolved"
  /\ UNCHANGED <<limit, round, stage>>

Next == Attempt \/ Synthesize \/ Agree \/ NextRound \/ GiveUp

Spec == Init /\ [][Next]_rvars
=============================================================================
