------------------------------- MODULE Grades -------------------------------
(***************************************************************************)
(* core/evidence.py, the grade ladder of one observation: record_outcome   *)
(* and auto_upgrade_grade, called by several processes on one database.    *)
(*                                                                         *)
(* auto_upgrade_grade reads the grade, reads the outcomes over a second    *)
(* connection, and writes the new grade and its history row in one         *)
(* transaction: three steps, of which the first two hold no lock.  A       *)
(* process may die between them.                                           *)
(*                                                                         *)
(* Outcomes recorded before the run of the model are given by Earlier, so  *)
(* that the thresholds of the code are near; Full bounds those that follow *)
(* and MaxRows the history.                                                *)
(***************************************************************************)
EXTENDS Naturals, Sequences

CONSTANTS Process, None,
          Earlier,     \* a set of [n, good]: outcomes, and how many succeeded
          Full,        \* counts of outcomes that are not exceeded
          MaxRows

\* _GRADE_RANK; aliases such as "anecdote" and "correlation" are names of these.
Grade == {"anecdotal", "expert_opinion", "case_series", "cohort", "validated"}

Rank(g) ==
  CASE g = "anecdotal"      -> 0
    [] g = "expert_opinion" -> 1
    [] g = "case_series"    -> 2
    [] g = "cohort"         -> 3
    [] g = "validated"      -> 4

Outcomes == [n : Nat, good : Nat]

VARIABLES first,    \* the grade record_observation was called with
          grade,    \* observations.evidence_grade
          history,  \* evidence_grade_history, in the order of its ids
          tally,    \* the outcomes on record
          old,      \* the grade an upgrade has read, or None
          earned,   \* [grade, tally] it has decided on, or None
          crossed   \* an upgrade began while another was half-way

vars == <<first, grade, history, tally, old, earned, crossed>>

Row == [from : Grade, to : Grade, n : Nat, good : Nat]

TypeOK ==
  /\ first \in Grade /\ grade \in Grade
  /\ history \in Seq(Row)
  /\ tally \in Outcomes
  /\ old \in [Process -> Grade \cup {None}]
  /\ earned \in [Process -> [grade : Grade, tally : Outcomes] \cup {None}]
  /\ crossed \in BOOLEAN

\* record_observation.
Init ==
  /\ first \in Grade
  /\ grade = first
  /\ history = <<>>
  /\ tally \in Earlier
  /\ old = [p \in Process |-> None]
  /\ earned = [p \in Process |-> None]
  /\ crossed = FALSE

RecordOutcome ==
  /\ tally.n \notin Full
  /\ \E ok \in {0, 1} : tally' = [n |-> tally.n + 1, good |-> tally.good + ok]
  /\ UNCHANGED <<first, grade, history, old, earned, crossed>>

\* n >= threshold and the success rate at least percent.
Reaches(t, threshold, percent) == t.n >= threshold /\ 100 * t.good >= percent * t.n

\* Mutant: 19 outcomes do for 20.
Earned_OffByOne(t) ==
  CASE Reaches(t, 19, 80) -> "validated"
    [] ~Reaches(t, 19, 80) /\ Reaches(t, 10, 70) -> "cohort"
    [] ~Reaches(t, 10, 70) /\ (Reaches(t, 5, 60) \/ Reaches(t, 3, 50)) -> "case_series"
    [] OTHER -> "anecdotal"

\* _GRADE_THRESHOLDS, the first row that is reached.
Earned(t) ==
  CASE Reaches(t, 20, 80) -> "validated"
    [] ~Reaches(t, 20, 80) /\ Reaches(t, 10, 70) -> "cohort"
    [] ~Reaches(t, 10, 70) /\ (Reaches(t, 5, 60) \/ Reaches(t, 3, 50)) -> "case_series"
    [] OTHER -> "anecdotal"

Busy(p) == old[p] # None

ReadGrade(p) ==
  /\ ~Busy(p)
  /\ Len(history) < MaxRows
  /\ old' = [old EXCEPT ![p] = grade]
  /\ crossed' = (crossed \/ \E q \in Process \ {p} : Busy(q))
  /\ UNCHANGED <<first, grade, history, tally, earned>>

Leave(p) ==
  /\ old' = [old EXCEPT ![p] = None]
  /\ earned' = [earned EXCEPT ![p] = None]

\* get_observation_outcome_stats, and what they earn.
Decide(p) ==
  /\ Busy(p) /\ earned[p] = None
  /\ IF Rank(Earned(tally)) > Rank(old[p])
     THEN /\ earned' = [earned EXCEPT ![p] = [grade |-> Earned(tally), tally |-> tally]]
          /\ UNCHANGED old
     ELSE Leave(p)
  /\ UNCHANGED <<first, grade, history, tally, crossed>>

Upgrade(p) ==
  /\ earned[p] # None
  /\ grade' = earned[p].grade
  /\ history' = Append(history, [from |-> old[p], to |-> earned[p].grade,
                                 n |-> earned[p].tally.n, good |-> earned[p].tally.good])
  /\ Leave(p)
  /\ UNCHANGED <<first, tally, crossed>>

Crash(p) ==
  /\ Busy(p)
  /\ Leave(p)
  /\ UNCHANGED <<first, grade, history, tally, crossed>>

Next ==
  \/ RecordOutcome
  \/ \E p \in Process : ReadGrade(p) \/ Decide(p) \/ Upgrade(p) \/ Crash(p)

Spec == Init /\ [][Next]_vars

-----------------------------------------------------------------------------
(* Properties *)

\* The history explains the grade: every row goes up and was earned by the
\* outcomes it names, the last one leads to the grade there is; and unless two
\* upgrades of the observation cross, each row starts where the one before it
\* ended, so that the grade has only ever gone up.  (When they cross, the
\* slower one puts its lower grade over the higher, against "Never downgrades".)
HistoryExplains ==
  /\ grade = IF history = <<>> THEN first ELSE history[Len(history)].to
  /\ \A i \in 1..Len(history) :
       /\ Rank(history[i].from) < Rank(history[i].to)
       /\ LET t == [n |-> history[i].n, good |-> history[i].good]
          IN  /\ history[i].to = "validated" => t.n >= 20 /\ 5 * t.good >= 4 * t.n
              /\ history[i].to = "cohort" => t.n >= 10 /\ 10 * t.good >= 7 * t.n
              /\ history[i].to = "case_series" => t.n >= 3 /\ 2 * t.good >= t.n
       /\ ~crossed =>
            history[i].from = IF i = 1 THEN first ELSE history[i - 1].to
=============================================================================
