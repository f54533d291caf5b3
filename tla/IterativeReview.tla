--------------------------- MODULE IterativeReview ---------------------------
(***************************************************************************)
(* core/cross_exam.py, SurgeryTeam.cross_examine_iterative and the         *)
(* cross_examine and consensus calls it is made of: a review loop in one   *)
(* call, without a session.                                                *)
(*                                                                         *)
(* Each phase is one step: nobody else sees the results until the call     *)
(* returns.  Any surgeon may fail to answer any query.  Any phase may      *)
(* raise, and so may the vote, the log and the row: the evidence store is  *)
(* SQLite, and a reply to the vote that parses to a list raises            *)
(* AttributeError (_parse_consensus).  What is raised ends the call.  A    *)
(* weighted score is at the threshold or not; with nobody voting it is 0.  *)
(***************************************************************************)
EXTENDS Naturals

CONSTANTS Mode,       \* ReviewMode
          MaxOf,      \* ReviewMode.max_iterations
          SingleMode  \* ReviewMode.SINGLE

Surgeon == {"cardiologist", "neurologist"}

NoRow == [reached |-> FALSE, escalated |-> FALSE, rounds |-> 0]

VARIABLES pc,
          mode,
          i,         \* the loop variable
          reports,   \* surgeons with a report in this round's result
          explored,  \* surgeons with an exploration
          synth,     \* this round's result has a synthesis
          agreed,    \* consensus_reached
          logged,    \* rounds in the cross_exams table
          outcome,   \* the row added to review_outcomes, or NoRow
          raised     \* the call has raised, where pc is

vars == <<pc, mode, i, reports, explored, synth, agreed, logged, outcome, raised>>

TypeOK ==
  /\ pc \in {"analyse", "review", "explore", "synthesize", "log", "vote", "next",
             "close", "returned"}
  /\ mode \in Mode
  /\ i \in Nat \ {0}
  /\ reports \in SUBSET Surgeon
  /\ explored \in SUBSET Surgeon
  /\ synth \in BOOLEAN
  /\ agreed \in BOOLEAN
  /\ logged \in Nat
  /\ outcome \in [reached : BOOLEAN, escalated : BOOLEAN, rounds : Nat]
  /\ raised \in BOOLEAN

\* Mutant: rounds are counted from 0.
Init_FromZero ==
  /\ pc = "analyse"
  /\ mode \in Mode
  /\ i = 0
  /\ reports = {} /\ explored = {} /\ synth = FALSE
  /\ agreed = FALSE
  /\ logged = 0
  /\ outcome = NoRow /\ raised = FALSE

Init ==
  /\ pc = "analyse"
  /\ mode \in Mode
  /\ i = 1
  /\ reports = {} /\ explored = {} /\ synth = FALSE
  /\ agreed = FALSE
  /\ logged = 0
  /\ outcome = NoRow /\ raised = FALSE

-----------------------------------------------------------------------------
(* cross_examine *)

\* Phase 1.  With nobody answering the examination goes on all the same.
Analyse ==
  /\ pc = "analyse"
  /\ reports' \in SUBSET Surgeon
  /\ explored' = {} /\ synth' = FALSE
  /\ pc' = "review"
  /\ UNCHANGED <<mode, i, agreed, logged, outcome>>

\* Phase 2.  A cross-review extends a report; it neither makes nor removes one.
Review ==
  /\ pc = "review"
  /\ pc' = "explore"
  /\ UNCHANGED <<mode, i, reports, explored, synth, agreed, logged, outcome>>

\* Phase 3, only with both reports.
Explore ==
  /\ pc = "explore"
  /\ explored' \in IF reports = Surgeon THEN SUBSET Surgeon ELSE {{}}
  /\ pc' = "synthesize"
  /\ UNCHANGED <<mode, i, reports, synth, agreed, logged, outcome>>

\* Phase 4, only with both reports.
Synthesize ==
  /\ pc = "synthesize"
  /\ synth' \in IF reports = Surgeon THEN BOOLEAN ELSE {FALSE}
  /\ pc' = "log"
  /\ UNCHANGED <<mode, i, reports, explored, agreed, logged, outcome>>

Log ==
  /\ pc = "log"
  /\ logged' = logged + 1
  /\ pc' = IF mode = SingleMode THEN "close" ELSE "vote"
  /\ UNCHANGED <<mode, i, reports, explored, synth, agreed, outcome>>

-----------------------------------------------------------------------------
(* The loop of cross_examine_iterative *)

Vote ==
  /\ pc = "vote"
  /\ \E voters \in SUBSET Surgeon :
       agreed' \in IF voters = {} THEN {FALSE} ELSE BOOLEAN
  /\ pc' = IF agreed' THEN "close" ELSE "next"
  /\ UNCHANGED <<mode, i, reports, explored, synth, logged, outcome>>

\* The for loop goes on, or is used up.
NextIteration ==
  /\ pc = "next"
  /\ IF i < MaxOf[mode]
     THEN pc' = "analyse" /\ i' = i + 1
     ELSE pc' = "close" /\ UNCHANGED i
  /\ UNCHANGED <<mode, reports, explored, synth, agreed, logged, outcome>>

\* Mutant: escalation is decided by the rounds used up.
Escalation_ByRounds == mode # SingleMode /\ i = MaxOf[mode]

Escalation == ~agreed /\ mode # SingleMode

\* record_review_outcome: consensus_reached is "no escalation needed".
Close ==
  /\ pc = "close"
  /\ outcome' = [reached |-> ~Escalation, escalated |-> Escalation, rounds |-> i]
  /\ pc' = "returned"
  /\ UNCHANGED <<mode, i, reports, explored, synth, agreed, logged>>

\* The step the call is at raises; the loop itself does not.
Raise ==
  /\ pc \notin {"next", "returned"}
  /\ raised' = TRUE
  /\ UNCHANGED <<pc, mode, i, reports, explored, synth, agreed, logged, outcome>>

Step == Analyse \/ Review \/ Explore \/ Synthesize \/ Log \/ Vote \/ NextIteration \/ Close

Next == ~raised /\ ((Step /\ UNCHANGED raised) \/ Raise)

Spec == Init /\ [][Next]_vars

-----------------------------------------------------------------------------
(* Properties *)

\* What the adaptive learning reads is what happened: a review with a voting
\* mode is on record as a consensus exactly when the surgeons agreed, as an
\* escalation exactly when they did not, and with the rounds that were logged.
\* (A single-mode review never votes and is on record as a consensus.)
OutcomeHonest ==
  pc = "returned" =>
    /\ outcome.rounds = logged
    /\ mode # SingleMode => outcome.reached = agreed /\ outcome.escalated = ~agreed

\* The call returns or raises, whoever fails to answer.
Ends == <>(pc = "returned" \/ raised)

Stage ==
  CASE pc = "analyse"    -> 0
    [] pc = "review"     -> 1
    [] pc = "explore"    -> 2
    [] pc = "synthesize" -> 3
    [] OTHER             -> 4

Verdict ==
  CASE agreed -> "agreed"
    [] ~agreed /\ pc = "returned" -> "unresolved"
    [] OTHER -> "open"

Rounds == INSTANCE ReviewRounds WITH
            Limit <- {MaxOf[m] : m \in Mode}, limit <- MaxOf[mode],
            round <- i, stage <- Stage, verdict <- Verdict

\* The call is a cross-examination in rounds: it stops at the first agreement,
\* and without one it returns only after the last round its mode allows.
ImplementsRounds == Rounds!Spec
=============================================================================
