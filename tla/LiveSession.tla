----------------------------- MODULE LiveSession -----------------------------
(***************************************************************************)
(* core/sessions.py, LiveSession, and the phase_* methods of               *)
(* core/cross_exam.py, SurgeryTeam: one phased cross-examination, as       *)
(* functions of the session record.  McpSessions and LiveCli drive it.     *)
(*                                                                         *)
(* Of the accumulated findings the record keeps which phase of which       *)
(* iteration added an entry, and who is quoted in the current iteration's  *)
(* "start" entry: all that a later phase looks at.  A consensus score is   *)
(* at the threshold or below it.  Texts, costs and warnings are left out.  *)
(***************************************************************************)
EXTENDS Naturals

CONSTANTS Max,       \* max_iterations of the session's mode
          Answering  \* the sets of surgeons that may answer a pair of queries

Surgeon == {"cardiologist", "neurologist"}

ASSUME MaxAssumption == Max \in Nat \ {0}

ASSUME AnsweringAssumption == Answering \subseteq SUBSET Surgeon

Phase == {"created", "start", "deepen", "explore", "synthesize"}

\* The place of each phase in _PHASE_ORDER.
Rank == [created |-> 0, start |-> 1, deepen |-> 2, explore |-> 3, synthesize |-> 4]

Session == [phase   : Phase,
            iter    : Nat \ {0},
            found   : SUBSET ((Nat \ {0}) \X Phase),
            initial : SUBSET Surgeon,
            score   : {"none", "below", "consensus"}]

Fresh == [phase |-> "created", iter |-> 1, found |-> {}, initial |-> {}, score |-> "none"]

\* Mutant: any later phase may be entered.
CanAdvance_Forward(s, p) ==
  \/ Rank[p] > Rank[s.phase]
  \/ s.phase = "synthesize" /\ p = "start"

CanAdvance(s, p) ==
  \/ Rank[p] = Rank[s.phase] + 1
  \/ s.phase = "synthesize" /\ p = "start"

NextAction(s) ==
  CASE s.phase = "start"   -> "deepen"
    [] s.phase = "deepen"  -> "explore"
    [] s.phase = "explore" -> "synthesize"
    [] s.phase = "synthesize" ->
         IF s.score = "consensus" \/ s.iter >= Max THEN "done" ELSE "iterate"
    [] OTHER -> "start"

\* advance_phase(p), then add_finding() for it.
Held(s, p) == [s EXCEPT !.phase = p, !.found = @ \cup {<<s.iter, p>>}]

\* The session after each phase method, one for each way its queries may end.
\* phase_start with nobody answering advances and adds no finding.
Started(s) ==
  {IF who = {} THEN [s EXCEPT !.phase = "start"]
               ELSE [Held(s, "start") EXCEPT !.initial = who] : who \in Answering}

\* Each surgeon reviews the other's initial analysis, if there is one.  The
\* finding is added whether or not there was anything to review.
Deepened(s) == {Held(s, "deepen")}

Explored(s) == {Held(s, "explore")}

\* The vote is taken whether or not the synthesis query was answered.
Synthesized(s) ==
  {[Held(s, "synthesize") EXCEPT !.score = v] : v \in {"below", "consensus"}}

\* The earlier findings go into the topic; the next phases look for findings
\* of the new iteration, of which there are none yet.
Iterated(s) == {[s EXCEPT !.phase = "start", !.iter = @ + 1, !.initial = {}]}

-----------------------------------------------------------------------------
(* What a session record must satisfy *)

Reviewed(s, i) == {p \in {"deepen", "explore", "synthesize"} : <<i, p>> \in s.found}

\* No phase was passed over: the reviews, exploration and synthesis before the
\* current phase, and all of them in earlier iterations, have their findings.
\* A session that was created but never started can only be carried on with
\* phase_iterate, which leaves its first iteration empty.
NoPhaseSkipped(s) ==
  /\ Reviewed(s, s.iter) = {p \in Phase : 1 < Rank[p] /\ Rank[p] <= Rank[s.phase]}
  /\ \A i \in 1..(s.iter - 1) :
       \/ Reviewed(s, i) = {"deepen", "explore", "synthesize"}
       \/ i = 1 /\ Reviewed(s, i) = {}

\* A cross-review has an analysis of this iteration to review.
ReviewsAnalysis(s) == s.phase = "deepen" => s.initial # {}
=============================================================================
