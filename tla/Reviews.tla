------------------------------ MODULE Reviews ------------------------------
(***************************************************************************)
(* The three ways of running a whole cross-examination, any one of which a *)
(* user may choose: the cross_examine_* tools of MCP servers               *)
(* (McpSessions), "3s cross-exam --live" (LiveCli) and a call of           *)
(* cross_examine_iterative (IterativeReview).  They share no state.        *)
(***************************************************************************)
EXTENDS McpSessions

CONSTANTS LiveMax,                 \* max_iterations of the mode given to --live
          Mode, MaxOf, SingleMode  \* of IterativeReview

ASSUME LiveMaxAssumption == LiveMax \in Nat \ {0}

ASSUME ModeAssumption ==
  /\ SingleMode \in Mode
  /\ MaxOf \in [Mode -> Nat \ {0}]
  /\ MaxOf[SingleMode] = 1

VARIABLES way,   \* "tools", "live" or "call"
          at, saving, sess, n, file, over,
          pc, mode, i, reports, explored, synth, agreed, logged, outcome, raised

Live == INSTANCE LiveCli WITH Max <- LiveMax, pc <- at

Call == INSTANCE IterativeReview

liveVars == <<at, saving, sess, n, file, over>>

callVars == <<pc, mode, i, reports, explored, synth, agreed, logged, outcome, raised>>

all == <<way, vars, liveVars, callVars>>

\* What is not chosen has one initial state.
AnyInit ==
  /\ Init /\ Live!Init /\ Call!Init
  /\ way \in {"tools", "live", "call"}
  /\ way # "tools" => ~guided
  /\ way # "call" => mode = SingleMode

AnyNext ==
  \/ way = "tools" /\ Next /\ UNCHANGED <<way, liveVars, callVars>>
  \/ way = "live" /\ Live!Next /\ UNCHANGED <<way, vars, callVars>>
  \/ way = "call" /\ Call!Next /\ UNCHANGED <<way, vars, liveVars>>

\* A command that is neither killed nor ended by an exception runs on: every
\* query returns, as a query has a timeout and _safe_query turns what it raises
\* into None, and every database call returns or raises.  Of the tools' clients
\* only an agent that is guided goes on until it is told "done", and calls a
\* tool again whose phase raised.
AnySpec == AnyInit /\ [][AnyNext]_all /\ WF_all((way = "tools" => guided) /\ AnyNext)

-----------------------------------------------------------------------------
(* Properties *)

\* The records of all three keep their types.
TypesOK == TypeOK /\ Live!TypeOK /\ Call!TypeOK

\* Whoever fails to answer and however the votes go: an agent that follows the
\* skill is told "done" in the end, within the mode's maximum number of
\* iterations; the call returns or raises; the command ends with a consensus
\* or after its last round, unless it is killed or something raises, and no
\* phase of it is ever refused.
ReviewsEnd ==
  /\ way = "tools" => SurgeryEnds /\ []RoundsBounded
  /\ way = "live" => Live!Ends
  /\ way = "call" => Call!Ends

\* The review_outcomes row of cross_examine_iterative tells what happened.
OutcomeHonest == Call!OutcomeHonest

\* The --live loop and the call are cross-examinations in rounds: every phase
\* of a round is attempted once, in order, and no round follows an agreement
\* or the last one.
ImplementRounds == Live!ImplementsRounds /\ Call!ImplementsRounds
=============================================================================
