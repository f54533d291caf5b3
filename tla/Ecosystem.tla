----------------------------- MODULE Ecosystem -----------------------------
(***************************************************************************)
(* The two records of what the ecosystem offers, each followed by itself:  *)
(* the phase in config.yaml (Upgrade) and the levels of the capabilities   *)
(* (CapabilityRegistry).  They share no state.                             *)
(***************************************************************************)
EXTENDS Upgrade, Sequences

CONSTANTS Cap, Use, Context, None

VARIABLES part,  \* "phase" or "levels"
          use, reg, batch, loading, saving, persisting, file, redis, before,
          regFaults

Reg == INSTANCE CapabilityRegistry WITH faults <- regFaults

\* Callers know the capabilities tracked, and None is no record of levels.
ASSUME RegistryAssumption ==
  /\ Cap \subseteq Reg!Capability
  /\ \A u \in Use : u.order \in Seq(Cap)
  /\ None \notin Reg!Levels \cup Reg!Stored

regVars == <<use, reg, batch, loading, saving, persisting, file, redis, before, regFaults>>

all == <<part, vars, regVars>>

\* What is not followed has one initial state.
EitherInit ==
  /\ Init /\ Reg!Init
  /\ part \in {"phase", "levels"}
  /\ part = "phase" => use = CHOOSE u \in Use : TRUE
  /\ part = "levels" => installed /\ infra = [bus |-> FALSE, paths |-> 0]

EitherNext ==
  \/ part = "phase" /\ Next /\ UNCHANGED <<part, regVars>>
  \/ part = "levels" /\ Reg!Next /\ UNCHANGED <<part, vars>>

\* The fairness of Upgrade's FairSpec.
EitherSpec ==
  /\ EitherInit
  /\ [][EitherNext]_all
  /\ \A p \in Process :
       WF_all(part = "phase" /\ Work(p) /\ UNCHANGED <<part, installed, regVars>>)

-----------------------------------------------------------------------------
(* Properties *)

\* Both records keep their types.
TypesOK == TypeOK /\ Reg!TypeOK

\* The poller and the recovery at start-up bring the phase to what the
\* infrastructure supports, once it stops changing.
PhaseConverges == part = "phase" => Converges

\* What the registry tells is true: what listeners of its events have heard is
\* what it holds, and a nominal posture means that no capability is below its
\* baseline.
ReportsTrue == Reg!HeardLevels /\ Reg!NominalMeansHealthy

\* Only exit_safe_mode, or a store that is read, ends safe mode.
SafeModeHeld == Reg!SafeModeHeld
=============================================================================
