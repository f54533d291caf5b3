------------------------------- MODULE Stores -------------------------------
(***************************************************************************)
(* What several processes keep in one place: the counters of a state       *)
(* backend (StateStore), the locks that end by themselves (LeaseLock), the *)
(* grade of an observation (Grades) and the evidence database that is      *)
(* migrated (Migration), each followed by itself.  They share no state.    *)
(***************************************************************************)
EXTENDS StateStore, Sequences

CONSTANTS Earlier, Full, MaxRows,
          Torn, MaxLearnings, MaxCommands

VARIABLES part,
          lock, key, stale, urgent, rank, place, lapsed, inside,
          first, grade, history, tally, old, earned, overtaken,
          main, wal, other, snap, bak, dest, cmd, items, report, kept, minted, runs,
          shared, broken

Lease == INSTANCE LeaseLock WITH kind <- lock, at <- place, crossed <- inside
Ladder == INSTANCE Grades WITH crossed <- overtaken
Database == INSTANCE Migration

\* None is none of the values it stands beside, and what was recorded before
\* is outcomes.
ASSUME StoresAssumption ==
  /\ None \notin Process \cup Ladder!Grade
  /\ None \notin [grade : Ladder!Grade, tally : Ladder!Outcomes]
  /\ \A t \in Earlier : t \in Ladder!Outcomes
  /\ Torn \notin Database!Learnings
  /\ MaxLearnings \in Nat /\ MaxCommands \in Nat

leaseVars == <<lock, key, stale, urgent, rank, place, lapsed, inside>>

gradeVars == <<first, grade, history, tally, old, earned, overtaken>>

dbVars ==
  <<main, wal, other, snap, bak, dest, cmd, items, report, kept, minted, runs, shared, broken>>

\* What is not followed has one initial state.
AnyInit ==
  /\ part \in {"state", "locks", "grades", "migration"}
  /\ Init /\ (part # "state" => kind = "redis")
  /\ Lease!Init /\ (part # "locks" => lock = "redis")
  /\ Ladder!Init /\ (part # "grades" => first = "anecdotal" /\ tally.n = 2)
  /\ Database!Init /\ (part # "migration" => dest.kind = "none")

AnyNext ==
  /\ UNCHANGED part
  /\ \/ part = "state" /\ Next /\ UNCHANGED <<leaseVars, gradeVars, dbVars>>
     \/ part = "locks" /\ Lease!Next /\ UNCHANGED <<vars, gradeVars, dbVars>>
     \/ part = "grades" /\ Ladder!Next /\ UNCHANGED <<vars, leaseVars, dbVars>>
     \/ part = "migration" /\ Database!Next /\ UNCHANGED <<vars, leaseVars, gradeVars>>

AnySpec == AnyInit /\ [][AnyNext]_<<part, vars, leaseVars, gradeVars, dbVars>>

-----------------------------------------------------------------------------
(* Properties *)

\* All four keep their types.
TypesOK == TypeOK /\ Lease!TypeOK /\ Ladder!TypeOK /\ Database!TypeOK

\* A lock has one user at a time while it lasts.
LocksExclude == Lease!LocksExclude

\* The history of an observation's grade explains the grade.
HistoryExplains == Ladder!HistoryExplains

\* A revert restores what the last migration found.
MigrationSound == Database!MigrationSound
=============================================================================
