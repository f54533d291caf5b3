----------------------------- MODULE StateStore -----------------------------
(***************************************************************************)
(* core/state.py, the counters, lists and hashes of a state backend, under *)
(* the programs that count with it: ChainExecutor (core/chains.py),        *)
(* ChainConsultation, SurgeryTeam's confabulation counters and             *)
(* ModeAuthority.                                                          *)
(*                                                                         *)
(* Each call is one step where the backend makes it one: every Redis       *)
(* command, every SQLite transaction.  SQLiteBackend.increment is a get    *)
(* and a set, hash_increment and list_push are one transaction.  A         *)
(* MemoryBackend is one process's own: calls follow each other, and what   *)
(* is in it ends with the process.  A process may die between any two      *)
(* steps; an exception of a backend stops a call in the same places.       *)
(*                                                                         *)
(* MaxChains, MaxAnswers and MaxPrefs bound the runs of the model.         *)
(***************************************************************************)
EXTENDS Naturals, FiniteSets

CONSTANTS Process, None,
          Cadence,   \* should_consult's cadence
          MaxChains, MaxAnswers, MaxPrefs

ASSUME ProcessAssumption == IsFiniteSet(Process) /\ None \notin Nat

VARIABLES kind,        \* "memory", "sqlite" or "redis"
          counter,     \* the counters; one that is not there counts as 0
          executions,  \* the length of chain:executions
          prefs,       \* a field of mode:prefs
          at,          \* where each process is
          seen,        \* what its increment has read, or None
          asked,       \* calls to record_preference, answers flagged (history)
          flags,
          crossed,     \* an increment began while another was half-way
          lost         \* processes that died between the two halves of a record

vars == <<kind, counter, executions, prefs, at, seen, asked, flags, crossed, lost>>

Key == {"total", "last", "flagged", "surgeon"}

Place == {"idle", "count", "flag", "name", "judge", "consult", "mark"}

TypeOK ==
  /\ kind \in {"memory", "sqlite", "redis"}
  /\ counter \in [Key -> Nat]
  /\ executions \in Nat /\ prefs \in Nat /\ asked \in Nat /\ flags \in Nat /\ lost \in Nat
  /\ at \in [Process -> Place]
  /\ seen \in [Process -> Nat \cup {None}]
  /\ crossed \in BOOLEAN

Init ==
  /\ kind \in {"memory", "sqlite", "redis"}
  /\ counter = [k \in Key |-> 0]
  /\ executions = 0 /\ prefs = 0 /\ asked = 0 /\ flags = 0
  /\ at = [p \in Process |-> "idle"]
  /\ seen = [p \in Process |-> None]
  /\ crossed = FALSE
  /\ lost = 0

Busy(p) == at[p] # "idle"

\* A process begins only alone on a MemoryBackend.
MayBegin(p) == at[p] = "idle" /\ (kind = "memory" => \A q \in Process : ~Busy(q))

Go(p, place) == at' = [at EXCEPT ![p] = place]

-----------------------------------------------------------------------------
(* increment *)

ReadCounter(p, k) ==
  /\ kind # "redis" /\ seen[p] = None
  /\ seen' = [seen EXCEPT ![p] = counter[k]]
  /\ crossed' = (crossed \/ \E q \in Process \ {p} : at[q] = at[p] /\ seen[q] # None)
  /\ UNCHANGED <<counter, at>>

WriteCounter(p, k, next) ==
  /\ kind = "redis" \/ seen[p] # None
  /\ counter' = [counter EXCEPT ![k] = (IF kind = "redis" THEN @ ELSE seen[p]) + 1]
  /\ seen' = [seen EXCEPT ![p] = None]
  /\ Go(p, next)
  /\ UNCHANGED crossed

Increment(p, k, next) == ReadCounter(p, k) \/ WriteCounter(p, k, next)

\* list_push and hash_increment are one command, or one transaction.
ListPush == executions' = executions + 1

HashIncrement == prefs' = prefs + 1

-----------------------------------------------------------------------------
(* Chains *)

\* Mutant: the count is raised, and the record is written when it has been.
RecordExecution_CountFirst(p) ==
  /\ MayBegin(p)
  /\ executions < MaxChains
  /\ counter' = [counter EXCEPT !["total"] = @ + 1]
  /\ Go(p, "count")
  /\ UNCHANGED <<kind, executions, prefs, seen, asked, flags, crossed, lost>>

\* _record_execution, after the segments have run: list_push ...
RecordExecution(p) ==
  /\ MayBegin(p)
  /\ executions < MaxChains
  /\ ListPush
  /\ Go(p, "count")
  /\ UNCHANGED <<kind, counter, prefs, seen, asked, flags, crossed, lost>>

\* ... and then increment.
CountExecution(p) ==
  /\ at[p] = "count"
  /\ Increment(p, "total", "idle")
  /\ UNCHANGED <<kind, executions, prefs, asked, flags, lost>>

\* should_consult reads the total, and then the total at the last consultation.
Judge(p) ==
  /\ MayBegin(p)
  /\ counter["total"] > 0
  /\ seen' = [seen EXCEPT ![p] = counter["total"]]
  /\ Go(p, "judge")
  /\ UNCHANGED <<kind, counter, executions, prefs, asked, flags, crossed, lost>>

ShouldConsult(p) ==
  /\ at[p] = "judge"
  /\ Go(p, IF seen[p] >= counter["last"] + Cadence THEN "consult" ELSE "idle")
  /\ seen' = [seen EXCEPT ![p] = None]
  /\ UNCHANGED <<kind, counter, executions, prefs, asked, flags, crossed, lost>>

\* Mutant: the total is not read.
ReadTotal_Skipped(p) ==
  /\ at[p] = "consult"
  /\ Go(p, "mark")
  /\ UNCHANGED <<kind, counter, executions, prefs, seen, asked, flags, crossed, lost>>

\* mark_consulted, once the surgeons have been asked.
ReadTotal(p) ==
  /\ at[p] = "consult"
  /\ seen' = [seen EXCEPT ![p] = counter["total"]]
  /\ Go(p, "mark")
  /\ UNCHANGED <<kind, counter, executions, prefs, asked, flags, crossed, lost>>

MarkConsulted(p) ==
  /\ at[p] = "mark"
  /\ counter' = [counter EXCEPT !["last"] = seen[p]]
  /\ seen' = [seen EXCEPT ![p] = None]
  /\ Go(p, "idle")
  /\ UNCHANGED <<kind, executions, prefs, asked, flags, crossed, lost>>

-----------------------------------------------------------------------------
(* Other counters *)

\* _check_confabulation of an answer that is flagged.
FlagAnswer(p) ==
  /\ MayBegin(p)
  /\ flags < MaxAnswers
  /\ flags' = flags + 1
  /\ Go(p, "flag")
  /\ UNCHANGED <<kind, counter, executions, prefs, seen, asked, crossed, lost>>

CountFlagged(p) ==
  /\ at[p] = "flag"
  /\ Increment(p, "flagged", "name")
  /\ UNCHANGED <<kind, executions, prefs, asked, flags, lost>>

CountSurgeon(p) ==
  /\ at[p] = "name"
  /\ Increment(p, "surgeon", "idle")
  /\ UNCHANGED <<kind, executions, prefs, asked, flags, lost>>

\* record_preference.
RecordPreference(p) ==
  /\ MayBegin(p)
  /\ asked < MaxPrefs
  /\ asked' = asked + 1
  /\ HashIncrement
  /\ UNCHANGED <<kind, counter, executions, at, seen, flags, crossed, lost>>

\* A process that dies takes a MemoryBackend with it.
Crash(p) ==
  /\ Busy(p)
  /\ Go(p, "idle")
  /\ seen' = [seen EXCEPT ![p] = None]
  /\ IF kind = "memory"
     THEN /\ counter' = [k \in Key |-> 0]
          /\ executions' = 0 /\ prefs' = 0 /\ asked' = 0 /\ flags' = 0 /\ lost' = 0
     ELSE /\ lost' = IF at[p] = "count" THEN lost + 1 ELSE lost
          /\ UNCHANGED <<counter, executions, prefs, asked, flags>>
  /\ UNCHANGED <<kind, crossed>>

Step(p) ==
  \/ RecordExecution(p) \/ CountExecution(p)
  \/ Judge(p) \/ ShouldConsult(p) \/ ReadTotal(p) \/ MarkConsulted(p)
  \/ FlagAnswer(p) \/ CountFlagged(p) \/ CountSurgeon(p)
  \/ RecordPreference(p)

Next == \E p \in Process : Step(p) \/ Crash(p)

Spec == Init /\ [][Next]_vars

-----------------------------------------------------------------------------
(* Properties *)

In(place) == Cardinality({p \in Process : at[p] = place})

\* However calls of several processes cross, whoever dies and in whichever
\* backend: no execution is counted that is not on record, and preferences are
\* counted exactly.  Unless two increments of one counter cross in SQLite,
\* every recorded execution whose process lived is counted, an answer is
\* flagged in all before it is flagged by surgeon, and the last consultation
\* is not ahead of the count, so that the next one comes.
CountsKept ==
  /\ counter["total"] + In("count") <= executions
  /\ prefs = asked
  /\ ~crossed =>
       /\ counter["total"] + In("count") + lost = executions
       /\ counter["surgeon"] + In("name") <= counter["flagged"]
       /\ counter["last"] <= counter["total"]
=============================================================================
