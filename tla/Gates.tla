------------------------------- MODULE Gates -------------------------------
(***************************************************************************)
(* core/gates.py: GainsGate, CardioGate and CorrigibilityGate, each a list *)
(* of checks made one after the other, while what they look at changes.    *)
(*                                                                         *)
(* Nothing in the repository writes the keys the gates read from the state *)
(* backend (critical_findings:count, cardio_gate:reviews_this_hour,        *)
(* integrity:...); their values are part of the world, as are the backend, *)
(* the evidence store and the lock file at gpu_lock_path.  That file holds *)
(* the JSON of GPULock, or what else a program wrote there: a process id,  *)
(* alive if that process can be signalled.  An action's text is the set of *)
(* the invariants whose pattern it matches.                                *)
(*                                                                         *)
(* Lists are the values of gates.gains_gate_checks in the model, Changes   *)
(* bounds how often the world changes during a run.                        *)
(***************************************************************************)
EXTENDS Naturals, Sequences, FiniteSets, Functions

CONSTANTS Lists, Changes

VARIABLES gate,     \* which gate runs: "gains", "cardio", "integrity" or "action"
          world,
          left,     \* the checks that are still to be made
          look,     \* what the check of the lock file has come to, see Exists
          checks,   \* the results so far
          verdict,  \* "none" while it runs; "pass", "fail" or "raised"
          was       \* every world there has been during the run (history)

vars == <<gate, world, left, look, checks, verdict, was>>

Counter == {"events_monotonic", "learnings_preserved", "evidence_grades_preserved"}

Invariant == {"destructive", "bypass", "gate_logic", "force_push"}

\* The checks that are made, and what a check may be called.
Names == {"state_backend", "service_health", "evidence_store", "evidence_operational",
          "gpu_lock_stale", "critical_findings", "rate_limit"} \cup Counter \cup Invariant

Name == Names \cup {"integrity_skipped"} \cup UNION {Range(list) : list \in Lists}

Probe == {"neurologist_health", "cardiologist_health", "llm_test_query"}

World == [up      : BOOLEAN,                 \* the state backend answers
          store   : BOOLEAN,                 \* the evidence store answers
          lock    : {"unset", "absent", "empty", "json", "alive", "dead"},
          found   : {"none", "some", "unreadable"},
          reviews : {"below", "full", "unreadable"},
          fallen  : SUBSET Counter,          \* counters below their last value
          matched : SUBSET Invariant]

TypeOK ==
  /\ gate \in {"gains", "cardio", "integrity", "action"}
  /\ world \in World /\ was \subseteq World
  /\ left \in Seq(Name) /\ look \in {"none", "seen", "read"}
  /\ checks \in Seq([name : Name, passed : BOOLEAN, critical : BOOLEAN])
  /\ verdict \in {"none", "pass", "fail", "raised"}

\* A check is appended unless it was asked for.
With(list, name) == IF name \in Range(list) THEN list ELSE Append(list, name)

\* Mutant: one of the two makes the other unnecessary.
GainsChecks_OneOfThem(list) ==
  IF "evidence_store" \in Range(list) THEN list
  ELSE With(With(list, "state_backend"), "evidence_store")

\* GainsGate always includes these two, in this order.
GainsChecks(list) == With(With(list, "state_backend"), "evidence_store")

\* check_integrity, with or without a state backend and an evidence store.
IntegrityChecks ==
  {state \o store :
     state \in {<<"integrity_skipped">>,
               <<"events_monotonic", "learnings_preserved", "evidence_grades_preserved",
                 "service_health">>},
     store \in {<<>>, <<"evidence_operational">>}}

ActionChecks == <<"destructive", "bypass", "gate_logic", "force_push">>

\* What a gate does not look at is as good as it can be.
Seen(g) ==
  {w \in World :
     /\ g = "action" => w.up /\ w.store
     /\ g \notin {"gains", "cardio"} => w.lock = "unset" /\ w.found = "none"
     /\ g # "cardio" => w.reviews = "below"
     /\ g # "integrity" => w.fallen = {}
     /\ g # "action" => w.matched = {}}

Init ==
  /\ gate \in {"gains", "cardio", "integrity", "action"}
  /\ world \in Seen(gate)
  /\ \/ gate = "gains"     /\ \E list \in Lists : left = GainsChecks(list)
     \/ gate = "cardio"    /\ \E list \in Lists : left = <<"rate_limit">> \o GainsChecks(list)
     \/ gate = "integrity" /\ left \in IntegrityChecks
     \/ gate = "action"    /\ left = ActionChecks
  /\ look = "none" /\ checks = <<>>
  /\ verdict = "none"
  /\ was = {world}

-----------------------------------------------------------------------------
(* The checks *)

\* The checks of one look that may fail a gate, and when they pass.  Findings
\* that cannot be read are none.
Passes(name, w) ==
  CASE name \in {"state_backend", "service_health"}        -> w.up
    [] name \in {"evidence_store", "evidence_operational"} -> w.store
    [] name = "critical_findings" -> w.up => w.found # "some"
    [] name = "rate_limit"        -> w.reviews = "below"
    [] name \in Counter           -> name \notin w.fallen
    [] name \in Invariant         -> name \notin w.matched

\* A name that GainsGate does not know fails, and does not matter.
Answers(name) ==
  CASE name \in Names                              -> {Passes(name, world)}
    [] name \in Probe                              -> BOOLEAN
    [] name = "integrity_skipped"                  -> {TRUE}
    [] name \notin Names \cup Probe \cup {"integrity_skipped"} -> {FALSE}

\* The rate limit and the counters are read outside of any handler.
Raises(name, w) ==
  \/ name = "rate_limit" /\ (~w.up \/ w.reviews = "unreadable")
  \/ name \in Counter /\ ~w.up

\* The result of the check that is being made.
Report(passed, critical) ==
  /\ checks' = Append(checks, [name |-> Head(left), passed |-> passed,
                               critical |-> critical])
  /\ left' = Tail(left) /\ look' = "none"
  /\ UNCHANGED <<gate, world, verdict, was>>

Check ==
  /\ verdict = "none" /\ left # <<>> /\ Head(left) # "gpu_lock_stale"
  /\ ~Raises(Head(left), world)
  /\ \E passed \in Answers(Head(left)) : Report(passed, Head(left) \in Names)

\* The lock file is looked at three times: whether it is there, ...
Exists ==
  /\ verdict = "none" /\ left # <<>> /\ Head(left) = "gpu_lock_stale" /\ look = "none"
  /\ IF world.lock \in {"unset", "absent"} THEN Report(TRUE, world.lock = "absent")
     ELSE look' = "seen" /\ UNCHANGED <<gate, world, left, checks, verdict, was>>

\* ... what it holds, where a file that is gone by now, and a live holder's JSON,
\* which is no number, are errors, ...
Read ==
  /\ look = "seen"
  /\ IF world.lock # "alive" THEN Report(FALSE, TRUE)
     ELSE look' = "read" /\ UNCHANGED <<gate, world, left, checks, verdict, was>>

\* ... and whether that process lives; one that has let go of it need not.
Signal ==
  /\ look = "read"
  /\ \E lives \in IF world.lock = "alive" THEN {TRUE} ELSE BOOLEAN : Report(lives, TRUE)

Raise ==
  /\ verdict = "none" /\ left # <<>>
  /\ Raises(Head(left), world)
  /\ verdict' = "raised"
  /\ UNCHANGED <<gate, world, left, look, checks, was>>

Conclude ==
  /\ verdict = "none" /\ left = <<>>
  /\ verdict' = IF \E i \in DOMAIN checks : checks[i].critical /\ ~checks[i].passed
                THEN "fail" ELSE "pass"
  /\ UNCHANGED <<gate, world, left, look, checks, was>>

-----------------------------------------------------------------------------
\* Services come and go, findings are made and resolved, the GPU lock is taken
\* and released.
Change ==
  /\ verdict = "none" /\ (checks # <<>> \/ look # "none")
  /\ Cardinality(was) <= Changes
  /\ world' \in {[world EXCEPT !.up = ~@], [world EXCEPT !.store = ~@]}
               \cup {[world EXCEPT !.lock = l] : l \in {"absent", "json", "dead"}}
               \cup {[world EXCEPT !.found = f] : f \in {"none", "some"}}
  /\ world' \in Seen(gate) \ {world}
  /\ world.lock = "unset" => world'.lock = "unset"
  /\ was' = was \cup {world'}
  /\ UNCHANGED <<gate, left, look, checks, verdict>>

Next == Check \/ Exists \/ Read \/ Signal \/ Raise \/ Conclude \/ Change

Spec == Init /\ [][Next]_vars

-----------------------------------------------------------------------------
(* Properties *)

Made(name) == \E i \in DOMAIN checks : checks[i].name = name

\* What a verdict is worth when the world changes under the checks.  A pass:
\* the backend and the evidence store have each answered during the run, also
\* if the configuration does not name them, and nothing the gate was asked
\* about was wrong all along; only findings are overlooked, while the backend
\* is down.  A fail: something that matters was wrong at some moment, never
\* only a model that does not answer; or a live holder let go of the GPU lock
\* between two looks at it.  And an exception leaves a gate only if its rate
\* limit or a counter could not be read.
VerdictBacked ==
  /\ verdict = "pass" =>
       /\ gate \in {"gains", "cardio"} => (\E w \in was : w.up) /\ (\E w \in was : w.store)
       /\ Made("critical_findings") => \E w \in was : w.found # "some" \/ ~w.up
       /\ Made("gpu_lock_stale") => \E w \in was : w.lock \in {"unset", "absent", "alive"}
       /\ world.reviews = "below" /\ world.matched = {}
       /\ Made("service_health") => world.fallen = {}
  /\ verdict = "fail" =>
       \/ \E w \in was : \/ ~w.up \/ ~w.store \/ w.reviews = "full"
                         \/ w.found = "some" \/ w.lock \in {"empty", "json", "dead"}
                         \/ w.fallen # {} \/ w.matched # {}
       \/ \E w, v \in was : w.lock = "alive" /\ v.lock # "alive"
  /\ verdict = "raised" =>
       /\ gate \in {"cardio", "integrity"}
       /\ \E w \in was : ~w.up \/ w.reviews = "unreadable"
=============================================================================
