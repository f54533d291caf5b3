----------------------------- MODULE ProbeRules -----------------------------
(***************************************************************************)
(* core/capability_registry.py, the probe rules and the part of            *)
(* apply_probe that evaluates them: the level of each capability for the   *)
(* infrastructure that a probe has found.                                  *)
(***************************************************************************)
EXTENDS Naturals

Infra == {"local_llm", "redis", "contextdna", "ide_event_bus"}

Capability == {"evidence_store", "cross_exam", "state_backend", "skill_suggestions",
               "project_memory", "health_monitoring", "llm_backend", "event_bus"}

Level == 1..3

Rule(cap, requires, level) == [cap |-> cap, requires |-> requires, level |-> level]

Rules ==
  { Rule("evidence_store",    {"redis"},         2),
    Rule("evidence_store",    {"contextdna"},    2),
    Rule("state_backend",     {"redis"},         2),
    Rule("project_memory",    {"redis"},         2),
    Rule("project_memory",    {"contextdna"},    2),
    Rule("health_monitoring", {"redis"},         2),
    Rule("cross_exam",        {"local_llm"},     2),
    Rule("skill_suggestions", {"local_llm"},     2),
    Rule("llm_backend",       {"local_llm"},     2),
    Rule("skill_suggestions", {"ide_event_bus"}, 3),
    Rule("health_monitoring", {"ide_event_bus"}, 3),
    Rule("event_bus",         {"ide_event_bus"}, 3),
    Rule("evidence_store",    Infra,             3),
    Rule("cross_exam",        Infra,             3),
    Rule("state_backend",     Infra,             3),
    Rule("project_memory",    Infra,             3),
    Rule("llm_backend",       Infra,             3) }

Matching(cap, found) == {r \in Rules : r.cap = cap /\ r.requires \subseteq found}

\* The best rule that matches; L1 without one.
LevelOf(cap, found) ==
  CHOOSE l \in Level :
    /\ l = 1 \/ \E r \in Matching(cap, found) : r.level = l
    /\ \A r \in Matching(cap, found) : r.level <= l
=============================================================================
