------------------------------- MODULE Chains -------------------------------
(***************************************************************************)
(* core/chains.py, ChainExecutor.run, and the gate of core/requirements.py *)
(* which it shares with the commands that cli/main.py and mcp/server.py    *)
(* run by _run_command and _run_tool.                                      *)
(*                                                                         *)
(* A chain is a preset of ModeAuthority with the project's overrides.  Its *)
(* context is built once, before the first segment; the surgeons in it may *)
(* be gone when a segment asks them.  The repository registers no segment: *)
(* what one does is its outcome.  A segment is a step, as is each of the   *)
(* two writes of the record, which the backend may refuse.                 *)
(***************************************************************************)
EXTENDS FiniteSets, Functions, Sublists

CONSTANTS Segment, Presets, Overrides, Needs

VARIABLES kind,      \* "chain" or "command"
          strict,    \* halt_on_error
          requested, \* the names asked for, in order
          needs,     \* of each segment: its CommandRequirements
          ctx,       \* RuntimeContext
          left,      \* the segments still to come
          saw,       \* of each segment: whose data there was when it was called (history)
          data,      \* whose data is in ChainState.data
          results, errors, skipped, degraded,
          halted,
          record,    \* chain:executions has a record of this run
          counted,   \* chain:total_executions has been raised for it
          status     \* "running", "recording", "counting", "done" or "raised"

vars == <<kind, strict, requested, needs, ctx, left, saw, data, results, errors, skipped,
          degraded, halted, record, counted, status>>

\* "rest" stands for the needs that are there or not: state, evidence, git, and
\* preconditions, for which no context in the repository has a checker.
Requirements == [llms : 0..2, wanted : 0..3, rest : BOOLEAN]

Context == [llms : 0..2, rest : BOOLEAN]

TypeOK ==
  /\ kind \in {"chain", "command"} /\ strict \in BOOLEAN
  /\ requested \in Seq(Segment) /\ left \in Seq(Segment)
  /\ needs \in [Segment -> Requirements] /\ ctx \in Context
  /\ saw \in [Segment -> SUBSET Segment] /\ data \subseteq Segment
  /\ results \in [Segment -> {"none", "ok", "failed"}]
  /\ errors \subseteq Segment /\ skipped \subseteq Segment /\ degraded \subseteq Segment
  /\ {halted, record, counted} \subseteq BOOLEAN
  /\ status \in {"running", "recording", "counting", "done", "raised"}

-----------------------------------------------------------------------------
(* resolve *)

\* A segment that is switched off is taken out, one switched on is put last; no list
\* has a segment twice.
Toggle(list, override) ==
  LET there == override.name \in Range(list)
  IN  CASE ~override.on /\ there   -> Only(list, Segment \ {override.name})
        [] override.on /\ ~there   -> Append(list, override.name)
        [] override.on <=> there   -> list

Resolve(preset, overrides) ==
  LET done[k \in 0..Len(overrides)] ==
        IF k = 0 THEN preset ELSE Toggle(done[k - 1], overrides[k])
  IN  done[Len(overrides)]

\* A command or tool is one call behind the same gate, and is not recorded.
Single(list) == SubSeq(list, 1, 1)

Init ==
  /\ kind \in {"chain", "command"}
  /\ strict \in BOOLEAN
  /\ \E preset \in Presets, overrides \in Overrides :
       requested = IF kind = "chain" THEN Resolve(preset, overrides) ELSE Single(preset)
  /\ requested # <<>>
  /\ needs \in Needs
  /\ ctx \in Context
  /\ left = requested
  /\ saw = [s \in Segment |-> {}] /\ data = {}
  /\ results = [s \in Segment |-> "none"]
  /\ errors = {} /\ skipped = {} /\ degraded = {}
  /\ halted = FALSE /\ record = FALSE /\ counted = FALSE
  /\ status = "running"

-----------------------------------------------------------------------------
(* check_requirements *)

Blocked(s) ==
  \/ needs[s].llms > 0 /\ ctx.llms < needs[s].llms
  \/ needs[s].rest /\ ~ctx.rest

Degraded(s) == ~Blocked(s) /\ needs[s].wanted > 0 /\ ctx.llms < needs[s].wanted

-----------------------------------------------------------------------------
(* run *)

Coming == status = "running" /\ left # <<>> /\ ~halted

Skip ==
  /\ Coming /\ Blocked(Head(left))
  /\ skipped' = skipped \cup {Head(left)}
  /\ left' = Tail(left)
  /\ UNCHANGED <<kind, strict, requested, needs, ctx, saw, data, results, errors,
                 degraded, halted, record, counted, status>>

Begin(s) ==
  /\ Coming /\ s = Head(left) /\ ~Blocked(s)
  /\ degraded' = IF Degraded(s) THEN degraded \cup {s} ELSE degraded
  /\ saw' = [saw EXCEPT ![s] = data]
  /\ left' = Tail(left)
  /\ UNCHANGED <<kind, strict, requested, needs, ctx, skipped, record, counted>>

\* A result is kept, and its data if it says success.
Return(s) ==
  /\ Begin(s)
  /\ \E outcome \in {"ok", "failed"} :
       /\ results' = [results EXCEPT ![s] = outcome]
       /\ data' = IF outcome = "ok" THEN data \cup {s} ELSE data
  /\ UNCHANGED <<errors, halted, status>>

\* What catches an exception is the chain; a command's ends it.
Caught == kind = "chain"

Fail(s) ==
  /\ Begin(s)
  /\ errors' = errors \cup {s}
  /\ halted' = (strict /\ Caught)
  /\ status' = IF Caught THEN status ELSE "raised"
  /\ UNCHANGED <<data, results>>

Over ==
  /\ status = "running" /\ (left = <<>> \/ halted)
  /\ status' = IF kind = "chain" THEN "recording" ELSE "done"
  /\ UNCHANGED <<kind, strict, requested, needs, ctx, left, saw, data, results, errors,
                 skipped, degraded, halted, record, counted>>

\* _record_execution: list_push, and then increment.
Push ==
  /\ status = "recording"
  /\ record' = TRUE
  /\ status' = "counting"
  /\ UNCHANGED <<kind, strict, requested, needs, ctx, left, saw, data, results, errors,
                 skipped, degraded, halted, counted>>

Count ==
  /\ status = "counting"
  /\ counted' = TRUE
  /\ status' = "done"
  /\ UNCHANGED <<kind, strict, requested, needs, ctx, left, saw, data, results, errors,
                 skipped, degraded, halted, record>>

\* The backend fails: what the segments returned is lost with the exception.
Refuse ==
  /\ status \in {"recording", "counting"}
  /\ status' = "raised"
  /\ UNCHANGED <<kind, strict, requested, needs, ctx, left, saw, data, results, errors,
                 skipped, degraded, halted, record, counted>>

Next ==
  \/ Skip \/ Over \/ Push \/ Count \/ Refuse
  \/ \E s \in Segment : Return(s) \/ Fail(s)

Spec == Init /\ [][Next]_vars

-----------------------------------------------------------------------------
(* Properties *)

Ran == {s \in Segment : results[s] # "none"}

\* Whatever is blocked, degraded, raised or refused on the way: what ran was let
\* in by what it needs, and was given the data of those before it that
\* succeeded, and of nobody else.  A chain that is not halted accounts for every
\* segment as run, failed or skipped, once; a halted one for those up to the one
\* that failed.  It is counted only if it is on record, and no record is of a
\* command.
RunBacked ==
  /\ \A s \in Ran \cup errors :
       /\ needs[s].llms <= ctx.llms /\ (needs[s].rest => ctx.rest)
       /\ saw[s] = {requested[i] : i \in {j \in DOMAIN requested :
                      /\ results[requested[j]] = "ok"
                      /\ \E k \in DOMAIN requested : j < k /\ requested[k] = s}}
       /\ s \in degraded <=> needs[s].wanted > ctx.llms
  /\ Ran \cap errors = {} /\ (Ran \cup errors) \cap skipped = {}
  /\ degraded \subseteq Ran \cup errors
  /\ status \in {"recording", "done"} =>
       Ran \cup errors \cup skipped = Range(requested) \ Range(left)
  /\ status = "done" /\ ~halted => left = <<>>
  /\ halted => Cardinality(errors) = 1 /\ requested[Len(requested) - Len(left)] \in errors
  /\ kind = "chain" /\ status = "done" => counted
  /\ counted => record
  /\ record => kind = "chain" /\ (left = <<>> \/ halted)
=============================================================================
