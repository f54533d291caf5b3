------------------------------- MODULE ABTest -------------------------------
(***************************************************************************)
(* core/ab_testing.py and core/ab_lifecycle.py: the autonomous experiments *)
(* that both drive through the state backend.                              *)
(*                                                                         *)
(* ABTestEngine and the ab-* commands keep a test as one JSON value under  *)
(* "ab_test:<id>".  Every operation loads the value, changes a copy and    *)
(* stores the copy, so a call is a Load step and a Save step, followed by  *)
(* one step for each further thing it writes: the index of ids, the        *)
(* "ab_test:active" slot, the evidence store.  A client may be killed      *)
(* between any two.  Time is abstract: a test that was activated may be    *)
(* found past its maximal duration whenever check_safety looks.            *)
(*                                                                         *)
(* Nothing in the code adds to a test's cost_usd, so the cost limit of     *)
(* check_safety is never exceeded and its branch has no counterpart here.  *)
(***************************************************************************)
EXTENDS FiniteSets

CONSTANTS Client,      \* processes that run engine calls or ab-* commands
          Test,        \* test ids (uuid4: never drawn twice)
          Param,       \* parameters that may be proposed
          Forbidden,   \* those for which _is_param_forbidden is true
          Verdict,     \* verdicts a caller may conclude with
          NoTest, Idle

ASSUME ParamAssumption == Forbidden \subseteq Param

VARIABLES store,    \* "ab_test:<id>" for each id, or NoTest
          index,    \* the ids in "ab_test:_index"
          slot,     \* the id of the test in "ab_test:active", or NoTest
          results,  \* rows of the evidence table ab_results
          call,     \* the operation each client is inside of
          overlap   \* history: two operations were under way at once

vars == <<store, index, slot, results, call, overlap>>

Status == {"proposed", "grace_period", "active", "concluded", "vetoed", "reverted"}
Terminal == {"concluded", "vetoed", "reverted"}

Rec == [param : Param, status : Status, activated : BOOLEAN]
Row == [test : Test, verdict : Verdict]

\* start_grace_period, veto, activate, conclude and check_safety of the engine;
\* cmd_ab_veto, cmd_ab_start and cmd_ab_conclude.
Cmd == {"grace", "veto", "activate", "conclude", "revert",
        "ab_veto", "ab_start", "ab_conclude"}

\* Where a call stands: its copy not yet saved, or what is left to write.
Stage == {"save", "index", "slot", "clear", "evidence", "record"}

Call == [cmd : Cmd \cup {"propose"}, test : Test, rec : Rec, verdict : Verdict,
         stage : Stage]

ASSUME NullAssumption ==
  /\ NoTest \notin Test \cup Rec
  /\ Idle \notin Call

TypeOK ==
  /\ store \in [Test -> Rec \cup {NoTest}]
  /\ index \in SUBSET Test
  /\ slot \in Test \cup {NoTest}
  /\ results \in SUBSET Row
  /\ call \in [Client -> Call \cup {Idle}]
  /\ overlap \in BOOLEAN

Init ==
  /\ store = [t \in Test |-> NoTest]
  /\ index = {}
  /\ slot = NoTest
  /\ results = {}
  /\ call = [c \in Client |-> Idle]
  /\ overlap = FALSE

-----------------------------------------------------------------------------
(* The first step of a call *)

\* Mutant: any parameter may be proposed.
Propose_Unchecked(c, t, p, v) ==
  /\ call[c] = Idle
  /\ store[t] = NoTest
  /\ \A d \in Client : call[d] # Idle => call[d].test # t
  /\ call' = [call EXCEPT ![c] =
       [cmd |-> "propose", test |-> t, verdict |-> v, stage |-> "save",
        rec |-> [param |-> p, status |-> "proposed", activated |-> FALSE]]]
  /\ UNCHANGED <<store, index, slot, results>>

\* Mutant: the id is put in the index before the test is stored.
Propose_IndexFirst(c, t, p, v) ==
  /\ p \notin Forbidden
  /\ call[c] = Idle
  /\ store[t] = NoTest
  /\ \A d \in Client : call[d] # Idle => call[d].test # t
  /\ call' = [call EXCEPT ![c] =
       [cmd |-> "propose", test |-> t, verdict |-> v, stage |-> "index",
        rec |-> [param |-> p, status |-> "proposed", activated |-> FALSE]]]
  /\ UNCHANGED <<store, index, slot, results>>

\* The id is fresh: neither stored nor drawn by another call.  v is not used.
Propose(c, t, p, v) ==
  /\ p \notin Forbidden
  /\ call[c] = Idle
  /\ store[t] = NoTest
  /\ \A d \in Client : call[d] # Idle => call[d].test # t
  /\ call' = [call EXCEPT ![c] =
       [cmd |-> "propose", test |-> t, verdict |-> v, stage |-> "save",
        rec |-> [param |-> p, status |-> "proposed", activated |-> FALSE]]]
  /\ UNCHANGED <<store, index, slot, results>>

\* Mutant: activate does not look at the status.
MayRun_AnyStatus(cmd, r) ==
  CASE cmd = "revert"      -> r.activated
    [] cmd = "ab_start"    -> r.status \in {"proposed", "grace_period"}
    [] cmd = "ab_conclude" -> r.status = "active"
    [] OTHER               -> TRUE

\* What each operation demands of the test it loaded.
MayRun(cmd, r) ==
  CASE cmd = "activate"    -> r.status = "grace_period"
    [] cmd = "revert"      -> r.activated
    [] cmd = "ab_start"    -> r.status \in {"proposed", "grace_period"}
    [] cmd = "ab_conclude" -> r.status = "active"
    [] OTHER               -> TRUE

\* Mutant: activation leaves activated_at unset.
Changed_NoStamp(cmd, r) ==
  CASE cmd = "grace"                    -> [r EXCEPT !.status = "grace_period"]
    [] cmd \in {"activate", "ab_start"} -> [r EXCEPT !.status = "active"]
    [] OTHER                            -> [r EXCEPT !.status = "concluded"]

\* The copy an operation makes of the test it loaded.
Changed(cmd, r) ==
  CASE cmd = "grace"                      -> [r EXCEPT !.status = "grace_period"]
    [] cmd \in {"veto", "ab_veto"}        -> [r EXCEPT !.status = "vetoed"]
    [] cmd \in {"activate", "ab_start"}   -> [r EXCEPT !.status = "active",
                                                       !.activated = TRUE]
    [] cmd \in {"conclude", "ab_conclude"} -> [r EXCEPT !.status = "concluded"]
    [] cmd = "revert"                     -> [r EXCEPT !.status = "reverted"]

Load(c, cmd, t, v) ==
  /\ call[c] = Idle
  /\ store[t] # NoTest
  /\ MayRun(cmd, store[t])
  /\ call' = [call EXCEPT ![c] =
       [cmd |-> cmd, test |-> t, verdict |-> v, stage |-> "save",
        rec |-> Changed(cmd, store[t])]]
  /\ UNCHANGED <<store, index, slot, results>>

-----------------------------------------------------------------------------
(* The writes of a call *)

\* What an operation writes next once its copy is stored.
AfterSave(cmd) ==
  CASE cmd = "propose"     -> {"index"}
    [] cmd = "ab_start"    -> {"slot"}
    [] cmd = "ab_conclude" -> {"clear"}
    [] cmd = "conclude"    -> {"record"}
    [] OTHER               -> {}

Proceed(c, stages) ==
  IF stages = {}
  THEN call' = [call EXCEPT ![c] = Idle]
  ELSE \E s \in stages : call' = [call EXCEPT ![c].stage = s]

At(c, stage) == call[c] # Idle /\ call[c].stage = stage

Save(c) ==
  /\ At(c, "save")
  /\ store' = [store EXCEPT ![call[c].test] = call[c].rec]
  /\ Proceed(c, AfterSave(call[c].cmd))
  /\ UNCHANGED <<index, slot, results>>

IndexAdd(c) ==
  /\ At(c, "index")
  /\ index' = index \cup {call[c].test}
  /\ Proceed(c, {})
  /\ UNCHANGED <<store, slot, results>>

SetSlot(c) ==
  /\ At(c, "slot")
  /\ slot' = call[c].test
  /\ Proceed(c, {"evidence"})
  /\ UNCHANGED <<store, index, results>>

\* The slot is deleted whichever test it holds.
ClearSlot(c) ==
  /\ At(c, "clear")
  /\ slot' = NoTest
  /\ Proceed(c, {"evidence"})
  /\ UNCHANGED <<store, index, results>>

\* The commands pass record_observation the keywords topic, observation and
\* metadata; it takes statement, confidence and evidence_grade.  The call
\* raises TypeError, which is logged, and nothing is recorded.
RecordObservation(c) ==
  /\ At(c, "evidence")
  /\ Proceed(c, {})
  /\ UNCHANGED <<store, index, slot, results>>

RecordResult(c) ==
  /\ At(c, "record")
  /\ results' = results \cup {[test |-> call[c].test, verdict |-> call[c].verdict]}
  /\ Proceed(c, {})
  /\ UNCHANGED <<store, index, slot>>

\* The process is killed inside an operation.
Crash(c) ==
  /\ call[c] # Idle
  /\ call' = [call EXCEPT ![c] = Idle]
  /\ UNCHANGED <<store, index, slot, results>>

Write(c) ==
  Save(c) \/ IndexAdd(c) \/ SetSlot(c) \/ ClearSlot(c) \/ RecordObservation(c)
  \/ RecordResult(c)

Begin(c) ==
  \E t \in Test, v \in Verdict :
    \/ \E p \in Param : Propose(c, t, p, v)
    \/ \E cmd \in Cmd : Load(c, cmd, t, v)

Step(c) == Begin(c) \/ Write(c) \/ Crash(c)

Next ==
  /\ \E c \in Client : Step(c)
  /\ overlap' = (overlap \/ \E c, d \in Client : c # d /\ call'[c] # Idle /\ call'[d] # Idle)

Spec == Init /\ [][Next]_vars

-----------------------------------------------------------------------------
(* Properties *)

StatusOf(t) == IF store[t] = NoTest THEN "none" ELSE store[t].status

\* The class comment: "forbidden params are rejected at proposal time", and no
\* later operation, however it interleaves, brings one in.
ForbiddenNeverTested ==
  /\ \A t \in Test : store[t] # NoTest => store[t].param \notin Forbidden
  /\ \A c \in Client : call[c] # Idle => call[c].rec.param \notin Forbidden

\* get_active_tests reads the index and then each test: an id is listed only
\* once its test is there, also when the proposer dies in between.
IndexSound == \A t \in index : store[t] # NoTest

\* The status command shows the slot as the active test.  As long as operations
\* do not overlap, whichever of them are killed half-way, they never put there,
\* or leave there, a test that never ran.
SlotHasRun == ~overlap /\ slot # NoTest => store[slot] # NoTest /\ store[slot].activated

\* As long as operations do not overlap, none takes a vetoed, concluded or
\* reverted test straight back into service: start_grace_period, which has no
\* status guard, is the only way out.
TerminalExit ==
  [][~overlap => \A t \in Test : StatusOf(t) \in Terminal =>
       StatusOf(t)' \in Terminal \cup {"grace_period"}]_vars

\* The skill: a test vetoed during the grace period cannot be activated.  Two
\* clients can: activate loads the test, the veto is stored, activate saves.
VetoBlocksActivation ==
  [][\A t \in Test : StatusOf(t) = "vetoed" => StatusOf(t)' # "active"]_vars
=============================================================================
