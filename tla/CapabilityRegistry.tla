------------------------- MODULE CapabilityRegistry -------------------------
(***************************************************************************)
(* core/capability_registry.py, CapabilityRegistry: the levels of the      *)
(* capabilities, the posture state machine, event batching, and the JSON   *)
(* file and Redis hash that outlive the process.                           *)
(*                                                                         *)
(* A method holds the registry's lock from beginning to end and is one     *)
(* step, a function of the registry's fields; the body of a batch_events   *)
(* block, a load, a save and a persist are not, and each of these three is *)
(* under way once at a time.  (diff(), at the end of apply_probe, takes    *)
(* the lock again; it is part of that step.)  Two contexts of batch_events *)
(* stand for two threads, or for one block nested in another.              *)
(*                                                                         *)
(* The record also keeps what listeners of the event bus have heard: the   *)
(* new level of the last capability.changed event of each capability and   *)
(* the posture of the last posture.changed event.                          *)
(***************************************************************************)
EXTENDS ProbeRules, SequencesExt

CONSTANTS Cap,      \* the capabilities tracked, some of Capability
          Use,      \* what callers may do, see below
          Context,  \* batch_events blocks that may be open
          MaxFaults,
          None

Posture == {"nominal", "degraded", "recovering", "safe_mode"}

Levels == [Cap -> Level]

AllL1 == [c \in Cap |-> 1]

RECOVERY_PROBES_REQUIRED == 3

Stored == [levels : Levels, posture : Posture]

\* A load: the place in the enumeration it has come to, and what it read.
Loadings == [at : Nat \ {0}, from : Stored]

VARIABLES use,     \* the use made of the registry, an element of Use:
                   \*   ops, the groups of operations that are called,
                   \*   order, the capabilities they are called for, in the
                   \*     order of the enumeration
          reg,     \* the registry's fields, and what listeners heard
          batch,   \* each context's snapshot_before, or None
          loading, \* a load() under way
          saving,  \* levels read by a save() that has not written them yet
          persisting,  \* persist_to_redis() has sent the hash, not the posture
          file,    \* the JSON file
          redis,   \* the hash and the posture key
          before,  \* the levels when safe mode was last entered (history)
          faults

\* What a load, a save and a persist do, and to what.
Files  == <<file, redis>>
Stores == <<loading, saving, persisting, Files>>

vars == <<use, reg, batch, Stores, before, faults>>

Registry ==
  [state : Levels, previous : Levels, posture : Posture, healthy : 0..2,
   saved : Levels \cup {None}, batchPosture : BOOLEAN, batchingEvents : BOOLEAN,
   pending : SUBSET Cap, heard : Levels, heardPosture : Posture]

Order == use.order

TypeOK ==
  /\ use \in Use
  /\ reg \in Registry
  /\ batch \in [Context -> Levels \cup {None}]
  /\ loading \in Loadings \cup {None}
  /\ saving \in Levels \cup {None} /\ persisting \in BOOLEAN
  /\ file \in Stored \cup {None}
  /\ redis \in [levels : Levels \cup {None}, posture : Posture \cup {None}]
  /\ before \in Levels
  /\ faults \in 0..MaxFaults

Fresh == [state |-> AllL1, previous |-> AllL1, posture |-> "nominal", healthy |-> 0,
          saved |-> None, batchPosture |-> FALSE, batchingEvents |-> FALSE,
          pending |-> {}, heard |-> AllL1, heardPosture |-> "nominal"]

Init ==
  /\ use \in Use
  /\ reg = Fresh
  /\ batch = [x \in Context |-> None]
  /\ loading = None /\ saving = None /\ persisting = FALSE
  /\ file = None /\ redis = [levels |-> None, posture |-> None]
  /\ before = AllL1
  /\ faults = 0

-----------------------------------------------------------------------------
(* The methods, as functions of the registry *)

BelowBaseline(r) == \E c \in Cap : r.state[c] < r.previous[c]

\* Mutant: safe mode ends with the next level change.
UpdatePosture_LeavesSafeMode(r) ==
  LET p == IF BelowBaseline(r) THEN "degraded"
           ELSE IF r.posture = "degraded" THEN "recovering" ELSE r.posture
  IN IF r.posture = "safe_mode" THEN [r EXCEPT !.posture = "degraded"]
     ELSE [r EXCEPT !.posture = p, !.heardPosture = p]

UpdatePosture(r) ==
  LET p == IF BelowBaseline(r) THEN "degraded"
           ELSE IF r.posture = "degraded" THEN "recovering" ELSE r.posture
  IN IF r.posture = "safe_mode" THEN r
     ELSE [r EXCEPT !.posture = p,
                    !.healthy = IF BelowBaseline(r) \/ r.posture = "degraded" THEN 0 ELSE @,
                    !.heardPosture = IF p # r.posture THEN p ELSE @]

\* The state and the pending change, before the event log's record.
Changed(r, c, l) == [r EXCEPT !.state[c] = l, !.pending = @ \cup {c}]

Announced(r, c) == IF r.batchingEvents THEN r ELSE [r EXCEPT !.heard[c] = r.state[c]]

SetLevel(r, c, l) ==
  IF r.state[c] = l THEN r
  ELSE LET s == Changed(r, c, l)
       IN Announced(IF s.batchPosture THEN s ELSE UpdatePosture(s), c)

\* A loop of set_levels over the capabilities of a sequence.
SetAll(r, caps, levels) ==
  LET done[k \in 0..Len(caps)] ==
        IF k = 0 THEN r ELSE SetLevel(done[k - 1], caps[k], levels[caps[k]])
  IN  done[Len(caps)]

Deferred(r) == [r EXCEPT !.batchPosture = TRUE]

ProbeLevels(found) == [c \in Cap |-> LevelOf(c, found)]

\* Mutant: the posture stays deferred.
ApplyProbe_Deferred(r, found) ==
  [SetAll(Deferred(r), Order, ProbeLevels(found)) EXCEPT !.batchPosture = FALSE,
                                                         !.pending = {}]

\* apply_probe, with the diff() it returns.
ApplyProbe(r, found) ==
  LET s == SetAll(Deferred(r), Order, ProbeLevels(found))
  IN [UpdatePosture([s EXCEPT !.batchPosture = FALSE]) EXCEPT !.pending = {}]

\* Mutant: one probe more than is required.
MarkHealthy_OffByOne(r) ==
  IF r.posture # "recovering" THEN r
  ELSE IF r.healthy + 1 > RECOVERY_PROBES_REQUIRED
       THEN [r EXCEPT !.posture = "nominal", !.healthy = 0]
       ELSE [r EXCEPT !.healthy = @ + 1]

MarkHealthy(r) ==
  IF r.posture # "recovering" THEN r
  ELSE IF r.healthy + 1 >= RECOVERY_PROBES_REQUIRED
       THEN [r EXCEPT !.posture = "nominal", !.healthy = 0]
       ELSE [r EXCEPT !.healthy = @ + 1]

Enter(r, p) == [r EXCEPT !.batchPosture = FALSE, !.posture = p, !.healthy = 0,
                         !.heardPosture = p]

EnterSafeMode(r) ==
  Enter(SetAll([Deferred(r) EXCEPT !.saved = r.state], Order, AllL1), "safe_mode")

ExitSafeMode(r) ==
  IF r.saved = None
  THEN [r EXCEPT !.posture = "recovering", !.healthy = 0, !.heardPosture = "recovering"]
  ELSE Enter(SetAll(Deferred(r), Order, r.saved), "recovering")

BatchEnter(r) == [r EXCEPT !.batchingEvents = TRUE, !.batchPosture = TRUE]

\* Mutant: only what was raised is announced.
BatchExit_Raised(r, snapshot) ==
  UpdatePosture([r EXCEPT !.batchingEvents = FALSE, !.batchPosture = FALSE,
    !.heard = [c \in Cap |-> IF snapshot[c] < r.state[c] THEN r.state[c] ELSE r.heard[c]]])

\* One net event per capability whose level is not the snapshot's.
BatchExit(r, snapshot) ==
  UpdatePosture([r EXCEPT !.batchingEvents = FALSE, !.batchPosture = FALSE,
    !.heard = [c \in Cap |-> IF snapshot[c] # r.state[c] THEN r.state[c] ELSE r.heard[c]]])

\* A loop of set_levels in which the event log raises at the k-th capability.
RaiseAt(r, k, levels) ==
  Changed(SetAll(r, SubSeq(Order, 1, k - 1), levels), Order[k], levels[Order[k]])

-----------------------------------------------------------------------------
(* The steps of callers *)

Method == "set" \in use.ops /\ \E c \in Range(Order), l \in Level : reg' = SetLevel(reg, c, l)

Baseline == "baseline" \in use.ops /\ reg' = [reg EXCEPT !.previous = reg.state]

Probed == "probe" \in use.ops /\ \E found \in SUBSET Infra : reg' = ApplyProbe(reg, found)

\* "Record a probe where no degradation was found."
Marked == "probe" \in use.ops /\ ~BelowBaseline(reg) /\ reg' = MarkHealthy(reg)

Diff == "diff" \in use.ops /\ reg' = [reg EXCEPT !.pending = {}]

Simple ==
  /\ Method \/ Baseline \/ Probed \/ Marked \/ Diff
  /\ UNCHANGED <<batch, Stores, before, faults>>

Safe ==
  /\ "safe" \in use.ops
  /\ reg' = EnterSafeMode(reg)
  /\ before' = IF reg.posture = "safe_mode" THEN before ELSE reg.state
  /\ UNCHANGED <<batch, Stores, faults>>

Unsafe ==
  /\ "safe" \in use.ops
  /\ reg.posture = "safe_mode"
  /\ reg' = ExitSafeMode(reg)
  /\ UNCHANGED <<batch, Stores, before, faults>>

OpenBatch(x) ==
  /\ "batch" \in use.ops
  /\ batch[x] = None
  /\ reg' = BatchEnter(reg)
  /\ batch' = [batch EXCEPT ![x] = reg.state]
  /\ UNCHANGED <<Stores, before, faults>>

CloseBatch(x) ==
  /\ batch[x] # None
  /\ reg' = BatchExit(reg, batch[x])
  /\ batch' = [batch EXCEPT ![x] = None]
  /\ UNCHANGED <<Stores, before, faults>>

\* mcp/server.py, _capability_status: a probe, a save and a snapshot.
Status ==
  /\ "status" \in use.ops
  /\ \E found \in SUBSET Infra :
       LET r == ApplyProbe(reg, found)
       IN /\ reg' = r
          /\ file' = [levels |-> r.state, posture |-> r.posture]
  /\ UNCHANGED <<batch, loading, saving, persisting, redis, before, faults>>

\* save() takes no lock: the levels are read first, the posture after them.
SaveLevels ==
  /\ "file" \in use.ops
  /\ saving = None
  /\ saving' = reg.state
  /\ UNCHANGED <<reg, batch, loading, persisting, Files, before, faults>>

SavePosture ==
  /\ saving # None
  /\ file' = [levels |-> saving, posture |-> reg.posture]
  /\ saving' = None
  /\ UNCHANGED <<reg, batch, loading, persisting, redis, before, faults>>

\* load() reads the file, ...
LoadFile ==
  /\ "file" \in use.ops
  /\ loading = None /\ file # None
  /\ loading' = [at |-> 1, from |-> file]
  /\ UNCHANGED <<reg, batch, saving, persisting, Files, before, faults>>

\* ... takes the lock for one set_level after another, ...
LoadLevel ==
  /\ loading # None /\ loading.at <= Len(Order)
  /\ LET c == Order[loading.at] IN reg' = SetLevel(reg, c, loading.from.levels[c])
  /\ loading' = [loading EXCEPT !.at = @ + 1]
  /\ UNCHANGED <<batch, saving, persisting, Files, before, faults>>

\* ... in which the event log may raise, ...
LoadRaises ==
  /\ "log" \in use.ops
  /\ faults < MaxFaults
  /\ faults' = faults + 1
  /\ loading # None /\ loading.at <= Len(Order)
  /\ LET c == Order[loading.at]
         l == loading.from.levels[c]
     IN reg.state[c] # l /\ reg' = Changed(reg, c, l)
  /\ loading' = None
  /\ UNCHANGED <<batch, saving, persisting, Files, before>>

\* ... and sets the posture without it.
LoadPosture ==
  /\ loading # None /\ loading.at > Len(Order)
  /\ reg' = [reg EXCEPT !.posture = loading.from.posture]
  /\ loading' = None
  /\ UNCHANGED <<batch, saving, persisting, Files, before, faults>>

\* The process is killed, or ends, and another builds its registry; a file
\* that the kill left truncated is as good as none.
Restart ==
  /\ "restart" \in use.ops
  /\ reg' = Fresh
  /\ batch' = [x \in Context |-> None]
  /\ loading' = None /\ saving' = None /\ persisting' = FALSE
  /\ file' \in {file} \cup (IF saving # None THEN {None} ELSE {})
  /\ UNCHANGED <<redis, before, faults>>

\* persist_to_redis() takes no lock either: hset, and then set, which may fail.
PersistLevels ==
  /\ "redis" \in use.ops
  /\ ~persisting /\ persisting' = TRUE
  /\ redis' = [redis EXCEPT !.levels = reg.state]
  /\ UNCHANGED <<reg, batch, loading, saving, file, before, faults>>

PersistPosture ==
  /\ persisting /\ persisting' = FALSE
  /\ redis' \in {redis, [redis EXCEPT !.posture = reg.posture]}
  /\ UNCHANGED <<reg, batch, loading, saving, file, before, faults>>

\* What is stored, if it is, else what there is.
Or(stored, held) == IF stored = None THEN held ELSE stored

\* ping, hgetall and get; each may fail.  Nothing is announced, and the posture
\* is not recalculated.
RehydrateFromRedis ==
  /\ "redis" \in use.ops
  /\ \/ reg' = [reg EXCEPT !.posture = "degraded"]
     \/ \E p \in {Or(redis.posture, reg.posture), "degraded"} :
          reg' = [reg EXCEPT !.state = Or(redis.levels, reg.state), !.posture = p]
  /\ UNCHANGED <<batch, Stores, before, faults>>

\* The event log raises OSError in the middle of set_level, apply_probe,
\* enter_safe_mode or exit_safe_mode.
LogRaises ==
  /\ "log" \in use.ops
  /\ faults < MaxFaults
  /\ faults' = faults + 1
  /\ \E k \in 1..Len(Order) :
       \/ \E l \in Level :
            reg.state[Order[k]] # l /\ reg' = Changed(reg, Order[k], l)
       \/ \E found \in SUBSET Infra :
            /\ reg.state[Order[k]] # LevelOf(Order[k], found)
            /\ reg' = RaiseAt(Deferred(reg), k, ProbeLevels(found))
       \/ /\ "safe" \in use.ops
          /\ reg.state[Order[k]] # 1
          /\ reg' = RaiseAt([Deferred(reg) EXCEPT !.saved = reg.state], k, AllL1)
       \/ /\ reg.posture = "safe_mode" /\ reg.saved # None
          /\ reg.state[Order[k]] # reg.saved[Order[k]]
          /\ reg' = RaiseAt(Deferred(reg), k, reg.saved)
  /\ UNCHANGED <<batch, Stores, before>>

Next ==
  /\ \/ Simple \/ Safe \/ Unsafe \/ Status
     \/ \E x \in Context : OpenBatch(x) \/ CloseBatch(x)
     \/ SaveLevels \/ SavePosture \/ Restart
     \/ LoadFile \/ LoadLevel \/ LoadPosture \/ LoadRaises
     \/ PersistLevels \/ PersistPosture \/ RehydrateFromRedis
     \/ LogRaises
  /\ UNCHANGED use

Spec == Init /\ [][Next]_vars

-----------------------------------------------------------------------------
(* Properties *)

Batching == \E x \in Context : batch[x] # None

\* Listeners know every level: outside of batches, and however batches of two
\* threads overlap, loads, saves and restarts included, the last event of a
\* capability carries its level.  (rehydrate_from_redis announces nothing, and
\* an event log that raises prevents the event.)
HeardLevels ==
  ~Batching /\ "redis" \notin use.ops /\ faults = 0 => reg.heard = reg.state

\* "NOMINAL -> DEGRADED (any capability drops below baseline)": nominal means
\* that nothing is below the baseline, once no batch is open.  (load() and
\* rehydrate_from_redis take the posture as it was stored.)
NominalMeansHealthy ==
  /\ ~Batching /\ use.ops \cap {"file", "redis"} = {} /\ faults = 0
  /\ reg.posture = "nominal"
  => ~BelowBaseline(reg)

\* "SAFE_MODE -> RECOVERING (explicit exit_safe_mode())": no probe, batch,
\* level change or event log that raises takes the registry out of safe mode;
\* only the stores may.
SafeModeHeld ==
  [][reg.posture = "safe_mode" /\ reg'.posture # "safe_mode" =>
       Unsafe \/ Restart \/ LoadPosture \/ RehydrateFromRedis]_vars

=============================================================================
