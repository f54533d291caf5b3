--------------------------- MODULE EcosystemProofs ---------------------------
(***************************************************************************)
(* What the two records of the ecosystem keep: config.yaml when the server *)
(* that upgrades it is killed or a write of it raises, and the registry of *)
(* capabilities when batches overlap, stores are read and the event log    *)
(* raises; for any configurations, capabilities and uses of the registry,  *)
(* any number of batches, of kills and of writes that raise.               *)
(*                                                                         *)
(* Types, and all that is said of the registry, need no hypothesis.  The   *)
(* rest about config.yaml is about one server and one doctor that take     *)
(* turns (OneEach); two servers do overwrite each other's snapshot.        *)
(* SettingsKept and Agreement speak of the two files, and say nothing of   *)
(* an operation that is half done.  IInv adds which operations a process   *)
(* can be in and why (Shape, Roles), what the snapshot is by then (Sure),  *)
(* where the user's settings are (Safe), what was read from which file     *)
(* (Agreed), and what the files are between two operations (GoodFiles).    *)
(*                                                                         *)
(* ReportsTrue speaks of a registry with no batch open.  RegInv says what  *)
(* is so while some are: a level that listeners do not know is one that an *)
(* open batch will announce (HeardInv), and only an open batch defers the  *)
(* posture (NominalInv).  A loop of set_levels keeps what each of them     *)
(* keeps (LoopKeeps), by induction over its length.                        *)
(***************************************************************************)
EXTENDS Ecosystem, WellFoundedInduction, TLAPS


-----------------------------------------------------------------------------
(* The invariant *)

\* How far an operation on a file is.
Stage == {"read", "open", "write"}

\* A process.
Proc == [op : Op, stage : Stage, why : {"none", "recover", "failed", "revert"},
         phase : 1..3, target : 1..3, data : Content \cup Snapshot]

\* The files, the processes and the bounds.
Typed ==
  /\ installed \in BOOLEAN
  /\ config \in Content \cup {Missing}
  /\ snap \in Snapshot \cup {Missing, Empty}
  /\ infra \in [bus : BOOLEAN, paths : 0..2]
  /\ proc \in [Process -> Proc]
  /\ kills \in 0..MaxKills /\ faults \in 0..MaxFaults

\* The stages an operation has, what it has read by then, and why it is done.
Shape(x) ==
  /\ x.op \notin {"down", "snapshot", "apply", "commit", "restore"} => x.stage = "read"
  /\ x.op = "down" => x.stage # "write"
  /\ x.op \in {"snapshot", "apply"} /\ x.stage # "read" => x.data \in Content
  /\ x.op \in {"commit", "restore"} /\ x.stage # "read" => x.data \in Snapshot
  /\ x.op \in {"snapshot", "apply", "commit"} => x.why = "none"
  /\ x.op \in {"restore", "unlink"} => x.why # "none"
  /\ x.op = "recover" => x.why = "recover"

\* Types, operation by operation.
TypeInv == Typed /\ \A p \in Process : Shape(proc[p])

\* One server and one doctor run at most, which take turns; servers are killed.
OneEach ==
  /\ Serial
  /\ \A p, q \in Server : p = q
  /\ \A d, e \in Doctor : d = e
  /\ Server \cap Doctor = {}
  /\ Mortal \subseteq Server

\* A doctor only reverts, while the server is down; nobody else does.
Roles ==
  /\ \A d \in Doctor : /\ proc[d].op \in {"down", "restore", "unlink"}
                       /\ proc[d].op = "down" => proc[d].stage = "read"
                       /\ proc[d].op # "down" => proc[d].why = "revert"
  /\ \A p \in Server : proc[p].why # "revert"
  /\ \A d \in Doctor, p \in Server : proc[d].op # "down" => proc[p] = Down

\* Nobody runs.
AllDown == \A q \in Process : proc[q].op = "down"

\* What the snapshot is while a process is at an operation.
Sure(x) ==
  /\ x.op = "snapshot" /\ x.stage = "write" => snap = Empty
  /\ x.op = "apply" => NeedsRecovery
  /\ x.op = "commit" /\ x.stage # "write" => NeedsRecovery
  /\ x.op = "commit" /\ x.stage = "open" => x.data = snap
  /\ x.op = "commit" /\ x.stage = "write" => snap = Empty
  /\ x.op = "recover" \/ (x.op = "restore" /\ x.why = "recover") => NeedsRecovery
  /\ x.op = "restore" /\ x.stage # "read" => Whole(snap) /\ x.data = snap
  /\ x.op \in {"restore", "unlink"} /\ x.why = "revert" => Whole(snap) /\ ~NeedsRecovery
  /\ faults = 0 => x.op # "dead" /\ x.why # "failed"
  /\ faults = 0 /\ x.op \in {"idle", "log", "snapshot"} => ~NeedsRecovery
  /\ kills = 0 => x.op \notin {"recover", "dead"} /\ x.why \notin {"recover", "revert"}

\* Kills alone, or one write that raises.
Spared == installed /\ (faults = 0 \/ (kills = 0 /\ faults = 1))

\* Where the user's settings are.
Safe(x) ==
  /\ x.op \in {"idle", "log", "snapshot", "commit", "unlink"} => config.user
  /\ x.op = "apply" /\ x.stage # "write" => config.user
  /\ x.op \in {"snapshot", "apply"} /\ x.stage # "read" => x.data.user
  /\ x.op = "commit" /\ x.stage = "write" => x.data.backup.user
  /\ x.op = "restore" /\ x.why = "revert" /\ x.stage = "read" => config.user

\* Where they are whatever the processes do.
SafeFiles ==
  /\ Whole(snap) => snap.backup.user
  /\ config.user \/ Whole(snap)
  /\ AllDown => config.user \/ NeedsRecovery

\* No write has raised, and no kill hit a machine without a config.yaml.
Steady == faults = 0 /\ (installed \/ kills = 0)

\* Which phase config.yaml says.
Agreed(x) ==
  /\ x.op \in {"idle", "log", "snapshot"} => x.phase = PhaseOf(config)
  /\ x.op = "down" /\ x.stage = "open" => x.phase = PhaseOf(config)
  /\ x.op = "snapshot" /\ x.stage # "read" => x.data = Text(config)
  /\ x.op = "apply" /\ x.stage # "write" => Text(config) = snap.backup
  /\ x.op = "apply" /\ x.stage # "read" => x.data = snap.backup
  /\ x.op = "commit" => config # Missing /\ config.phase = x.target
  /\ x.op = "commit" /\ x.stage = "write" => x.data.from = PhaseOf(x.data.backup)
  /\ x.op = "restore" /\ x.why = "recover" => x.target = snap.from
  /\ x.op = "unlink" /\ x.why = "recover" =>
       Whole(snap) /\ x.target = PhaseOf(config) /\ Text(config) = snap.backup

\* What holds of a process at its operation.
Good(p) ==
  LET x == proc[p]
  IN Sure(x) /\ (Spared => Safe(x)) /\ (Steady => Agreed(x))

\* What holds of the files.
GoodFiles ==
  /\ installed => config # Missing
  /\ kills = 0 /\ AllDown => snap = Missing
  /\ Spared => SafeFiles
  /\ Steady /\ Whole(snap) => snap.from = PhaseOf(snap.backup)

\* The inductive invariant.
IInv == TypeInv /\ Roles /\ GoodFiles /\ \A p \in Process : Good(p)

-----------------------------------------------------------------------------
(* Types *)

\* Neither a missing nor a torn snapshot is a snapshot.
LEMMA EmptyFacts == /\ Empty \in Content /\ Empty \notin Snapshot
                    /\ Missing \notin Content /\ Missing \notin Snapshot
<1>1. Empty \in Content
  BY DEF Empty, Content
<1>2. Empty \notin Snapshot
  BY DEF Empty, Snapshot
<1>3. QED
  BY <1>1, <1>2, MissingAssumption

\* A whole snapshot is one.
LEMMA WholeSnapshot == ASSUME Typed, Whole(snap) PROVE snap \in Snapshot
  BY DEF Typed, Whole

\* What a phase is.
LEMMA PhaseType == ASSUME NEW c \in Content \cup {Missing}
                   PROVE  PhaseOf(c) \in 1..3 /\ Text(c) \in Content
  BY EmptyFacts DEF PhaseOf, Text, Content

\* What a process is, field by field.
LEMMA ProcFields ==
  ASSUME NEW x \in Proc
  PROVE  /\ x.op \in Op /\ x.stage \in Stage /\ x.phase \in 1..3 /\ x.target \in 1..3
         /\ x.why \in {"none", "recover", "failed", "revert"}
         /\ x.data \in Content \cup Snapshot
         /\ x = [op |-> x.op, stage |-> x.stage, why |-> x.why, phase |-> x.phase,
                 target |-> x.target, data |-> x.data]
  BY DEF Proc

\* The initial state.
LEMMA InitTyped == Init => TypeInv
<1> SUFFICES ASSUME Init PROVE TypeInv
  OBVIOUS
<1>1. Down \in Proc
  BY EmptyFacts DEF Down, Proc, Op, Stage
<1>2. Typed
  BY <1>1, FirstConfigAssumption, BoundAssumption DEF Init, Typed
<1>3. \A p \in Process : Shape(proc[p])
  BY DEF Init, Shape, Down
<1>4. QED
  BY <1>2, <1>3 DEF TypeInv

-----------------------------------------------------------------------------
(* A process's steps *)

\* What a step does to its process, and to no other.
Moved(p, op, stage, why, phase, target, data) ==
  /\ proc' \in [Process -> Proc]
  /\ proc'[p] = [op |-> op, stage |-> stage, why |-> why, phase |-> phase,
                 target |-> target, data |-> data]
  /\ \A q \in Process \ {p} : proc'[q] = proc[q]

\* Going on to an operation, with what was read or without.
LEMMA GoMoves ==
  ASSUME proc \in [Process -> Proc], NEW p \in Process, NEW op \in Op, NEW stage \in Stage
  PROVE  /\ Go(p, op, stage) =>
              Moved(p, op, stage, proc[p].why, proc[p].phase, proc[p].target, proc[p].data)
         /\ \A d \in Content \cup Snapshot :
              GoWith(p, op, stage, d) =>
                Moved(p, op, stage, proc[p].why, proc[p].phase, proc[p].target, d)
<1>1. proc[p] \in Proc
  OBVIOUS
<1>2. ASSUME Go(p, op, stage)
      PROVE  Moved(p, op, stage, proc[p].why, proc[p].phase, proc[p].target, proc[p].data)
  BY <1>1, <1>2 DEF Go, Moved, Proc
<1>3. ASSUME NEW d \in Content \cup Snapshot, GoWith(p, op, stage, d)
      PROVE  Moved(p, op, stage, proc[p].why, proc[p].phase, proc[p].target, d)
  BY <1>1, <1>3 DEF GoWith, Moved, Proc
<1>4. QED
  BY <1>2, <1>3

\* Where rollback() leads.
LEMMA ReturnMoves ==
  ASSUME proc \in [Process -> Proc], NEW p \in Process, Returned(p), proc[p].why # "none",
         proc[p].stage = "read"
  PROVE  /\ proc[p].why = "recover" =>
              Moved(p, "log", "read", "recover", proc[p].target, proc[p].target, proc[p].data)
         /\ proc[p].why = "failed" =>
              Moved(p, "idle", "read", "failed", proc[p].phase, proc[p].target, proc[p].data)
         /\ proc[p].why = "revert" =>
              Moved(p, "down", "read", "revert", proc[p].phase, proc[p].target, proc[p].data)
<1>1. proc[p] \in Proc
  OBVIOUS
<1>2. CASE proc[p].why = "recover"
  BY <1>1, <1>2 DEF Returned, Moved, Proc, Op, Stage
<1>3. CASE proc[p].why = "failed"
  BY <1>1, <1>3, GoMoves DEF Returned, Op, Stage
<1>4. CASE proc[p].why = "revert"
  BY <1>1, <1>4, GoMoves DEF Returned, Op, Stage
<1>5. QED
  BY <1>1, <1>2, <1>3, <1>4 DEF Proc

\* Where an operation that raises leads.
LEMMA RaiseMoves ==
  ASSUME proc \in [Process -> Proc], NEW p \in Process, Raised(p)
  PROVE  /\ proc[p].why = "recover" =>
              Moved(p, "dead", "read", "recover", proc[p].phase, proc[p].target, proc[p].data)
         /\ proc[p].why = "failed" =>
              Moved(p, "idle", "read", "failed", proc[p].phase, proc[p].target, proc[p].data)
         /\ proc[p].why = "revert" =>
              Moved(p, "down", "read", "revert", proc[p].phase, proc[p].target, proc[p].data)
         /\ proc[p].why = "none" /\ proc[p].op = "snapshot" =>
              Moved(p, "idle", "read", "none", proc[p].phase, proc[p].target, proc[p].data)
         /\ proc[p].why = "none" /\ proc[p].op # "snapshot" =>
              Moved(p, "restore", "read", "failed", proc[p].phase, proc[p].target,
                    proc[p].data)
<1>1. proc[p] \in Proc
  OBVIOUS
<1>2. CASE proc[p].why = "recover"
  BY <1>1, <1>2, GoMoves DEF Raised, Op, Stage
<1>3. CASE proc[p].why = "failed"
  BY <1>1, <1>3, GoMoves DEF Raised, Op, Stage
<1>4. CASE proc[p].why = "revert"
  BY <1>1, <1>4, GoMoves DEF Raised, Op, Stage
<1>5. CASE proc[p].why = "none" /\ proc[p].op = "snapshot"
  BY <1>1, <1>5, GoMoves DEF Raised, Op, Stage
<1>6. CASE proc[p].why = "none" /\ proc[p].op # "snapshot"
  BY <1>1, <1>6 DEF Raised, Moved, Proc, Op, Stage
<1>7. QED
  BY <1>1, <1>2, <1>3, <1>4, <1>5, <1>6 DEF Proc

-----------------------------------------------------------------------------
(* Every step keeps the types *)

\* A step that moves one process to a state of the right shape, and leaves the
\* rest of the right types.
LEMMA MovedTyped ==
  ASSUME TypeInv, NEW p \in Process, UNCHANGED installed,
         config' \in Content \cup {Missing}, snap' \in Snapshot \cup {Missing, Empty},
         infra' = infra, kills' \in 0..MaxKills, faults' \in 0..MaxFaults,
         NEW op, NEW stage, NEW why, NEW phase, NEW target, NEW data,
         Moved(p, op, stage, why, phase, target, data),
         Shape([op |-> op, stage |-> stage, why |-> why, phase |-> phase,
                target |-> target, data |-> data])
  PROVE  TypeInv'
<1>1. Typed'
  BY DEF TypeInv, Typed, Moved
<1>2. ASSUME NEW q \in Process PROVE Shape(proc'[q])
  BY DEF TypeInv, Moved
<1>3. QED
  BY <1>1, <1>2 DEF TypeInv, Shape

\* What discovery, the start-up and the probe lead to.
LEMMA StartMoves ==
  ASSUME TypeInv, NEW p \in Process
  PROVE  /\ Discover(p) => Moved(p, "down", "open", "none", PhaseOf(config), 1, Empty)
         /\ StartUp(p) /\ NeedsRecovery =>
              Moved(p, "recover", "read", "recover", proc[p].phase, proc[p].target,
                    proc[p].data)
         /\ StartUp(p) /\ ~NeedsRecovery =>
              Moved(p, "idle", "read", proc[p].why, proc[p].phase, proc[p].target,
                    proc[p].data)
         /\ Recover(p) /\ Whole(snap) =>
              Moved(p, "restore", "read", proc[p].why, proc[p].phase, snap.from,
                    proc[p].data)
         /\ Recover(p) /\ ~Whole(snap) =>
              Moved(p, "dead", "read", proc[p].why, proc[p].phase, proc[p].target,
                    proc[p].data)
         /\ Probe(p) => Moved(p, "snapshot", "read", "none", proc[p].phase,
                              Detected(infra), proc[p].data)
         /\ Revert(p) => Moved(p, "restore", "read", "revert", proc[p].phase,
                               proc[p].target, proc[p].data)
<1>1. /\ proc \in [Process -> Proc] /\ proc[p] \in Proc
      /\ config \in Content \cup {Missing} /\ infra \in [bus : BOOLEAN, paths : 0..2]
  BY DEF TypeInv, Typed
<1>2. ASSUME Discover(p)
      PROVE  Moved(p, "down", "open", "none", PhaseOf(config), 1, Empty)
  <2> DEFINE y == [Down EXCEPT !.op = "down", !.stage = "open", !.phase = PhaseOf(config)]
  <2>1. /\ y.op = "down" /\ y.stage = "open" /\ y.why = "none"
        /\ y.phase = PhaseOf(config) /\ y.target = 1 /\ y.data = Empty
    BY DEF Down
  <2>2. y \in Proc
    <3>1. Down \in Proc
      BY EmptyFacts DEF Down, Proc, Op, Stage
    <3>2. "down" \in Op /\ "open" \in Stage /\ PhaseOf(config) \in 1..3
      BY <1>1, PhaseType DEF Op, Stage
    <3>3. QED
      BY <3>1, <3>2 DEF Proc
  <2>3. proc' = [proc EXCEPT ![p] = y]
    BY <1>2 DEF Discover
  <2> HIDE DEF y
  <2>4. y = [op |-> y.op, stage |-> y.stage, why |-> y.why, phase |-> y.phase,
             target |-> y.target, data |-> y.data]
    BY <2>2, ProcFields
  <2>5. QED
    BY <1>1, <2>1, <2>2, <2>3, <2>4 DEF Moved
<1>3. ASSUME StartUp(p), NeedsRecovery
      PROVE  Moved(p, "recover", "read", "recover", proc[p].phase, proc[p].target,
                   proc[p].data)
  BY <1>1, <1>3 DEF StartUp, Moved, Proc, Op, Stage
<1>4. ASSUME StartUp(p), ~NeedsRecovery
      PROVE  Moved(p, "idle", "read", proc[p].why, proc[p].phase, proc[p].target,
                   proc[p].data)
  BY <1>1, <1>4, GoMoves DEF StartUp, Op, Stage
<1>5. ASSUME Recover(p), Whole(snap)
      PROVE  Moved(p, "restore", "read", proc[p].why, proc[p].phase, snap.from,
                   proc[p].data)
  <2>1. snap.from \in 1..3
    BY <1>5, WholeSnapshot DEF TypeInv, Snapshot
  <2>2. QED
    BY <1>1, <1>5, <2>1 DEF Recover, At, Moved, Proc, Op, Stage
<1>6. ASSUME Recover(p), ~Whole(snap)
      PROVE  Moved(p, "dead", "read", proc[p].why, proc[p].phase, proc[p].target,
                   proc[p].data)
  BY <1>1, <1>6, GoMoves DEF Recover, Op, Stage
<1>7. ASSUME Probe(p)
      PROVE  Moved(p, "snapshot", "read", "none", proc[p].phase, Detected(infra),
                   proc[p].data)
  <2>1. Detected(infra) \in 1..3
    BY <1>1 DEF Detected
  <2>2. QED
    BY <1>1, <1>7, <2>1 DEF Probe, At, Moved, Proc, Op, Stage
<1>8. ASSUME Revert(p)
      PROVE  Moved(p, "restore", "read", "revert", proc[p].phase, proc[p].target,
                   proc[p].data)
  BY <1>1, <1>8 DEF Revert, At, Moved, Proc, Op, Stage
<1>9. QED
  BY <1>2, <1>3, <1>4, <1>5, <1>6, <1>7, <1>8

\* What reading leads to, other than a return or a raise.
LEMMA ReadMoves ==
  ASSUME TypeInv, NEW p \in Process
  PROVE  /\ ReadConfig(p) =>
              Moved(p, proc[p].op, "open", proc[p].why, proc[p].phase, proc[p].target,
                    Text(config))
         /\ ReadCommit(p) /\ Whole(snap) =>
              Moved(p, "commit", "open", proc[p].why, proc[p].phase, proc[p].target, snap)
         /\ ReadCommit(p) /\ snap = Missing =>
              Moved(p, "log", "read", proc[p].why, proc[p].target, proc[p].target,
                    proc[p].data)
         /\ ReadCommit(p) /\ snap = Empty => Raised(p)
         /\ ReadRestore(p) /\ Whole(snap) /\ snap.backup # Empty =>
              Moved(p, "restore", "open", proc[p].why, proc[p].phase, proc[p].target, snap)
         /\ ReadRestore(p) /\ Whole(snap) /\ snap.backup = Empty =>
              Moved(p, "unlink", "read", proc[p].why, proc[p].phase, proc[p].target,
                    proc[p].data)
         /\ ReadRestore(p) /\ snap = Missing => Returned(p)
         /\ ReadRestore(p) /\ snap = Empty => Raised(p)
<1>1. /\ proc \in [Process -> Proc] /\ proc[p] \in Proc /\ proc[p].op \in Op
      /\ config \in Content \cup {Missing}
  BY DEF TypeInv, Typed, Proc
<1>2. /\ Whole(snap) => snap \in Snapshot
      /\ snap = Missing => ~Whole(snap) /\ snap # Empty
      /\ snap = Empty => ~Whole(snap) /\ snap # Missing
  BY EmptyFacts, WholeSnapshot DEF TypeInv, Whole
<1>3. ASSUME ReadConfig(p)
      PROVE  Moved(p, proc[p].op, "open", proc[p].why, proc[p].phase, proc[p].target,
                   Text(config))
  <2>1. Text(config) \in Content \cup Snapshot
    BY <1>1, PhaseType
  <2>2. QED
    BY <1>1, <1>3, <2>1, GoMoves DEF ReadConfig, Stage
<1>4. ASSUME ReadCommit(p), Whole(snap)
      PROVE  Moved(p, "commit", "open", proc[p].why, proc[p].phase, proc[p].target, snap)
  BY <1>1, <1>2, <1>4, GoMoves DEF ReadCommit, Op, Stage
<1>5. ASSUME ReadCommit(p), snap = Missing
      PROVE  Moved(p, "log", "read", proc[p].why, proc[p].target, proc[p].target,
                   proc[p].data)
  BY <1>1, <1>2, <1>5 DEF ReadCommit, At, Moved, Proc, Op, Stage
<1>6. ReadCommit(p) /\ snap = Empty => Raised(p)
  BY <1>2 DEF ReadCommit
<1>7. ASSUME ReadRestore(p), Whole(snap), snap.backup # Empty
      PROVE  Moved(p, "restore", "open", proc[p].why, proc[p].phase, proc[p].target, snap)
  BY <1>1, <1>2, <1>7, GoMoves DEF ReadRestore, Op, Stage
<1>8. ASSUME ReadRestore(p), Whole(snap), snap.backup = Empty
      PROVE  Moved(p, "unlink", "read", proc[p].why, proc[p].phase, proc[p].target,
                   proc[p].data)
  BY <1>1, <1>2, <1>8, GoMoves DEF ReadRestore, Op, Stage
<1>9. (ReadRestore(p) /\ snap = Missing => Returned(p))
      /\ (ReadRestore(p) /\ snap = Empty => Raised(p))
  BY <1>2 DEF ReadRestore
<1>10. QED
  BY <1>3, <1>4, <1>5, <1>6, <1>7, <1>8, <1>9

\* What a write leads to: each of its halves, the removal, the log.
LEMMA WriteMoves ==
  ASSUME TypeInv, NEW p \in Process
  PROVE  /\ Open(p) => Moved(p, proc[p].op, "write", proc[p].why, proc[p].phase,
                             proc[p].target, proc[p].data)
         /\ Write(p) /\ proc[p].op = "snapshot" =>
              /\ Moved(p, "apply", "read", proc[p].why, proc[p].phase, proc[p].target,
                       proc[p].data)
              /\ proc[p].data \in Content /\ snap' = Begun(p) /\ snap' \in Snapshot
              /\ config' = config
         /\ Write(p) /\ proc[p].op = "apply" =>
              /\ Moved(p, "commit", "read", proc[p].why, proc[p].phase, proc[p].target,
                       proc[p].data)
              /\ proc[p].data \in Content /\ config' = NewConfig(p) /\ config' \in Content
              /\ snap' = snap
         /\ Write(p) /\ proc[p].op = "commit" =>
              /\ Moved(p, "log", "read", proc[p].why, proc[p].target, proc[p].target,
                       proc[p].data)
              /\ proc[p].data \in Snapshot /\ config' = config
              /\ snap' = [proc[p].data EXCEPT !.status = "committed"] /\ snap' \in Snapshot
         /\ Write(p) /\ proc[p].op = "restore" =>
              /\ Moved(p, "unlink", "read", proc[p].why, proc[p].phase, proc[p].target,
                       proc[p].data)
              /\ proc[p].data \in Snapshot /\ config' = proc[p].data.backup
              /\ config' \in Content /\ snap' = snap
         /\ Write(p) => proc[p].op \in {"snapshot", "apply", "commit", "restore"}
         /\ Log(p) => Moved(p, "idle", "read", proc[p].why, proc[p].phase, proc[p].target,
                            proc[p].data)
<1>1. /\ proc \in [Process -> Proc] /\ proc[p] \in Proc /\ proc[p].op \in Op
      /\ proc[p].stage \in Stage /\ Shape(proc[p])
      /\ proc[p].phase \in 1..3 /\ proc[p].target \in 1..3
  BY DEF TypeInv, Typed, Proc
<1>2. ASSUME Open(p)
      PROVE  Moved(p, proc[p].op, "write", proc[p].why, proc[p].phase, proc[p].target,
                   proc[p].data)
  BY <1>1, <1>2, GoMoves DEF Open, Stage
<1>3. ASSUME Write(p), proc[p].op = "snapshot"
      PROVE  /\ Moved(p, "apply", "read", proc[p].why, proc[p].phase, proc[p].target,
                      proc[p].data)
             /\ proc[p].data \in Content /\ snap' = Begun(p) /\ snap' \in Snapshot
             /\ config' = config
  <2>1. proc[p].data \in Content
    BY <1>1, <1>3 DEF Write, Shape
  <2>2. Go(p, "apply", "read") /\ snap' = Begun(p) /\ config' = config
    BY <1>3 DEF Write
  <2>3. snap' \in Snapshot
    BY <1>1, <2>1, <2>2 DEF Begun, Snapshot
  <2>4. QED
    BY <1>1, <2>1, <2>2, <2>3, GoMoves DEF Op, Stage
<1>4. ASSUME Write(p), proc[p].op = "apply"
      PROVE  /\ Moved(p, "commit", "read", proc[p].why, proc[p].phase, proc[p].target,
                      proc[p].data)
             /\ proc[p].data \in Content /\ config' = NewConfig(p) /\ config' \in Content
             /\ snap' = snap
  <2>1. proc[p].data \in Content
    BY <1>1, <1>4 DEF Write, Shape
  <2>2. Go(p, "commit", "read") /\ config' = NewConfig(p) /\ snap' = snap
    BY <1>4 DEF Write
  <2>3. config' \in Content
    BY <1>1, <2>1, <2>2 DEF NewConfig, Content
  <2>4. QED
    BY <1>1, <2>1, <2>2, <2>3, GoMoves DEF Op, Stage
<1>5. ASSUME Write(p), proc[p].op = "commit"
      PROVE  /\ Moved(p, "log", "read", proc[p].why, proc[p].target, proc[p].target,
                      proc[p].data)
             /\ proc[p].data \in Snapshot /\ config' = config
             /\ snap' = [proc[p].data EXCEPT !.status = "committed"] /\ snap' \in Snapshot
  <2>1. proc[p].data \in Snapshot
    BY <1>1, <1>5 DEF Write, Shape
  <2>2. /\ snap' = [proc[p].data EXCEPT !.status = "committed"] /\ config' = config
        /\ proc' = [proc EXCEPT ![p].op = "log", ![p].stage = "read",
                                ![p].phase = proc[p].target]
    BY <1>5 DEF Write
  <2>3. snap' \in Snapshot
    BY <2>1, <2>2 DEF Snapshot
  <2>4. Moved(p, "log", "read", proc[p].why, proc[p].target, proc[p].target, proc[p].data)
    BY <1>1, <2>2 DEF Moved, Proc, Op, Stage
  <2>5. QED
    BY <2>1, <2>2, <2>3, <2>4
<1>6. ASSUME Write(p), proc[p].op = "restore"
      PROVE  /\ Moved(p, "unlink", "read", proc[p].why, proc[p].phase, proc[p].target,
                      proc[p].data)
             /\ proc[p].data \in Snapshot /\ config' = proc[p].data.backup
             /\ config' \in Content /\ snap' = snap
  <2>1. proc[p].data \in Snapshot
    BY <1>1, <1>6 DEF Write, Shape
  <2>2. Go(p, "unlink", "read") /\ config' = proc[p].data.backup /\ snap' = snap
    BY <1>6 DEF Write
  <2>3. config' \in Content
    BY <2>1, <2>2 DEF Snapshot
  <2>4. QED
    BY <1>1, <2>1, <2>2, <2>3, GoMoves DEF Op, Stage
<1>7. Write(p) => proc[p].op \in {"snapshot", "apply", "commit", "restore"}
  BY <1>1 DEF Write, Shape
<1>8. ASSUME Log(p)
      PROVE  Moved(p, "idle", "read", proc[p].why, proc[p].phase, proc[p].target,
                   proc[p].data)
  BY <1>1, <1>8, GoMoves DEF Log, Op, Stage
<1>9. QED
  BY <1>2, <1>3, <1>4, <1>5, <1>6, <1>7, <1>8

\* A kill.
LEMMA KillMoves ==
  ASSUME TypeInv, NEW p \in Process, Kill(p)
  PROVE  Moved(p, "down", "read", "none", 1, 1, Empty)
<1>1. Down \in Proc
  BY EmptyFacts DEF Down, Proc, Op, Stage
<1>2. proc \in [Process -> Proc] /\ proc' = [proc EXCEPT ![p] = Down]
  BY DEF TypeInv, Typed, Kill
<1>3. QED
  BY <1>1, <1>2 DEF Moved, Down

\* The files, and the bounds, are what a step leaves them.
LEMMA FilesTyped ==
  ASSUME TypeInv
  PROVE  /\ UNCHANGED Files => /\ config' \in Content \cup {Missing}
                               /\ snap' \in Snapshot \cup {Missing, Empty}
         /\ UNCHANGED Rest => /\ infra' = infra /\ kills' \in 0..MaxKills
                              /\ faults' \in 0..MaxFaults
  BY DEF TypeInv, Typed, Files, Rest

\* The decisions.
LEMMA DecisionTyped ==
  ASSUME TypeInv, NEW p \in Process, UNCHANGED installed,
         Discover(p) \/ StartUp(p) \/ Recover(p) \/ Probe(p) \/ Revert(p)
  PROVE  TypeInv'
<1>1. UNCHANGED Files /\ UNCHANGED Rest /\ Shape(proc[p])
  BY DEF Discover, StartUp, Recover, Probe, Revert, TypeInv
<1>2. CASE Discover(p)
  BY <1>1, <1>2, StartMoves, FilesTyped, MovedTyped DEF Shape
<1>3. CASE StartUp(p)
  BY <1>1, <1>3, StartMoves, FilesTyped, MovedTyped DEF Shape
<1>4. CASE Recover(p)
  BY <1>1, <1>4, StartMoves, FilesTyped, MovedTyped DEF Shape, Recover, At
<1>5. CASE Probe(p)
  BY <1>1, <1>5, StartMoves, FilesTyped, MovedTyped DEF Shape
<1>6. CASE Revert(p)
  BY <1>1, <1>6, StartMoves, FilesTyped, MovedTyped DEF Shape
<1>7. QED
  BY <1>2, <1>3, <1>4, <1>5, <1>6

\* What follows a return or a raise has the right shape.
LEMMA EndTyped ==
  ASSUME TypeInv, NEW p \in Process, UNCHANGED installed,
         config' \in Content \cup {Missing}, snap' \in Snapshot \cup {Missing, Empty},
         infra' = infra, kills' \in 0..MaxKills, faults' \in 0..MaxFaults,
         \/ Returned(p) /\ proc[p].why # "none" /\ proc[p].stage = "read"
         \/ Raised(p)
  PROVE  TypeInv'
<1>1. proc \in [Process -> Proc] /\ proc[p] \in Proc
  BY DEF TypeInv, Typed
<1>2. CASE Returned(p) /\ proc[p].why # "none" /\ proc[p].stage = "read"
  BY <1>1, <1>2, ReturnMoves, MovedTyped DEF Shape, Proc
<1>3. CASE Raised(p)
  BY <1>1, <1>3, RaiseMoves, MovedTyped DEF Shape, Proc
<1>4. QED
  BY <1>2, <1>3

\* Reading.
LEMMA ReadTyped ==
  ASSUME TypeInv, NEW p \in Process, UNCHANGED installed,
         ReadConfig(p) \/ ReadCommit(p) \/ ReadRestore(p)
  PROVE  TypeInv'
<1>1. UNCHANGED Files /\ UNCHANGED Rest /\ Shape(proc[p])
      /\ Text(config) \in Content
  BY PhaseType DEF ReadConfig, ReadCommit, ReadRestore, TypeInv, Typed
<1>2. \/ Whole(snap) /\ snap \in Snapshot
      \/ snap = Missing
      \/ snap = Empty
  BY WholeSnapshot DEF TypeInv, Whole
<1>3. CASE ReadConfig(p)
  BY <1>1, <1>3, ReadMoves, FilesTyped, MovedTyped DEF Shape, ReadConfig
<1>4. CASE ReadCommit(p)
  <2>1. proc[p].op = "commit" /\ proc[p].why = "none"
    BY <1>1, <1>4 DEF ReadCommit, At, Shape
  <2>2. CASE Whole(snap) /\ snap \in Snapshot
    BY <1>1, <1>4, <2>1, <2>2, ReadMoves, FilesTyped, MovedTyped DEF Shape
  <2>3. CASE snap = Missing
    BY <1>1, <1>4, <2>1, <2>3, ReadMoves, FilesTyped, MovedTyped DEF Shape
  <2>4. CASE snap = Empty
    BY <1>1, <1>4, <2>4, ReadMoves, FilesTyped, EndTyped
  <2>5. QED
    BY <1>2, <2>2, <2>3, <2>4
<1>5. CASE ReadRestore(p)
  <2>1. proc[p].op = "restore" /\ proc[p].stage = "read" /\ proc[p].why # "none"
    BY <1>1, <1>5 DEF ReadRestore, At, Shape
  <2>2. CASE Whole(snap) /\ snap \in Snapshot
    BY <1>1, <1>5, <2>1, <2>2, ReadMoves, FilesTyped, MovedTyped DEF Shape
  <2>3. CASE snap = Missing
    BY <1>1, <1>5, <2>1, <2>3, ReadMoves, FilesTyped, EndTyped
  <2>4. CASE snap = Empty
    BY <1>1, <1>5, <2>4, ReadMoves, FilesTyped, EndTyped
  <2>5. QED
    BY <1>2, <2>2, <2>3, <2>4
<1>6. QED
  BY <1>3, <1>4, <1>5

\* Writing.
LEMMA WriteTyped ==
  ASSUME TypeInv, NEW p \in Process, UNCHANGED installed,
         Open(p) \/ Write(p) \/ Unlink(p) \/ Log(p)
  PROVE  TypeInv'
<1>1. /\ UNCHANGED Rest /\ Shape(proc[p])
      /\ config \in Content \cup {Missing} /\ snap \in Snapshot \cup {Missing, Empty}
  BY DEF Open, Write, Unlink, Log, TypeInv, Typed
<1>2. CASE Open(p)
  <2>1. /\ config' \in Content \cup {Missing} /\ snap' \in Snapshot \cup {Missing, Empty}
        /\ proc[p].op \in {"snapshot", "apply", "commit", "restore"}
        /\ proc[p].stage # "read"
    BY <1>1, <1>2, EmptyFacts DEF Open
  <2>2. Shape([op |-> proc[p].op, stage |-> "write", why |-> proc[p].why,
               phase |-> proc[p].phase, target |-> proc[p].target,
               data |-> proc[p].data])
    BY <1>1, <2>1 DEF Shape
  <2>3. QED
    BY <1>1, <1>2, <2>1, <2>2, WriteMoves, FilesTyped, MovedTyped
<1>3. CASE Write(p)
  <2>1. CASE proc[p].op = "snapshot"
    BY <1>1, <1>3, <2>1, WriteMoves, FilesTyped, MovedTyped DEF Shape
  <2>2. CASE proc[p].op = "apply"
    BY <1>1, <1>3, <2>2, WriteMoves, FilesTyped, MovedTyped DEF Shape
  <2>3. CASE proc[p].op = "commit"
    BY <1>1, <1>3, <2>3, WriteMoves, FilesTyped, MovedTyped DEF Shape
  <2>4. CASE proc[p].op = "restore"
    BY <1>1, <1>3, <2>4, WriteMoves, FilesTyped, MovedTyped DEF Shape
  <2>5. QED
    BY <1>3, <2>1, <2>2, <2>3, <2>4, WriteMoves
<1>4. CASE Unlink(p)
  <2>1. /\ Returned(p) /\ proc[p].stage = "read" /\ proc[p].why # "none"
        /\ config' = config /\ snap' = Missing
    BY <1>1, <1>4 DEF Unlink, At, Shape
  <2>2. QED
    BY <1>1, <2>1, FilesTyped, EndTyped
<1>5. CASE Log(p)
  <2>1. UNCHANGED Files
    BY <1>5 DEF Log
  <2>2. QED
    BY <1>1, <1>5, <2>1, WriteMoves, FilesTyped, MovedTyped DEF Shape
<1>6. QED
  BY <1>2, <1>3, <1>4, <1>5

\* Faults, kills, and the infrastructure.
LEMMA StrokeTyped ==
  ASSUME TypeInv, NEW p \in Process, UNCHANGED installed,
         Fault(p) \/ Kill(p) \/ Change
  PROVE  TypeInv'
<1>1. UNCHANGED Files
  BY DEF Fault, Kill, Change
<1>2. CASE Fault(p)
  <2>1. Raised(p) /\ infra' = infra /\ kills' \in 0..MaxKills /\ faults' \in 0..MaxFaults
    BY <1>2, BoundAssumption DEF Fault, TypeInv, Typed
  <2>2. QED
    BY <1>1, <2>1, FilesTyped, EndTyped
<1>3. CASE Kill(p)
  <2>1. infra' = infra /\ kills' \in 0..MaxKills /\ faults' \in 0..MaxFaults
    BY <1>3, BoundAssumption DEF Kill, TypeInv, Typed
  <2>2. QED
    BY <1>1, <1>3, <2>1, KillMoves, FilesTyped, MovedTyped DEF Shape
<1>4. CASE Change
  <2>1. Typed' /\ proc' = proc
    BY <1>1, <1>4 DEF Change, TypeInv, Typed, Files
  <2>2. QED
    BY <2>1 DEF TypeInv, Shape
<1>5. QED
  BY <1>2, <1>3, <1>4

\* Every step.
LEMMA StepTyped == TypeInv /\ [Next]_vars => TypeInv'
<1> SUFFICES ASSUME TypeInv, [Next]_vars PROVE TypeInv'
  OBVIOUS
<1>1. CASE UNCHANGED vars
  BY <1>1 DEF vars, TypeInv, Typed, Shape
<1>2. CASE Next
  <2>1. UNCHANGED installed
    BY <1>2 DEF Next
  <2>2. CASE Change
    <3>1. Typed' /\ proc' = proc
      BY <2>1, <2>2 DEF Change, TypeInv, Typed, Files
    <3>2. QED
      BY <3>1 DEF TypeInv, Shape
  <2>3. ASSUME NEW p \in Process, Work(p) \/ Revert(p) \/ Fault(p) \/ Kill(p)
        PROVE  TypeInv'
    BY <2>1, <2>3, DecisionTyped, ReadTyped, WriteTyped, StrokeTyped DEF Work
  <2>4. QED
    BY <1>2, <2>2, <2>3 DEF Next
<1>3. QED
  BY <1>1, <1>2

\* Every value has its type, whatever the constants, under kills and faults.
THEOREM UpgradeTypes == Spec => []TypeOK
<1>1. TypeInv => TypeOK
  BY DEF TypeInv, Typed, TypeOK, Proc, Stage
<1>2. QED
  BY InitTyped, StepTyped, <1>1, PTL DEF Spec

-----------------------------------------------------------------------------
(* One process at a time *)

\* Every process but one is at rest.
Calm(p) == \A q \in Process \ {p} : proc[q].op = "down" /\ proc[q].stage = "read"

\* Whatever steps, a server or a doctor, steps alone.
LEMMA Lone ==
  ASSUME OneEach, TypeInv, Roles, NEW p \in Process,
         Work(p) \/ Revert(p) \/ Fault(p) \/ Kill(p)
  PROVE  Calm(p) /\ (p \in Doctor => \A q \in Server : proc[q] = Down)
<1>1. proc[p] \in Proc /\ Shape(proc[p])
  BY DEF TypeInv, Typed
<1>2. /\ Down.op = "down" /\ Down.stage = "read"
      /\ p \in Server => \A q \in Process \ {p} : q \in Doctor
      /\ p \in Doctor => \A q \in Process \ {p} : q \in Server
  BY DEF OneEach, Process, Down
<1>3. CASE p \in Server
  <2>1. CASE Discover(p)
    BY <1>2, <1>3, <2>1 DEF Discover, Calm, OneEach, Roles
  <2>2. CASE Revert(p)
    BY <1>3, <2>2 DEF Revert, OneEach
  <2>3. CASE ~Discover(p) /\ ~Revert(p)
    <3>1. proc[p].op # "down" \/ proc[p].stage # "read"
      BY <2>3 DEF Work, StartUp, Recover, Probe, ReadConfig, ReadCommit, ReadRestore,
                  Open, Write, Unlink, Log, Fault, Kill, At
    <3>2. \A d \in Doctor : proc[d].op = "down" /\ proc[d].stage = "read"
      BY <1>2, <1>3, <3>1 DEF Roles
    <3>3. QED
      BY <1>2, <1>3, <3>2 DEF Calm, OneEach
  <2>4. QED
    BY <2>1, <2>2, <2>3
<1>4. CASE p \in Doctor
  <2>1. \A q \in Server : proc[q] = Down
    <3>1. CASE Revert(p)
      BY <3>1 DEF Revert, OneEach
    <3>2. CASE ~Revert(p)
      <4>1. ~Discover(p) /\ ~StartUp(p)
        BY <1>4 DEF Discover, StartUp, At, OneEach, Roles
      <4>2. proc[p].op # "down"
        BY <1>1, <3>2, <4>1 DEF Work, Recover, Probe, ReadConfig, ReadCommit, ReadRestore,
                                Open, Write, Unlink, Log, Fault, Kill, At, Shape
      <4>3. QED
        BY <1>4, <4>2 DEF Roles
    <3>3. QED
      BY <3>1, <3>2
  <2>2. QED
    BY <1>2, <1>4, <2>1 DEF Calm
<1>5. QED
  BY <1>3, <1>4 DEF Process

\* All processes are down when this one is.
LEMMA Rests ==
  ASSUME NEW p \in Process, Calm(p), NEW op, NEW stage, NEW why, NEW phase, NEW target,
         NEW data, Moved(p, op, stage, why, phase, target, data)
  PROVE  (AllDown <=> proc[p].op = "down") /\ (AllDown' <=> op = "down")
<1>1. AllDown <=> proc[p].op = "down"
  BY DEF AllDown, Calm
<1>2. AllDown' <=> op = "down"
  BY DEF AllDown, Calm, Moved
<1>3. QED
  BY <1>1, <1>2

\* Only this process moves, and it keeps to its role.
Alone(p) ==
  /\ \A q \in Process \ {p} : proc'[q] = proc[q]
  /\ p \in Server => proc'[p].why # "revert"
  /\ p \in Doctor => /\ proc'[p].op \in {"down", "restore", "unlink"}
                     /\ proc'[p].op = "down" => proc'[p].stage = "read"
                     /\ proc'[p].op # "down" => proc'[p].why = "revert"

\* The moved process, and the files, are all that has to be looked at.
LEMMA OthersKept ==
  ASSUME TypeInv', OneEach, Roles, NEW p \in Process, Calm(p), Good(p)', GoodFiles',
         p \in Doctor => \A q \in Server : proc[q] = Down,
         \A q \in Process : Good(q), UNCHANGED installed,
         kills' = kills \/ kills' # 0, faults' = faults \/ faults' # 0,
         Alone(p)
  PROVE  IInv'
<1>1. Roles'
  BY DEF Roles, Alone, Calm, OneEach, Process
<1>2. ASSUME NEW q \in Process, q # p
      PROVE  Good(q)'
  <2>1. proc'[q] = proc[q] /\ proc[q].op = "down" /\ proc[q].stage = "read" /\ Good(q)
    BY <1>2 DEF Alone, Calm
  <2>2. Sure(proc[q])'
    BY <2>1 DEF Good, Sure
  <2>3. Safe(proc[q])' /\ Agreed(proc[q])'
    BY <2>1 DEF Safe, Agreed
  <2>4. QED
    BY <2>2, <2>3 DEF Good
<1>3. QED
  BY <1>1, <1>2 DEF IInv

-----------------------------------------------------------------------------
(* Every step keeps the invariant *)

\* The decisions, but for doctor --revert.
LEMMA DecisionGood ==
  ASSUME IInv, TypeInv', NEW p \in Process, Calm(p), UNCHANGED installed,
         Discover(p) \/ StartUp(p) \/ Recover(p) \/ Probe(p)
  PROVE  Good(p)' /\ GoodFiles'
<1>1. /\ config' = config /\ snap' = snap /\ infra' = infra /\ kills' = kills
      /\ faults' = faults /\ installed' = installed
  BY DEF Discover, StartUp, Recover, Probe, Files, Rest
<1>2. TypeInv /\ Good(p) /\ GoodFiles /\ Shape(proc[p])
  BY DEF IInv, TypeInv
<1>3. CASE Discover(p)
  <2>1. Moved(p, "down", "open", "none", PhaseOf(config), 1, Empty)
    BY <1>2, <1>3, StartMoves
  <2>2. proc[p].op = "down" /\ AllDown /\ AllDown'
    BY <1>3, <2>1, Rests DEF Discover, At
  <2>3. GoodFiles'
    BY <1>1, <1>2, <2>2
       DEF GoodFiles, SafeFiles, Spared, Steady, Whole, NeedsRecovery, PhaseOf
  <2>4. Good(p)'
    BY <1>1, <1>2, <2>1
       DEF Moved, Good, Sure, Safe, Agreed, Spared, Steady, Whole, NeedsRecovery, PhaseOf
  <2>5. QED
    BY <2>3, <2>4
<1>4. CASE StartUp(p) /\ NeedsRecovery
  <2>1. Moved(p, "recover", "read", "recover", proc[p].phase, proc[p].target, proc[p].data)
    BY <1>2, <1>4, StartMoves
  <2>2. proc[p].op = "down" /\ AllDown /\ ~AllDown'
    BY <1>4, <2>1, Rests DEF StartUp, At
  <2>3. GoodFiles'
    BY <1>1, <1>2, <2>2
       DEF GoodFiles, SafeFiles, Spared, Steady, Whole, NeedsRecovery, PhaseOf
  <2>4. kills # 0
    BY <1>2, <1>4, <2>2 DEF GoodFiles, NeedsRecovery, Whole
  <2>5. Good(p)'
    BY <1>1, <1>2, <1>4, <2>1, <2>4
       DEF Moved, Good, Sure, Safe, Agreed, Spared, Steady, Whole, NeedsRecovery, PhaseOf
  <2>6. QED
    BY <2>3, <2>5
<1>5. CASE StartUp(p) /\ ~NeedsRecovery
  <2>1. Moved(p, "idle", "read", proc[p].why, proc[p].phase, proc[p].target, proc[p].data)
    BY <1>2, <1>5, StartMoves
  <2>2. /\ proc[p].op = "down" /\ proc[p].stage = "open" /\ AllDown /\ ~AllDown'
    BY <1>5, <2>1, Rests DEF StartUp, At
  <2>3. GoodFiles'
    BY <1>1, <1>2, <2>2
       DEF GoodFiles, SafeFiles, Spared, Steady, Whole, NeedsRecovery, PhaseOf
  <2>4. Good(p)'
    BY <1>1, <1>2, <1>5, <2>1, <2>2
       DEF Moved, Good, Sure, Safe, Agreed, Spared, Steady, Whole, NeedsRecovery, PhaseOf,
           GoodFiles, SafeFiles
  <2>5. QED
    BY <2>3, <2>4
<1>6. CASE Recover(p)
  <2>1. proc[p].op = "recover" /\ NeedsRecovery /\ Whole(snap) /\ proc[p].why = "recover"
    BY <1>2, <1>6 DEF Recover, At, Good, Sure, Shape, NeedsRecovery
  <2>2. Moved(p, "restore", "read", "recover", proc[p].phase, snap.from, proc[p].data)
    BY <1>2, <1>6, <2>1, StartMoves
  <2>3. ~AllDown /\ ~AllDown'
    BY <2>1, <2>2, Rests
  <2>4. GoodFiles'
    BY <1>1, <1>2, <2>3
       DEF GoodFiles, SafeFiles, Spared, Steady, Whole, NeedsRecovery, PhaseOf
  <2>5. Good(p)'
    BY <1>1, <1>2, <2>1, <2>2
       DEF Moved, Good, Sure, Safe, Agreed, Spared, Steady, Whole, NeedsRecovery, PhaseOf
  <2>6. QED
    BY <2>4, <2>5
<1>7. CASE Probe(p)
  <2>1. proc[p].op = "idle"
    BY <1>7 DEF Probe, At
  <2>2. Moved(p, "snapshot", "read", "none", proc[p].phase, Detected(infra), proc[p].data)
    BY <1>2, <1>7, StartMoves
  <2>3. ~AllDown /\ ~AllDown'
    BY <2>1, <2>2, Rests
  <2>4. GoodFiles'
    BY <1>1, <1>2, <2>3
       DEF GoodFiles, SafeFiles, Spared, Steady, Whole, NeedsRecovery, PhaseOf
  <2>5. Good(p)'
    BY <1>1, <1>2, <2>1, <2>2
       DEF Moved, Good, Sure, Safe, Agreed, Spared, Steady, Whole, NeedsRecovery, PhaseOf
  <2>6. QED
    BY <2>4, <2>5
<1>8. QED
  BY <1>3, <1>4, <1>5, <1>6, <1>7

\* doctor --revert begins.
LEMMA RevertGood ==
  ASSUME IInv, TypeInv', OneEach, NEW p \in Process, Calm(p), UNCHANGED installed, Revert(p)
  PROVE  Good(p)' /\ GoodFiles'
<1>1. /\ config' = config /\ snap' = snap /\ infra' = infra /\ kills' = kills
      /\ faults' = faults /\ installed' = installed
      /\ proc[p].op = "down" /\ Whole(snap) /\ snap.status = "committed"
  BY DEF Revert, Files, Rest, At
<1>2. TypeInv /\ Good(p) /\ GoodFiles /\ Shape(proc[p])
  BY DEF IInv, TypeInv
<1>3. Moved(p, "restore", "read", "revert", proc[p].phase, proc[p].target, proc[p].data)
  BY <1>2, StartMoves
<1>4. AllDown /\ ~AllDown' /\ ~NeedsRecovery
  BY <1>1, <1>3, Rests DEF NeedsRecovery
<1>5. GoodFiles'
  BY <1>1, <1>2, <1>4
     DEF GoodFiles, SafeFiles, Spared, Steady, Whole, NeedsRecovery, PhaseOf
<1>6. kills # 0
  BY <1>1, <1>2, <1>4 DEF GoodFiles, Whole
<1>7. Good(p)'
  BY <1>1, <1>2, <1>3, <1>4, <1>6
     DEF Moved, Good, Sure, Safe, Agreed, Spared, Steady, Whole, NeedsRecovery, PhaseOf,
         GoodFiles, SafeFiles
<1>8. QED
  BY <1>5, <1>7

\* Reading.
LEMMA ReadGood ==
  ASSUME IInv, TypeInv', NEW p \in Process, Calm(p), UNCHANGED installed,
         ReadConfig(p) \/ ReadCommit(p) \/ ReadRestore(p)
  PROVE  Good(p)' /\ GoodFiles'
<1>1. /\ config' = config /\ snap' = snap /\ infra' = infra /\ kills' = kills
      /\ faults' = faults /\ installed' = installed
  BY DEF ReadConfig, ReadCommit, ReadRestore, Files, Rest
<1>2. TypeInv /\ Good(p) /\ GoodFiles /\ Shape(proc[p])
  BY DEF IInv, TypeInv
<1>3. proc \in [Process -> Proc] /\ proc[p] \in Proc
  BY <1>2 DEF TypeInv, Typed
<1>4. CASE ReadConfig(p)
  <2>1. proc[p].op \in {"snapshot", "apply"} /\ proc[p].stage = "read"
    BY <1>4 DEF ReadConfig
  <2>2. Moved(p, proc[p].op, "open", proc[p].why, proc[p].phase, proc[p].target, Text(config))
    BY <1>2, <1>4, ReadMoves
  <2>3. ~AllDown /\ ~AllDown'
    BY <2>1, <2>2, Rests
  <2>4. GoodFiles'
    BY <1>1, <1>2, <2>3
       DEF GoodFiles, SafeFiles, Spared, Steady, Whole, NeedsRecovery, PhaseOf
  <2>5. installed => Text(config) = config
    BY <1>2 DEF GoodFiles, Text
  <2>6. Good(p)'
    BY <1>1, <1>2, <2>1, <2>2, <2>5
       DEF Moved, Good, Sure, Safe, Agreed, Spared, Steady, Whole, NeedsRecovery, PhaseOf, Text
  <2>7. QED
    BY <2>4, <2>6
<1>5. CASE ReadCommit(p)
  <2>1. proc[p].op = "commit" /\ proc[p].stage = "read" /\ NeedsRecovery /\ Whole(snap)
    BY <1>2, <1>5 DEF ReadCommit, At, Good, Sure, NeedsRecovery
  <2>2. Moved(p, "commit", "open", proc[p].why, proc[p].phase, proc[p].target, snap)
    BY <1>2, <1>5, <2>1, ReadMoves
  <2>3. ~AllDown /\ ~AllDown'
    BY <2>1, <2>2, Rests
  <2>4. GoodFiles'
    BY <1>1, <1>2, <2>3
       DEF GoodFiles, SafeFiles, Spared, Steady, Whole, NeedsRecovery, PhaseOf
  <2>5. Good(p)'
    BY <1>1, <1>2, <2>1, <2>2
       DEF Moved, Good, Sure, Safe, Agreed, Spared, Steady, Whole, NeedsRecovery, PhaseOf
  <2>6. QED
    BY <2>4, <2>5
<1>6. CASE ReadRestore(p)
  <2>1. proc[p].op = "restore" /\ proc[p].stage = "read" /\ proc[p].why # "none"
    BY <1>2, <1>6 DEF ReadRestore, At, Shape
  <2>2. CASE Whole(snap) /\ snap.backup # Empty
    <3>1. Moved(p, "restore", "open", proc[p].why, proc[p].phase, proc[p].target, snap)
      BY <1>2, <1>6, <2>2, ReadMoves
    <3>2. ~AllDown /\ ~AllDown'
      BY <2>1, <3>1, Rests
    <3>3. GoodFiles'
      BY <1>1, <1>2, <3>2
         DEF GoodFiles, SafeFiles, Spared, Steady, Whole, NeedsRecovery, PhaseOf
    <3>4. Good(p)'
      BY <1>1, <1>2, <2>1, <2>2, <3>1
         DEF Moved, Good, Sure, Safe, Agreed, Spared, Steady, Whole, NeedsRecovery, PhaseOf
    <3>5. QED
      BY <3>3, <3>4
  <2>3. CASE Whole(snap) /\ snap.backup = Empty
    <3>1. Moved(p, "unlink", "read", proc[p].why, proc[p].phase, proc[p].target, proc[p].data)
      BY <1>2, <1>6, <2>3, ReadMoves
    <3>2. ~AllDown /\ ~AllDown'
      BY <2>1, <3>1, Rests
    <3>3. GoodFiles'
      BY <1>1, <1>2, <3>2
         DEF GoodFiles, SafeFiles, Spared, Steady, Whole, NeedsRecovery, PhaseOf
    <3>4. ~Spared /\ (Steady => proc[p].why # "recover")
      <4>1. ~snap.backup.user
        BY <2>3 DEF Empty
      <4>2. ~Spared
        BY <1>2, <2>3, <4>1 DEF GoodFiles, SafeFiles
      <4>3. kills = 0 => proc[p].why # "recover"
        BY <1>2 DEF Good, Sure
      <4>4. QED
        BY <4>2, <4>3 DEF Spared, Steady
    <3>5. Good(p)'
      BY <1>1, <1>2, <2>1, <2>3, <3>1, <3>4
         DEF Moved, Good, Sure, Safe, Agreed, Spared, Steady, Whole, NeedsRecovery, PhaseOf
    <3>6. QED
      BY <3>3, <3>5
  <2>4. CASE snap = Missing \/ snap = Empty
    <3>1. ~Whole(snap) /\ proc[p].why = "failed" /\ faults # 0
      BY <1>2, <1>3, <2>1, <2>4 DEF Whole, Good, Sure, NeedsRecovery, Proc
    <3>2. Moved(p, "idle", "read", "failed", proc[p].phase, proc[p].target, proc[p].data)
      BY <1>2, <1>3, <1>6, <2>1, <2>4, <3>1, ReadMoves, ReturnMoves, RaiseMoves
    <3>3. ~AllDown /\ ~AllDown'
      BY <2>1, <3>2, Rests
    <3>4. GoodFiles'
      BY <1>1, <1>2, <3>3
         DEF GoodFiles, SafeFiles, Spared, Steady, Whole, NeedsRecovery, PhaseOf
    <3>5. Good(p)'
      BY <1>1, <1>2, <2>1, <3>1, <3>2
         DEF Moved, Good, Sure, Safe, Agreed, Spared, Steady, Whole, NeedsRecovery, PhaseOf,
             GoodFiles, SafeFiles
    <3>6. QED
      BY <3>4, <3>5
  <2>5. QED
    BY <2>2, <2>3, <2>4 DEF Whole
<1>7. QED
  BY <1>4, <1>5, <1>6

\* write_text, first half.
LEMMA OpenGood ==
  ASSUME IInv, TypeInv', NEW p \in Process, Calm(p), UNCHANGED installed, Open(p)
  PROVE  Good(p)' /\ GoodFiles'
<1>1. /\ infra' = infra /\ kills' = kills /\ faults' = faults /\ installed' = installed
      /\ proc[p].op \in {"snapshot", "apply", "commit", "restore"} /\ proc[p].stage = "open"
      /\ IF OnSnapshot(p) THEN snap' = Empty /\ config' = config
                          ELSE config' = Empty /\ snap' = snap
  BY DEF Open, Rest
<1>2. TypeInv /\ Good(p) /\ GoodFiles /\ Shape(proc[p])
  BY DEF IInv, TypeInv
<1>3. Moved(p, proc[p].op, "write", proc[p].why, proc[p].phase, proc[p].target, proc[p].data)
  BY <1>2, WriteMoves
<1>4. ~AllDown /\ ~AllDown'
  BY <1>1, <1>3, Rests
<1>5. CASE proc[p].op = "snapshot"
  <2>1. snap' = Empty /\ config' = config
    BY <1>1, <1>5 DEF OnSnapshot
  <2>2. GoodFiles'
    BY <1>1, <1>2, <1>4, <1>5, <2>1, EmptyFacts
       DEF GoodFiles, SafeFiles, Spared, Steady, Whole, Good, Safe
  <2>3. Good(p)'
    BY <1>1, <1>2, <1>3, <1>5, <2>1
       DEF Moved, Good, Sure, Safe, Agreed, Spared, Steady, Whole, NeedsRecovery, PhaseOf
  <2>4. QED
    BY <2>2, <2>3
<1>6. CASE proc[p].op = "commit"
  <2>1. snap' = Empty /\ config' = config
    BY <1>1, <1>6 DEF OnSnapshot
  <2>2. GoodFiles'
    BY <1>1, <1>2, <1>4, <1>6, <2>1, EmptyFacts
       DEF GoodFiles, SafeFiles, Spared, Steady, Whole, Good, Safe
  <2>3. Good(p)'
    BY <1>1, <1>2, <1>3, <1>6, <2>1
       DEF Moved, Good, Sure, Safe, Agreed, Spared, Steady, Whole, NeedsRecovery, PhaseOf,
           GoodFiles, SafeFiles
  <2>4. QED
    BY <2>2, <2>3
<1>7. CASE proc[p].op = "apply" \/ proc[p].op = "restore"
  <2>1. config' = Empty /\ snap' = snap /\ Whole(snap)
    BY <1>1, <1>2, <1>7 DEF OnSnapshot, Good, Sure, NeedsRecovery
  <2>2. GoodFiles'
    BY <1>1, <1>2, <1>4, <1>7, <2>1, EmptyFacts
       DEF GoodFiles, SafeFiles, Spared, Steady, Whole, Good, Safe
  <2>3. Good(p)'
    BY <1>1, <1>2, <1>3, <1>7, <2>1
       DEF Moved, Good, Sure, Safe, Agreed, Spared, Steady, Whole, NeedsRecovery, PhaseOf
  <2>4. QED
    BY <2>2, <2>3
<1>8. QED
  BY <1>1, <1>5, <1>6, <1>7

\* write_text, second half.
LEMMA WriteGood ==
  ASSUME IInv, TypeInv', NEW p \in Process, Calm(p), UNCHANGED installed, Write(p)
  PROVE  Good(p)' /\ GoodFiles'
<1>1. /\ infra' = infra /\ kills' = kills /\ faults' = faults /\ installed' = installed
      /\ proc[p].stage = "write"
  BY DEF Write, Rest
<1>2. TypeInv /\ Good(p) /\ GoodFiles /\ Shape(proc[p])
  BY DEF IInv, TypeInv
<1>3. CASE proc[p].op = "snapshot"
  <2>1. /\ Moved(p, "apply", "read", proc[p].why, proc[p].phase, proc[p].target, proc[p].data)
        /\ proc[p].data \in Content /\ snap' = Begun(p) /\ snap' \in Snapshot
        /\ config' = config
    BY <1>2, <1>3, WriteMoves
  <2>2. ~AllDown /\ ~AllDown'
    BY <1>3, <2>1, Rests
  <2>3. /\ snap'.status = "in_progress" /\ snap'.from = proc[p].phase
        /\ snap'.backup = proc[p].data /\ Whole(snap)'
    BY <2>1, EmptyFacts DEF Begun, Whole
  <2>4. /\ Spared => proc[p].data.user /\ config.user
        /\ Steady => /\ proc[p].phase = PhaseOf(config) /\ proc[p].data = Text(config)
                     /\ PhaseOf(Text(config)) = PhaseOf(config)
    BY <1>1, <1>2, <1>3 DEF Good, Safe, Agreed, PhaseOf, Text
  <2>5. Spared' = Spared /\ Steady' = Steady
    BY <1>1 DEF Spared, Steady
  <2>6. GoodFiles'
    BY <1>1, <1>2, <2>1, <2>2, <2>3, <2>4, <2>5 DEF GoodFiles, SafeFiles
  <2>7. Good(p)'
    BY <1>1, <1>2, <1>3, <2>1, <2>3, <2>4, <2>5
       DEF Moved, Good, Sure, Safe, Agreed, NeedsRecovery
  <2>8. QED
    BY <2>6, <2>7
<1>4. CASE proc[p].op = "apply"
  <2>1. /\ Moved(p, "commit", "read", proc[p].why, proc[p].phase, proc[p].target,
                 proc[p].data)
        /\ proc[p].data \in Content /\ config' = NewConfig(p) /\ config' \in Content
        /\ snap' = snap
    BY <1>2, <1>4, WriteMoves
  <2>2. ~AllDown /\ ~AllDown'
    BY <1>4, <2>1, Rests
  <2>3. /\ config'.phase = proc[p].target /\ config'.user = proc[p].data.user
        /\ config' # Missing /\ NeedsRecovery
    BY <1>2, <1>4, <2>1, EmptyFacts DEF NewConfig, Good, Sure
  <2>4. GoodFiles'
    BY <1>1, <1>2, <1>4, <2>1, <2>2, <2>3
       DEF GoodFiles, SafeFiles, Spared, Steady, Whole, Good, Safe
  <2>5. Good(p)'
    BY <1>1, <1>2, <1>4, <2>1, <2>3
       DEF Moved, Good, Sure, Safe, Agreed, Spared, Steady, NeedsRecovery, Whole
  <2>6. QED
    BY <2>4, <2>5
<1>5. CASE proc[p].op = "commit"
  <2>1. /\ Moved(p, "log", "read", proc[p].why, proc[p].target, proc[p].target, proc[p].data)
        /\ proc[p].data \in Snapshot /\ config' = config
        /\ snap' = [proc[p].data EXCEPT !.status = "committed"] /\ snap' \in Snapshot
    BY <1>2, <1>5, WriteMoves
  <2>2. ~AllDown /\ ~AllDown'
    BY <1>5, <2>1, Rests
  <2>3. /\ snap'.status = "committed" /\ snap'.from = proc[p].data.from
        /\ snap'.backup = proc[p].data.backup /\ Whole(snap)'
    BY <2>1, EmptyFacts DEF Snapshot, Whole
  <2>4. Spared' = Spared /\ Steady' = Steady
    BY <1>1 DEF Spared, Steady
  <2>5. /\ Spared => proc[p].data.backup.user /\ config.user
        /\ Steady => /\ config # Missing /\ config.phase = proc[p].target
                     /\ proc[p].data.from = PhaseOf(proc[p].data.backup)
    BY <1>1, <1>2, <1>5 DEF Good, Safe, Agreed
  <2>6. GoodFiles'
    BY <1>1, <1>2, <2>1, <2>2, <2>3, <2>4, <2>5 DEF GoodFiles, SafeFiles, PhaseOf
  <2>7. proc[p].target \in 1..3 /\ (Steady => PhaseOf(config) = proc[p].target)
    <3>1. proc[p].target \in 1..3
      BY <1>2 DEF TypeInv, Typed, Proc
    <3>2. QED
      BY <2>5, <3>1 DEF PhaseOf, Empty
  <2>8. Good(p)'
    BY <1>1, <1>2, <1>5, <2>1, <2>3, <2>4, <2>5, <2>7
       DEF Moved, Good, Sure, Safe, Agreed, NeedsRecovery, PhaseOf
  <2>9. QED
    BY <2>6, <2>8
<1>6. CASE proc[p].op = "restore"
  <2>1. /\ Moved(p, "unlink", "read", proc[p].why, proc[p].phase, proc[p].target,
                 proc[p].data)
        /\ proc[p].data \in Snapshot /\ config' = proc[p].data.backup
        /\ config' \in Content /\ snap' = snap
    BY <1>2, <1>6, WriteMoves
  <2>2. ~AllDown /\ ~AllDown'
    BY <1>6, <2>1, Rests
  <2>3. /\ Whole(snap) /\ proc[p].data = snap /\ config' # Missing
        /\ Text(config)' = snap.backup
    BY <1>1, <1>2, <1>6, <2>1, EmptyFacts DEF Good, Sure, Text
  <2>4. Spared' = Spared /\ Steady' = Steady
    BY <1>1 DEF Spared, Steady
  <2>5. GoodFiles'
    BY <1>1, <1>2, <2>1, <2>2, <2>3, <2>4 DEF GoodFiles, SafeFiles, Whole
  <2>6. Good(p)'
    BY <1>1, <1>2, <1>6, <2>1, <2>3, <2>4
       DEF Moved, Good, Sure, Safe, Agreed, NeedsRecovery, Whole, GoodFiles, SafeFiles
  <2>7. QED
    BY <2>5, <2>6
<1>7. QED
  BY <1>2, <1>3, <1>4, <1>5, <1>6, WriteMoves

\* The snapshot is removed, or the event log written.
LEMMA UnlinkGood ==
  ASSUME IInv, TypeInv', NEW p \in Process, Calm(p), UNCHANGED installed,
         Unlink(p) \/ Log(p)
  PROVE  Good(p)' /\ GoodFiles'
<1>1. /\ infra' = infra /\ kills' = kills /\ faults' = faults /\ installed' = installed
      /\ config' = config
  BY DEF Unlink, Log, Files, Rest
<1>2. TypeInv /\ Good(p) /\ GoodFiles /\ Shape(proc[p])
  BY DEF IInv, TypeInv
<1>3. proc \in [Process -> Proc] /\ proc[p] \in Proc
  BY <1>2 DEF TypeInv, Typed
<1>4. Spared' = Spared /\ Steady' = Steady
  BY <1>1 DEF Spared, Steady
<1>5. CASE Unlink(p)
  <2>1. /\ proc[p].op = "unlink" /\ proc[p].stage = "read" /\ proc[p].why # "none"
        /\ Returned(p) /\ snap' = Missing /\ ~Whole(snap)' /\ ~NeedsRecovery'
    BY <1>2, <1>5 DEF Unlink, At, Shape, Whole, NeedsRecovery
  <2>2. Spared => config.user
    BY <1>2, <2>1 DEF Good, Safe
  <2>3. GoodFiles'
    BY <1>1, <1>2, <1>4, <2>1, <2>2 DEF GoodFiles, SafeFiles
  <2>4. CASE proc[p].why = "recover"
    <3>1. Moved(p, "log", "read", "recover", proc[p].target, proc[p].target, proc[p].data)
      BY <1>3, <2>1, <2>4, ReturnMoves
    <3>2. QED
      BY <1>1, <1>2, <1>4, <2>1, <2>2, <2>3, <2>4, <3>1
         DEF Moved, Good, Sure, Safe, Agreed, PhaseOf
  <2>5. CASE proc[p].why = "failed"
    <3>1. Moved(p, "idle", "read", "failed", proc[p].phase, proc[p].target, proc[p].data)
      BY <1>3, <2>1, <2>5, ReturnMoves
    <3>2. ~Steady
      BY <1>2, <2>5 DEF Good, Sure, Steady
    <3>3. QED
      BY <1>1, <1>2, <1>4, <2>1, <2>2, <2>3, <2>5, <3>1, <3>2
         DEF Moved, Good, Sure, Safe
  <2>6. CASE proc[p].why = "revert"
    <3>1. Moved(p, "down", "read", "revert", proc[p].phase, proc[p].target, proc[p].data)
      BY <1>3, <2>1, <2>6, ReturnMoves
    <3>2. QED
      BY <1>1, <1>2, <1>4, <2>1, <2>2, <2>3, <2>6, <3>1
         DEF Moved, Good, Sure, Safe, Agreed
  <2>7. QED
    BY <1>3, <2>1, <2>4, <2>5, <2>6 DEF Proc
<1>6. CASE Log(p)
  <2>1. proc[p].op = "log" /\ snap' = snap
    BY <1>6 DEF Log, At, Files
  <2>2. Moved(p, "idle", "read", proc[p].why, proc[p].phase, proc[p].target, proc[p].data)
    BY <1>2, <1>6, WriteMoves
  <2>3. ~AllDown /\ ~AllDown'
    BY <2>1, <2>2, Rests
  <2>4. GoodFiles'
    BY <1>1, <1>2, <1>4, <2>1, <2>3 DEF GoodFiles, SafeFiles, Whole
  <2>5. Good(p)'
    BY <1>1, <1>2, <1>4, <2>1, <2>2
       DEF Moved, Good, Sure, Safe, Agreed, NeedsRecovery, Whole, PhaseOf
  <2>6. QED
    BY <2>4, <2>5
<1>7. QED
  BY <1>5, <1>6

\* A write or the log raises: nothing is certain of the phase any more, and of
\* the settings only where no kill and no other raise has happened.
LEMMA FaultGood ==
  ASSUME IInv, TypeInv', NEW p \in Process, Calm(p), UNCHANGED installed, Fault(p)
  PROVE  Good(p)' /\ GoodFiles'
<1>1. /\ infra' = infra /\ kills' = kills /\ faults' = faults + 1 /\ installed' = installed
      /\ config' = config /\ snap' = snap /\ Raised(p)
      /\ proc[p].op # "down"
  BY DEF Fault, Files
<1>2. TypeInv /\ Good(p) /\ GoodFiles /\ Shape(proc[p])
  BY DEF IInv, TypeInv
<1>3. /\ proc \in [Process -> Proc] /\ proc[p] \in Proc /\ faults \in Nat
      /\ proc[p].why \in {"none", "recover", "failed", "revert"}
  BY <1>2, BoundAssumption DEF TypeInv, Typed, Proc
<1>4. faults' # 0 /\ ~Steady' /\ (Spared' => Spared /\ kills = 0 /\ faults = 0)
  BY <1>1, <1>3 DEF Steady, Spared
<1>5. ~AllDown
  BY <1>1 DEF AllDown
<1>6. /\ kills = 0 => proc[p].why \notin {"recover", "revert"}
      /\ Spared' => proc[p].why = "none"
  BY <1>2, <1>3, <1>4 DEF Good, Sure
<1>7. ASSUME Moved(p, "dead", "read", "recover", proc[p].phase, proc[p].target, proc[p].data)
               \/ Moved(p, "down", "read", "revert", proc[p].phase, proc[p].target,
                        proc[p].data),
             kills # 0
      PROVE  Good(p)' /\ GoodFiles'
  BY <1>1, <1>2, <1>4, <1>6, <1>7 DEF Moved, Good, Sure, GoodFiles, Spared, Steady
<1>8. CASE proc[p].why = "recover" \/ proc[p].why = "revert"
  BY <1>1, <1>3, <1>6, <1>7, <1>8, RaiseMoves
<1>9. CASE proc[p].why = "failed"
  <2>1. Moved(p, "idle", "read", "failed", proc[p].phase, proc[p].target, proc[p].data)
    BY <1>1, <1>3, <1>9, RaiseMoves
  <2>2. ~AllDown' /\ ~Spared'
    BY <1>6, <1>9, <2>1, Rests
  <2>3. QED
    BY <1>1, <1>2, <1>4, <1>9, <2>1, <2>2
       DEF Moved, Good, Sure, GoodFiles
<1>10. CASE proc[p].why = "none" /\ proc[p].op = "snapshot"
  <2>1. Moved(p, "idle", "read", "none", proc[p].phase, proc[p].target, proc[p].data)
    BY <1>1, <1>3, <1>10, RaiseMoves
  <2>2. ~AllDown' /\ (Spared => config.user)
    BY <1>2, <1>10, <2>1, Rests DEF Good, Safe
  <2>3. GoodFiles'
    BY <1>1, <1>2, <1>4, <1>5, <2>2 DEF GoodFiles, SafeFiles, Whole
  <2>4. Good(p)'
    BY <1>1, <1>2, <1>4, <1>10, <2>1, <2>2 DEF Moved, Good, Sure, Safe
  <2>5. QED
    BY <2>3, <2>4
<1>11. CASE proc[p].why = "none" /\ proc[p].op # "snapshot"
  <2>1. Moved(p, "restore", "read", "failed", proc[p].phase, proc[p].target, proc[p].data)
    BY <1>1, <1>3, <1>11, RaiseMoves
  <2>2. ~AllDown'
    BY <2>1, Rests
  <2>3. GoodFiles'
    BY <1>1, <1>2, <1>4, <1>5, <2>2 DEF GoodFiles, SafeFiles, Whole
  <2>4. Good(p)'
    BY <1>1, <1>2, <1>4, <1>11, <2>1, <2>2 DEF Moved, Good, Sure, Safe
  <2>5. QED
    BY <2>3, <2>4
<1>12. QED
  BY <1>3, <1>8, <1>9, <1>10, <1>11

\* A kill leaves a recovery to do, or the settings in config.yaml.
LEMMA KillGood ==
  ASSUME IInv, TypeInv', OneEach, NEW p \in Process, Calm(p), UNCHANGED installed, Kill(p)
  PROVE  Good(p)' /\ GoodFiles'
<1>1. /\ infra' = infra /\ kills' = kills + 1 /\ faults' = faults /\ installed' = installed
      /\ config' = config /\ snap' = snap
      /\ proc[p].op # "down" /\ p \in Server
  BY DEF Kill, Files, OneEach
<1>2. /\ TypeInv /\ Good(p) /\ GoodFiles /\ Shape(proc[p])
      /\ proc[p].why # "revert"
  BY <1>1 DEF IInv, TypeInv, Roles
<1>3. proc[p] \in Proc /\ kills \in Nat
  BY <1>2, BoundAssumption DEF TypeInv, Typed
<1>4. Moved(p, "down", "read", "none", 1, 1, Empty)
  BY <1>2, KillMoves
<1>5. kills' # 0 /\ (Spared' => Spared /\ faults = 0) /\ (Steady' => Steady)
  BY <1>1, <1>3 DEF Spared, Steady
<1>6. Spared /\ faults = 0 => config.user \/ NeedsRecovery
  BY <1>1, <1>2, <1>3 DEF Good, Sure, Safe, Shape, Proc, Op
<1>7. GoodFiles'
  BY <1>1, <1>2, <1>5, <1>6 DEF GoodFiles, SafeFiles, Whole, NeedsRecovery, PhaseOf
<1>8. Good(p)'
  BY <1>1, <1>2, <1>4, <1>5 DEF Moved, Good, Sure, Safe, Agreed
<1>9. QED
  BY <1>7, <1>8

\* A move within a role.
LEMMA MovedAlone ==
  ASSUME NEW p \in Process, NEW op, NEW stage, NEW why, NEW phase, NEW target, NEW data,
         Moved(p, op, stage, why, phase, target, data),
         p \in Server => why # "revert",
         p \in Doctor => /\ op \in {"down", "restore", "unlink"}
                         /\ op = "down" => stage = "read"
                         /\ op # "down" => why = "revert"
  PROVE  Alone(p)
  BY DEF Alone, Moved

\* Every step is one process's own.
LEMMA StepAlone ==
  ASSUME OneEach, TypeInv, Roles, NEW p \in Process,
         Work(p) \/ Revert(p) \/ Fault(p) \/ Kill(p)
  PROVE  Alone(p)
<1>1. /\ proc \in [Process -> Proc] /\ proc[p] \in Proc /\ Shape(proc[p])
      /\ proc[p].why \in {"none", "recover", "failed", "revert"}
  BY DEF TypeInv, Typed, Proc
<1>2. p \in Server => p \notin Doctor /\ proc[p].why # "revert"
  BY DEF OneEach, Roles
<1>3. p \in Doctor => /\ p \notin Server
                      /\ proc[p].op \in {"down", "restore", "unlink"}
                      /\ proc[p].op = "down" => proc[p].stage = "read"
                      /\ proc[p].op # "down" => proc[p].why = "revert"
  BY DEF OneEach, Roles
<1>4. snap \in Snapshot \cup {Missing, Empty}
  BY DEF TypeInv, Typed
<1>5. CASE Discover(p) \/ StartUp(p) \/ Recover(p) \/ Probe(p)
  <2>1. p \in Server
    BY <1>3, <1>5 DEF Process, Discover, StartUp, Recover, Probe, At
  <2>2. QED
    BY <1>2, <1>5, <2>1, StartMoves, MovedAlone DEF Recover
<1>6. CASE ReadConfig(p) \/ ReadCommit(p)
  <2>1. p \in Server /\ proc[p].why = "none"
    BY <1>1, <1>3, <1>6 DEF Process, ReadConfig, ReadCommit, At, Shape
  <2>2. CASE ReadConfig(p)
    BY <1>2, <2>1, <2>2, ReadMoves, MovedAlone
  <2>3. CASE ReadCommit(p) /\ snap # Empty
    BY <1>2, <1>4, <2>1, <2>3, ReadMoves, MovedAlone DEF Whole
  <2>4. CASE ReadCommit(p) /\ snap = Empty
    BY <1>1, <1>2, <2>1, <2>4, ReadMoves, RaiseMoves, MovedAlone
  <2>5. QED
    BY <1>6, <2>2, <2>3, <2>4
<1>7. CASE ReadRestore(p)
  <2>1. proc[p].op = "restore" /\ proc[p].stage = "read" /\ proc[p].why # "none"
    BY <1>1, <1>7 DEF ReadRestore, At, Shape
  <2>2. CASE Whole(snap)
    BY <1>2, <1>3, <1>7, <2>1, <2>2, ReadMoves, MovedAlone
  <2>3. CASE snap = Missing
    BY <1>1, <1>2, <1>3, <1>7, <2>1, <2>3, ReadMoves, ReturnMoves, MovedAlone
  <2>4. CASE snap = Empty
    BY <1>1, <1>2, <1>3, <1>7, <2>1, <2>4, ReadMoves, RaiseMoves, MovedAlone
  <2>5. QED
    BY <2>2, <2>3, <2>4 DEF Whole
<1>8. CASE Open(p)
  BY <1>2, <1>3, <1>8, WriteMoves, MovedAlone DEF Open
<1>9. CASE Write(p)
  BY <1>2, <1>3, <1>9, WriteMoves, MovedAlone
<1>10. CASE Unlink(p)
  <2>1. Returned(p) /\ proc[p].op = "unlink" /\ proc[p].stage = "read"
        /\ proc[p].why # "none"
    BY <1>1, <1>10 DEF Unlink, At, Shape
  <2>2. QED
    BY <1>1, <1>2, <1>3, <2>1, ReturnMoves, MovedAlone
<1>11. CASE Log(p)
  BY <1>2, <1>3, <1>11, WriteMoves, MovedAlone DEF Log, At
<1>12. CASE Revert(p)
  BY <1>2, <1>12, StartMoves, MovedAlone DEF Revert, OneEach
<1>13. CASE Fault(p)
  <2>1. Raised(p) /\ proc[p].op # "down"
    BY <1>13 DEF Fault
  <2>2. QED
    BY <1>1, <1>2, <1>3, <2>1, RaiseMoves, MovedAlone
<1>14. CASE Kill(p)
  <2>1. p \in Server
    BY <1>14 DEF Kill, OneEach
  <2>2. QED
    BY <1>2, <1>14, <2>1, KillMoves, MovedAlone
<1>15. QED
  BY <1>5, <1>6, <1>7, <1>8, <1>9, <1>10, <1>11, <1>12, <1>13, <1>14 DEF Work

\* The initial state.
LEMMA InitGood == Init => IInv
<1> SUFFICES ASSUME Init PROVE IInv
  OBVIOUS
<1>1. TypeInv
  BY InitTyped
<1>2. /\ \A p \in Process : proc[p] = Down
      /\ snap = Missing /\ ~Whole(snap)
      /\ installed => config.user /\ config # Missing
  BY FirstConfigAssumption, EmptyFacts DEF Init, Whole
<1>3. Roles /\ GoodFiles
  BY <1>2, EmptyFacts DEF Roles, GoodFiles, SafeFiles, Spared, Process, Down
<1>4. ASSUME NEW p \in Process PROVE Good(p)
  BY <1>2 DEF Good, Sure, Safe, Agreed, Down
<1>5. QED
  BY <1>1, <1>3, <1>4 DEF IInv

\* Every step.
LEMMA StepGood == OneEach /\ IInv /\ [Next]_vars => IInv'
<1> SUFFICES ASSUME OneEach, IInv, [Next]_vars PROVE IInv'
  OBVIOUS
<1>1. TypeInv /\ Roles /\ GoodFiles /\ TypeInv' /\ \A q \in Process : Good(q)
  BY StepTyped DEF IInv
<1>2. CASE UNCHANGED vars \/ (Next /\ Change)
  <2>1. UNCHANGED <<installed, config, snap, proc, kills, faults>>
    BY <1>2 DEF vars, Next, Change, Files
  <2>2. Roles' /\ GoodFiles'
    BY <1>1, <2>1 DEF Roles, GoodFiles, SafeFiles, Spared, Steady, Whole, AllDown,
                      NeedsRecovery
  <2>3. ASSUME NEW q \in Process PROVE Good(q)'
    BY <1>1, <2>1 DEF Good, Sure, Safe, Agreed, Spared, Steady, Whole, NeedsRecovery
  <2>4. QED
    BY <1>1, <2>2, <2>3 DEF IInv
<1>3. ASSUME Next, NEW p \in Process, Work(p) \/ Revert(p) \/ Fault(p) \/ Kill(p)
      PROVE  IInv'
  <2>1. UNCHANGED installed
    BY <1>3 DEF Next
  <2>2. Calm(p) /\ (p \in Doctor => \A q \in Server : proc[q] = Down) /\ Alone(p)
    BY <1>1, <1>3, Lone, StepAlone
  <2>3. Good(p)' /\ GoodFiles'
    BY <1>1, <1>3, <2>1, <2>2, DecisionGood, RevertGood, ReadGood, OpenGood, WriteGood,
       UnlinkGood, FaultGood, KillGood DEF Work
  <2>4. (kills' = kills \/ kills' # 0) /\ (faults' = faults \/ faults' # 0)
    <3>1. kills \in Nat /\ faults \in Nat
      BY <1>1, BoundAssumption DEF TypeInv, Typed
    <3>2. /\ Work(p) \/ Revert(p) => kills' = kills /\ faults' = faults
          /\ Fault(p) => kills' = kills /\ faults' = faults + 1
          /\ Kill(p) => kills' = kills + 1 /\ faults' = faults
      BY DEF Work, Discover, StartUp, Recover, Probe, ReadConfig, ReadCommit, ReadRestore,
             Open, Write, Unlink, Log, Revert, Fault, Kill, Rest
    <3>3. QED
      BY <1>3, <3>1, <3>2
  <2>5. QED
    BY <1>1, <2>1, <2>2, <2>3, <2>4, OthersKept
<1>4. QED
  BY <1>2, <1>3 DEF Next

\* The invariant implies what is promised.
LEMMA GoodEnough == OneEach /\ IInv => SettingsKept /\ Agreement
<1> SUFFICES ASSUME OneEach, IInv PROVE SettingsKept /\ Agreement
  OBVIOUS
<1>1. SettingsKept
  BY DEF IInv, GoodFiles, SafeFiles, Spared, SettingsKept
<1>2. Agreement
  BY DEF IInv, Good, Agreed, Steady, Agreement, Process
<1>3. QED
  BY <1>1, <1>2

\* The user's settings are never lost to the kills of a server, nor to one
\* operation that raises: wherever upgrade.py is interrupted, config.yaml or
\* the snapshot holds them.
THEOREM SettingsKeptAlways ==
  ASSUME OneEach PROVE Spec => []SettingsKept
<1>1. /\ Init => IInv
      /\ IInv /\ [Next]_vars => IInv'
      /\ IInv => SettingsKept
  BY InitGood, StepGood, GoodEnough
<1>2. QED
  BY <1>1, PTL DEF Spec

\* A server at rest is in the phase that config.yaml says, whatever upgrades,
\* recoveries and reverts came before.
THEOREM AgreementAlways ==
  ASSUME OneEach PROVE Spec => []Agreement
<1>1. /\ Init => IInv
      /\ IInv /\ [Next]_vars => IInv'
      /\ IInv => Agreement
  BY InitGood, StepGood, GoodEnough
<1>2. QED
  BY <1>1, PTL DEF Spec

-----------------------------------------------------------------------------
(* Atomicity *)

\* What may change the durable content: a revert, and a commit.
Allowed ==
  \/ \E d \in Doctor : proc[d].op = "restore"
  \/ \E p \in Server :
       /\ At(p, "commit", "open")
       /\ Durable' = [phase |-> proc[p].target, user |-> Durable.user]

\* While no write has raised, every snapshot has a backup, and a recovery
\* would put it back.
LEMMA DurableIs ==
  ASSUME IInv, installed, faults = 0
  PROVE  /\ Spared /\ Steady /\ config \in Content
         /\ NeedsRecovery => Durable = snap.backup
         /\ ~NeedsRecovery => Durable = config
<1>1. Spared /\ Steady
  BY DEF Spared, Steady
<1>2. config \in Content
  BY DEF IInv, GoodFiles, TypeInv, Typed
<1>3. NeedsRecovery => snap.backup.user
  BY <1>1 DEF NeedsRecovery, IInv, GoodFiles, SafeFiles
<1>4. ~Empty.user
  BY DEF Empty
<1>5. QED
  BY <1>1, <1>2, <1>3, <1>4 DEF Durable

\* What is not a file operation changes nothing, nor does one that is not the
\* truncation of the snapshot by commit().
LEMMA DurableKept ==
  ASSUME OneEach, IInv, IInv', installed, faults = 0, UNCHANGED installed, faults' = 0,
         NEW p \in Process, Open(p) \/ Write(p) \/ Unlink(p)
  PROVE  Durable' = Durable \/ Allowed
<1>1. /\ TypeInv /\ Good(p) /\ Shape(proc[p]) /\ proc[p] \in Proc
      /\ proc[p].why \in {"none", "recover", "failed", "revert"}
  BY DEF IInv, TypeInv, Typed, Proc
<1>2. /\ Spared /\ Steady /\ config \in Content
      /\ NeedsRecovery => Durable = snap.backup
      /\ ~NeedsRecovery => Durable = config
  BY DurableIs
<1>3. /\ config' \in Content
      /\ NeedsRecovery' => Durable' = snap'.backup
      /\ ~NeedsRecovery' => Durable' = config'
  <2>1. Spared' /\ config' \in Content
    BY DEF Spared, IInv, GoodFiles, TypeInv, Typed
  <2>2. NeedsRecovery' => snap'.backup.user
    BY <2>1 DEF NeedsRecovery, IInv, GoodFiles, SafeFiles
  <2>3. ~Empty.user
    BY DEF Empty
  <2>4. QED
    BY <2>1, <2>2, <2>3 DEF Durable
<1>4. snap' = Empty \/ snap' = Missing => Durable' = config'
  BY <1>3 DEF NeedsRecovery, Whole
<1>5. CASE Open(p)
  <2>1. /\ proc[p].op \in {"snapshot", "apply", "commit", "restore"}
        /\ proc[p].stage = "open"
        /\ IF OnSnapshot(p) THEN snap' = Empty /\ config' = config
                            ELSE config' = Empty /\ snap' = snap
    BY <1>5 DEF Open
  <2>2. CASE proc[p].op = "snapshot"
    <3>1. ~NeedsRecovery /\ Durable' = config'
      BY <1>1, <1>4, <2>1, <2>2 DEF Good, Sure, OnSnapshot
    <3>2. QED
      BY <1>2, <2>1, <2>2, <3>1 DEF OnSnapshot
  <2>3. CASE proc[p].op = "apply" \/ (proc[p].op = "restore" /\ proc[p].why # "revert")
    <3>1. NeedsRecovery /\ snap' = snap
      BY <1>1, <2>1, <2>3 DEF Good, Sure, Shape, OnSnapshot
    <3>2. QED
      BY <1>2, <1>3, <3>1 DEF NeedsRecovery, Whole
  <2>4. CASE proc[p].op = "restore" /\ proc[p].why = "revert"
    <3>1. p \in Doctor
      BY <2>4 DEF IInv, Roles, Process
    <3>2. QED
      BY <2>4, <3>1 DEF Allowed
  <2>5. CASE proc[p].op = "commit"
    <3>1. p \in Server
      BY <2>5 DEF IInv, Roles, Process
    <3>2. /\ NeedsRecovery /\ Durable = snap.backup /\ snap.backup.user = TRUE
          /\ snap' = Empty /\ config' = config
      BY <1>1, <1>2, <2>1, <2>5
         DEF Good, Sure, OnSnapshot, IInv, GoodFiles, SafeFiles, NeedsRecovery
    <3>3. config.user = TRUE /\ config.phase = proc[p].target
      BY <1>1, <1>2, <2>1, <2>5 DEF Good, Safe, Agreed, Content
    <3>4. config = [phase |-> proc[p].target, user |-> TRUE]
      BY <1>2, <3>3 DEF Content
    <3>5. QED
      BY <1>4, <2>1, <2>5, <3>1, <3>2, <3>4 DEF Allowed, At
  <2>6. QED
    BY <2>1, <2>2, <2>3, <2>4, <2>5
<1>6. CASE Write(p)
  <2>1. proc[p].stage = "write"
    BY <1>6 DEF Write
  <2>2. CASE proc[p].op = "snapshot"
    <3>1. snap = Empty /\ proc[p].data = config
      BY <1>1, <1>2, <2>1, <2>2, EmptyFacts DEF Good, Sure, Agreed, Text
    <3>2. /\ snap' = Begun(p) /\ snap' \in Snapshot /\ config' = config
      BY <1>1, <1>6, <2>2, WriteMoves
    <3>3. snap'.status = "in_progress" /\ snap'.backup = config /\ Whole(snap)'
      BY <3>1, <3>2, EmptyFacts DEF Begun, Whole
    <3>4. QED
      BY <1>2, <1>3, <3>1, <3>3 DEF NeedsRecovery, Whole
  <2>3. CASE proc[p].op = "apply"
    <3>1. NeedsRecovery /\ snap' = snap
      BY <1>1, <1>6, <2>1, <2>3, WriteMoves DEF Good, Sure
    <3>2. QED
      BY <1>2, <1>3, <3>1 DEF NeedsRecovery, Whole
  <2>4. CASE proc[p].op = "commit"
    <3>1. /\ snap = Empty /\ proc[p].data \in Snapshot /\ config' = config
          /\ snap' = [proc[p].data EXCEPT !.status = "committed"]
      BY <1>1, <1>6, <2>1, <2>4, WriteMoves DEF Good, Sure
    <3>2. ~NeedsRecovery /\ snap'.status = "committed"
      BY <3>1 DEF NeedsRecovery, Whole, Snapshot
    <3>3. QED
      BY <1>2, <1>3, <3>1, <3>2 DEF NeedsRecovery
  <2>5. CASE proc[p].op = "restore" /\ proc[p].why # "revert"
    <3>1. NeedsRecovery /\ snap' = snap
      BY <1>1, <1>6, <2>1, <2>5, WriteMoves DEF Good, Sure, Shape
    <3>2. QED
      BY <1>2, <1>3, <3>1 DEF NeedsRecovery, Whole
  <2>6. CASE proc[p].op = "restore" /\ proc[p].why = "revert"
    <3>1. p \in Doctor
      BY <2>6 DEF IInv, Roles, Process
    <3>2. QED
      BY <2>6, <3>1 DEF Allowed
  <2>7. QED
    BY <1>1, <1>6, <2>2, <2>3, <2>4, <2>5, <2>6, WriteMoves
<1>7. CASE Unlink(p)
  <2>1. proc[p].op = "unlink" /\ snap' = Missing /\ config' = config
    BY <1>7 DEF Unlink, At
  <2>2. NeedsRecovery => proc[p].why = "recover"
    BY <1>1, <2>1 DEF Good, Sure, Shape
  <2>3. NeedsRecovery => snap.backup = config
    BY <1>1, <1>2, <2>1, <2>2, EmptyFacts DEF Good, Agreed, Text
  <2>4. QED
    BY <1>2, <1>4, <2>1, <2>3
<1>8. QED
  BY <1>5, <1>6, <1>7

\* Every step is atomic.
LEMMA StepAtomic ==
  ASSUME OneEach, IInv, IInv', [Next]_vars, installed, faults' = 0, Durable' # Durable
  PROVE  Allowed
<1>1. TypeInv /\ faults \in Nat
  BY BoundAssumption DEF IInv, TypeInv, Typed
<1>2. UNCHANGED installed
  BY DEF Next, vars
<1>3. ~UNCHANGED Files
  BY DEF Files, Durable, NeedsRecovery, Whole
<1>4. PICK p \in Process : Open(p) \/ Write(p) \/ Unlink(p)
  BY <1>3 DEF Next, vars, Files, Work, Discover, StartUp, Recover, Probe, ReadConfig,
              ReadCommit, ReadRestore, Log, Revert, Fault, Kill, Change
<1>5. faults = 0
  BY <1>1, <1>4 DEF Open, Write, Unlink, Rest
<1>6. QED
  BY <1>2, <1>4, <1>5, DurableKept

\* The upgrade transaction is atomic: what a restart would find changes only
\* when a server commits, and then in the phase alone.
THEOREM AtomicAlways ==
  ASSUME OneEach PROVE Spec => Atomic
<1>1. Init => IInv
  BY InitGood
<1>2. IInv /\ [Next]_vars => IInv'
  BY StepGood
<1>3. IInv /\ IInv' /\ [Next]_vars =>
        [installed /\ faults' = 0 /\ Durable' # Durable =>
           \/ \E d \in Doctor : proc[d].op = "restore"
           \/ \E p \in Server :
                /\ At(p, "commit", "open")
                /\ Durable' = [phase |-> proc[p].target, user |-> Durable.user]]_vars
  BY StepAtomic DEF Allowed
<1>4. QED
  BY <1>1, <1>2, <1>3, PTL DEF Spec, Atomic

-----------------------------------------------------------------------------
(* Induction over numbers, and the loop of set_levels *)

\* The induction that the loop needs: a set of numbers that is not empty has a
\* least element.
LEMMA Least ==
  ASSUME NEW T \in SUBSET Nat, T # {}
  PROVE  \E x \in T : \A y \in T : ~(y < x)
<1>1. IsWellFoundedOn(OpToRel(<, Nat), Nat)
  BY NatLessThanWellFounded
<1>2. PICK x \in T : \A y \in T : ~(<<y, x>> \in OpToRel(<, Nat))
  BY <1>1, WFMin
<1>3. QED
  BY <1>2 DEF OpToRel

\* The states of the loop, one for each capability.
Loop(f, r, caps, levels) ==
  /\ f[0] = r
  /\ \A k \in 1..Len(caps) : f[k] = Reg!SetLevel(f[k - 1], caps[k], levels[caps[k]])
  /\ Reg!SetAll(r, caps, levels) = f[Len(caps)]

\* The loop goes through them.
LEMMA LoopStates ==
  ASSUME NEW r, NEW caps \in Seq(Cap), NEW levels
  PROVE  \E f : Loop(f, r, caps, levels)
<1> DEFINE Is(f, m) ==
             f = [k \in 0..m |->
                    IF k = 0 THEN r ELSE Reg!SetLevel(f[k - 1], caps[k], levels[caps[k]])]
           T == {m \in Nat : ~\E f : Is(f, m)}
<1>1. T = {}
  <2>1. SUFFICES ASSUME T # {} PROVE FALSE
    OBVIOUS
  <2>2. PICK m \in T : \A y \in T : ~(y < m)
    <3>1. T \in SUBSET Nat
      OBVIOUS
    <3>2. QED
      BY <2>1, <3>1, Least
  <2>3. m # 0
    <3>1. SUFFICES ASSUME m = 0 PROVE FALSE
      OBVIOUS
    <3> DEFINE f == [k \in 0..0 |-> r]
    <3>2. Is(f, 0)
      OBVIOUS
    <3>3. QED
      BY <3>1, <3>2
  <2>4. PICK f : Is(f, m - 1)
    <3>1. m - 1 \in Nat /\ m - 1 < m
      BY <2>3
    <3>2. m - 1 \notin T
      BY <2>2, <3>1
    <3>3. QED
      BY <3>1, <3>2
  <2> DEFINE g == [k \in 0..m |->
                     IF k = m THEN Reg!SetLevel(f[m - 1], caps[m], levels[caps[m]]) ELSE f[k]]
  <2>5. Is(g, m)
    BY <2>2, <2>3, <2>4
  <2>6. QED
    BY <2>2, <2>5
<1>2. \E f : Is(f, Len(caps))
  <2>1. Len(caps) \in Nat
    OBVIOUS
  <2>2. QED
    BY <1>1, <2>1
<1>3. Reg!SetAll(r, caps, levels) = (CHOOSE f : Is(f, Len(caps)))[Len(caps)]
  BY DEF Reg!SetAll
<1> DEFINE d == CHOOSE f : Is(f, Len(caps))
<1>4. d = [k \in 0..Len(caps) |->
             IF k = 0 THEN r ELSE Reg!SetLevel(d[k - 1], caps[k], levels[caps[k]])]
  BY <1>2
<1> HIDE DEF d
<1>5. d[0] = r
  BY <1>4
<1>6. \A k \in 1..Len(caps) : d[k] = Reg!SetLevel(d[k - 1], caps[k], levels[caps[k]])
  BY <1>4
<1>7. Reg!SetAll(r, caps, levels) = d[Len(caps)]
  BY <1>3 DEF d
<1>8. QED
  BY <1>5, <1>6, <1>7 DEF Loop

\* What every set_level of the loop keeps, the loop keeps.
LEMMA LoopKeeps ==
  ASSUME NEW X, NEW r \in X, NEW caps \in Seq(Cap), NEW levels,
         \A s \in X, c \in Cap : Reg!SetLevel(s, c, levels[c]) \in X
  PROVE  Reg!SetAll(r, caps, levels) \in X
<1>1. PICK f : Loop(f, r, caps, levels)
  BY LoopStates
<1> DEFINE T == {m \in Nat : m <= Len(caps) /\ f[m] \notin X}
<1>2. T = {}
  <2>1. SUFFICES ASSUME T # {} PROVE FALSE
    OBVIOUS
  <2>2. PICK m \in T : \A y \in T : ~(y < m)
    <3>1. T \in SUBSET Nat
      OBVIOUS
    <3>2. QED
      BY <2>1, <3>1, Least
  <2>3. f[0] = r
    BY <1>1 DEF Loop
  <2>4. m # 0 /\ m - 1 \in Nat /\ m - 1 < m /\ m \in 1..Len(caps)
    BY <2>2, <2>3
  <2>5. f[m - 1] \in X
    BY <2>2, <2>4
  <2>6. f[m] = Reg!SetLevel(f[m - 1], caps[m], levels[caps[m]]) /\ caps[m] \in Cap
    BY <1>1, <2>4 DEF Loop
  <2>7. QED
    BY <2>2, <2>5, <2>6
<1>3. Len(caps) \in Nat
  OBVIOUS
<1>4. QED
  BY <1>1, <1>2, <1>3 DEF Loop

-----------------------------------------------------------------------------
(* The levels of a probe *)

\* A probe finds a level for every capability.
LEMMA LevelOfType ==
  ASSUME NEW c, NEW found PROVE Reg!LevelOf(c, found) \in Reg!Level
<1> DEFINE M == Reg!Matching(c, found)
           Best(l) == /\ l = 1 \/ \E r \in M : r.level = l
                      /\ \A r \in M : r.level <= l
<1>1. \A r \in M : r.level \in {2, 3}
  BY DEF Reg!Matching, Reg!Rules, Reg!Rule
<1> HIDE DEF M
<1>2. CASE \E r \in M : r.level = 3
  <2>1. Best(3)
    BY <1>1, <1>2
  <2>2. QED
    BY <2>1 DEF Reg!LevelOf, Reg!Level, M
<1>3. CASE ~(\E r \in M : r.level = 3) /\ \E r \in M : r.level = 2
  <2>1. Best(2)
    BY <1>1, <1>3
  <2>2. QED
    BY <2>1 DEF Reg!LevelOf, Reg!Level, M
<1>4. CASE M = {}
  <2>1. Best(1)
    BY <1>4
  <2>2. QED
    BY <2>1 DEF Reg!LevelOf, Reg!Level, M
<1>5. QED
  BY <1>1, <1>2, <1>3, <1>4

-----------------------------------------------------------------------------
(* The methods of the registry *)

\* The registry, field by field.
LEMMA RegistryFields ==
  ASSUME NEW r \in Reg!Registry
  PROVE  /\ r.state \in Reg!Levels /\ r.previous \in Reg!Levels /\ r.posture \in Reg!Posture
         /\ r.healthy \in 0..2 /\ r.saved \in Reg!Levels \cup {None}
         /\ r.batchPosture \in BOOLEAN /\ r.batchingEvents \in BOOLEAN
         /\ r.pending \in SUBSET Cap /\ r.heard \in Reg!Levels
         /\ r.heardPosture \in Reg!Posture
  BY DEF Reg!Registry

\* What no level change touches.
Kept(r, s) ==
  /\ s.previous = r.previous /\ s.saved = r.saved
  /\ s.batchPosture = r.batchPosture /\ s.batchingEvents = r.batchingEvents

\* What is left alone when the posture is worked out again.
Same(r, s) ==
  /\ Kept(r, s)
  /\ s.state = r.state /\ s.pending = r.pending /\ s.heard = r.heard

\* Safe mode stays, and nominal means that nothing is below the baseline.
LEMMA UpdateFields ==
  ASSUME NEW r \in Reg!Registry
  PROVE  LET s == Reg!UpdatePosture(r)
         IN  /\ s \in Reg!Registry /\ Same(r, s)
             /\ r.posture = "safe_mode" => s.posture = "safe_mode"
             /\ s.posture = "nominal" => ~Reg!BelowBaseline(s)
<1> DEFINE s == Reg!UpdatePosture(r)
           p == IF Reg!BelowBaseline(r) THEN "degraded"
                ELSE IF r.posture = "degraded" THEN "recovering" ELSE r.posture
           h == IF Reg!BelowBaseline(r) \/ r.posture = "degraded" THEN 0 ELSE r.healthy
           t == IF p # r.posture THEN p ELSE r.heardPosture
<1>1. CASE r.posture = "safe_mode"
  BY <1>1 DEF Reg!UpdatePosture, Same, Kept
<1>2. CASE r.posture # "safe_mode"
  <2>1. s = [r EXCEPT !.posture = p, !.healthy = h, !.heardPosture = t]
    BY <1>2 DEF Reg!UpdatePosture
  <2>2. p \in Reg!Posture /\ h \in 0..2 /\ t \in Reg!Posture
    BY RegistryFields DEF Reg!Posture
  <2>3. p = "nominal" => ~Reg!BelowBaseline(r)
    OBVIOUS
  <2>4. p # "safe_mode"
    BY <1>2
  <2> HIDE DEF p, h, t
  <2>5. s = [state |-> r.state, previous |-> r.previous, posture |-> p, healthy |-> h,
             saved |-> r.saved, batchPosture |-> r.batchPosture,
             batchingEvents |-> r.batchingEvents, pending |-> r.pending, heard |-> r.heard,
             heardPosture |-> t]
    BY <2>1 DEF Reg!Registry
  <2> HIDE DEF s
  <2>6. s \in Reg!Registry
    BY <2>2, <2>5, RegistryFields DEF Reg!Registry
  <2>7. Same(r, s) /\ s.posture = p
    BY <2>5 DEF Same, Kept
  <2>8. Reg!BelowBaseline(s) <=> Reg!BelowBaseline(r)
    BY <2>7 DEF Same, Kept, Reg!BelowBaseline
  <2>9. QED
    BY <1>2, <2>3, <2>6, <2>7, <2>8 DEF s
<1>3. QED
  BY <1>1, <1>2

\* The level that is set, and the pending change.
LEMMA ChangedFields ==
  ASSUME NEW r \in Reg!Registry, NEW c \in Cap, NEW l \in Reg!Level
  PROVE  LET s == Reg!Changed(r, c, l)
         IN  /\ s \in Reg!Registry
             /\ s.state = [r.state EXCEPT ![c] = l] /\ s.pending = r.pending \cup {c}
             /\ Kept(r, s) /\ s.posture = r.posture /\ s.heard = r.heard
<1> DEFINE s == Reg!Changed(r, c, l)
           ns == [r.state EXCEPT ![c] = l]
           np == r.pending \cup {c}
<1>1. ns \in Reg!Levels /\ np \in SUBSET Cap
  <2>1. r.state \in Reg!Levels /\ r.pending \in SUBSET Cap
    BY RegistryFields
  <2>2. QED
    BY <2>1 DEF Reg!Levels
<1>2. s = [r EXCEPT !.state = ns, !.pending = np]
  BY DEF Reg!Changed, Reg!Registry
<1> HIDE DEF ns, np, s
<1>3. s = [state |-> ns, previous |-> r.previous, posture |-> r.posture,
           healthy |-> r.healthy, saved |-> r.saved, batchPosture |-> r.batchPosture,
           batchingEvents |-> r.batchingEvents, pending |-> np, heard |-> r.heard,
           heardPosture |-> r.heardPosture]
  BY <1>2 DEF Reg!Registry
<1>4. s \in Reg!Registry
  <2>1. /\ r.state \in Reg!Levels /\ r.previous \in Reg!Levels /\ r.posture \in Reg!Posture
        /\ r.healthy \in 0..2 /\ r.saved \in Reg!Levels \cup {None}
        /\ r.batchPosture \in BOOLEAN /\ r.batchingEvents \in BOOLEAN
        /\ r.pending \in SUBSET Cap /\ r.heard \in Reg!Levels
        /\ r.heardPosture \in Reg!Posture
    BY RegistryFields
  <2>2. QED
    BY <1>1, <1>3, <2>1 DEF Reg!Registry
<1>5. /\ s.state = ns /\ s.pending = np /\ s.posture = r.posture /\ s.heard = r.heard
      /\ Kept(r, s)
  BY <1>3 DEF Kept
<1>6. QED
  BY <1>4, <1>5 DEF ns, np, s

\* The announcement of a level, unless events are batched.
LEMMA AnnouncedFields ==
  ASSUME NEW r \in Reg!Registry, NEW c \in Cap
  PROVE  LET t == Reg!Announced(r, c)
         IN  /\ t \in Reg!Registry
             /\ Kept(r, t) /\ t.posture = r.posture
             /\ t.state = r.state /\ t.pending = r.pending
             /\ t.heard = IF r.batchingEvents THEN r.heard
                          ELSE [r.heard EXCEPT ![c] = r.state[c]]
<1> DEFINE t == Reg!Announced(r, c)
           nh == IF r.batchingEvents THEN r.heard ELSE [r.heard EXCEPT ![c] = r.state[c]]
<1>1. nh \in Reg!Levels
  <2>1. r.state \in Reg!Levels /\ r.heard \in Reg!Levels
    BY RegistryFields
  <2>2. QED
    BY <2>1 DEF Reg!Levels
<1>2. t = [r EXCEPT !.heard = nh]
  BY DEF Reg!Announced, Reg!Registry
<1> HIDE DEF nh, t
<1>3. t = [state |-> r.state, previous |-> r.previous, posture |-> r.posture,
           healthy |-> r.healthy, saved |-> r.saved, batchPosture |-> r.batchPosture,
           batchingEvents |-> r.batchingEvents, pending |-> r.pending, heard |-> nh,
           heardPosture |-> r.heardPosture]
  BY <1>2 DEF Reg!Registry
<1>4. t \in Reg!Registry
  <2>1. /\ r.state \in Reg!Levels /\ r.previous \in Reg!Levels /\ r.posture \in Reg!Posture
        /\ r.healthy \in 0..2 /\ r.saved \in Reg!Levels \cup {None}
        /\ r.batchPosture \in BOOLEAN /\ r.batchingEvents \in BOOLEAN
        /\ r.pending \in SUBSET Cap /\ r.heard \in Reg!Levels
        /\ r.heardPosture \in Reg!Posture
    BY RegistryFields
  <2>2. QED
    BY <1>1, <1>3, <2>1 DEF Reg!Registry
<1>5. /\ t.state = r.state /\ t.pending = r.pending /\ t.posture = r.posture /\ t.heard = nh
      /\ Kept(r, t)
  BY <1>3 DEF Kept
<1>6. QED
  BY <1>4, <1>5 DEF nh, t

-----------------------------------------------------------------------------
(* What level changes keep *)

\* A change of a level is announced, unless events are batched.
Tells(r, s) ==
  /\ s.batchingEvents = r.batchingEvents
  /\ \A c \in Cap : \/ s.heard[c] = r.heard[c] /\ s.state[c] = r.state[c]
                    \/ ~r.batchingEvents /\ s.heard[c] = s.state[c]
                    \/ r.batchingEvents /\ s.heard[c] = r.heard[c]

\* A registry after level changes, seen from the one before: safe mode
\* stays, and nominal goes on to mean that nothing is below the baseline unless
\* the posture is deferred.
Follows(r, s) ==
  /\ s \in Reg!Registry
  /\ Kept(r, s) /\ Tells(r, s)
  /\ r.posture = "safe_mode" => s.posture = "safe_mode"
  /\ ~r.batchPosture /\ (r.posture = "nominal" => ~Reg!BelowBaseline(r)) =>
       (s.posture = "nominal" => ~Reg!BelowBaseline(s))

\* One change after others.
LEMMA TellsOn ==
  ASSUME NEW r, NEW s, NEW t, Tells(r, s), Tells(s, t)
  PROVE  Tells(r, t)
  BY DEF Tells

\* The same of what follows.
LEMMA FollowsOn ==
  ASSUME NEW r, NEW s, NEW t, Follows(r, s), Follows(s, t)
  PROVE  Follows(r, t)
<1>1. t \in Reg!Registry /\ Kept(r, t)
  BY DEF Follows, Kept
<1>2. Tells(r, t)
  BY TellsOn DEF Follows
<1>3. r.posture = "safe_mode" => t.posture = "safe_mode"
  BY DEF Follows
<1>4. ASSUME ~r.batchPosture, r.posture = "nominal" => ~Reg!BelowBaseline(r),
             t.posture = "nominal"
      PROVE  ~Reg!BelowBaseline(t)
  BY <1>4 DEF Follows, Kept
<1>5. QED
  BY <1>1, <1>2, <1>3, <1>4 DEF Follows

\* set_level.
LEMMA SetLevelFollows ==
  ASSUME NEW r \in Reg!Registry, NEW c \in Cap, NEW l \in Reg!Level
  PROVE  Follows(r, Reg!SetLevel(r, c, l))
<1> DEFINE s == Reg!Changed(r, c, l)
           u == IF s.batchPosture THEN s ELSE Reg!UpdatePosture(s)
           t == Reg!Announced(u, c)
<1>1. CASE r.state[c] = l
  BY <1>1 DEF Reg!SetLevel, Follows, Kept, Tells
<1>2. CASE r.state[c] # l
  <2>1. Reg!SetLevel(r, c, l) = t
    BY <1>2 DEF Reg!SetLevel
  <2>2. /\ s \in Reg!Registry
        /\ s.state = [r.state EXCEPT ![c] = l]
        /\ s.posture = r.posture /\ s.heard = r.heard
        /\ Kept(r, s)
    BY ChangedFields
  <2> HIDE DEF s
  <2>3. /\ u \in Reg!Registry
        /\ u.state = s.state /\ u.heard = s.heard /\ Kept(s, u)
        /\ s.posture = "safe_mode" => u.posture = "safe_mode"
    BY <2>2, UpdateFields DEF Same, Kept
  <2>4. ~s.batchPosture => (u.posture = "nominal" => ~Reg!BelowBaseline(u))
    BY <2>2, UpdateFields
  <2> HIDE DEF u
  <2>5. /\ t \in Reg!Registry
        /\ t.state = u.state /\ t.posture = u.posture /\ Kept(u, t)
        /\ t.heard = IF u.batchingEvents THEN u.heard
                     ELSE [u.heard EXCEPT ![c] = u.state[c]]
    BY <2>3, AnnouncedFields
  <2> HIDE DEF t
  <2>6. Reg!BelowBaseline(t) <=> Reg!BelowBaseline(u)
    BY <2>5 DEF Kept, Reg!BelowBaseline
  <2>7. ASSUME NEW d \in Cap
        PROVE  \/ t.heard[d] = r.heard[d] /\ t.state[d] = r.state[d]
               \/ ~r.batchingEvents /\ t.heard[d] = t.state[d]
               \/ r.batchingEvents /\ t.heard[d] = r.heard[d]
    <3>1. r.heard \in [Cap -> Reg!Level] /\ r.state \in [Cap -> Reg!Level]
      BY RegistryFields DEF Reg!Levels
    <3>2. CASE d = c
      BY <2>2, <2>3, <2>5, <3>1, <3>2 DEF Kept
    <3>3. CASE d # c
      BY <2>2, <2>3, <2>5, <3>1, <3>3 DEF Kept
    <3>4. QED
      BY <3>2, <3>3
  <2>8. /\ Kept(r, t)
        /\ r.posture = "safe_mode" => t.posture = "safe_mode"
    BY <2>2, <2>3, <2>5 DEF Kept
  <2>9. ~r.batchPosture => (t.posture = "nominal" => ~Reg!BelowBaseline(t))
    BY <2>2, <2>4, <2>5, <2>6 DEF Kept
  <2>10. QED
    BY <2>1, <2>5, <2>7, <2>8, <2>9 DEF Follows, Tells, Kept
<1>3. QED
  BY <1>1, <1>2

\* A loop of set_levels.
LEMMA SetAllFollows ==
  ASSUME NEW r \in Reg!Registry, NEW caps \in Seq(Cap), NEW levels \in Reg!Levels
  PROVE  Follows(r, Reg!SetAll(r, caps, levels))
<1> DEFINE X == {s \in Reg!Registry : Follows(r, s)}
<1>1. r \in X
  BY DEF Follows, Kept, Tells
<1>2. ASSUME NEW s \in X, NEW c \in Cap
      PROVE  Reg!SetLevel(s, c, levels[c]) \in X
  <2>1. levels[c] \in Reg!Level
    BY DEF Reg!Levels
  <2>2. Follows(s, Reg!SetLevel(s, c, levels[c]))
    BY <2>1, SetLevelFollows
  <2>3. Follows(r, Reg!SetLevel(s, c, levels[c]))
    BY <2>2, FollowsOn
  <2>4. QED
    BY <2>3 DEF Follows
<1> HIDE DEF X
<1>3. Reg!SetAll(r, caps, levels) \in X
  BY <1>1, <1>2, LoopKeeps
<1>4. QED
  BY <1>3 DEF X

-----------------------------------------------------------------------------
(* The methods *)

\* The posture is deferred; enter_safe_mode() keeps the levels first.
LEMMA DeferredFields ==
  ASSUME NEW r \in Reg!Registry
  PROVE  LET s == Reg!Deferred(r)
             t == [s EXCEPT !.saved = r.state]
         IN  /\ s \in Reg!Registry /\ t \in Reg!Registry
             /\ Tells(r, s) /\ s.posture = r.posture
             /\ Tells(r, t) /\ t.posture = r.posture
<1> DEFINE s == Reg!Deferred(r)
           t == [s EXCEPT !.saved = r.state]
<1>1. /\ s \in Reg!Registry /\ s.posture = r.posture /\ s.state = r.state /\ s.heard = r.heard
      /\ s.batchingEvents = r.batchingEvents
  BY DEF Reg!Deferred, Reg!Registry
<1> HIDE DEF s
<1>2. r.state \in Reg!Levels
  BY RegistryFields
<1>3. /\ t \in Reg!Registry /\ t.posture = s.posture /\ t.state = s.state /\ t.heard = s.heard
      /\ t.batchingEvents = s.batchingEvents
  BY <1>1, <1>2 DEF Reg!Registry
<1> HIDE DEF t
<1>4. QED
  BY <1>1, <1>3 DEF s, t, Tells

\* A probe's levels.
LEMMA ProbeLevelsType ==
  ASSUME NEW found PROVE Reg!ProbeLevels(found) \in Reg!Levels
  BY LevelOfType DEF Reg!ProbeLevels, Reg!Levels

\* apply_probe().
LEMMA ApplyProbeFields ==
  ASSUME NEW r \in Reg!Registry, NEW found, use.order \in Seq(Cap)
  PROVE  LET s == Reg!ApplyProbe(r, found)
         IN  /\ s \in Reg!Registry /\ Tells(r, s) /\ s.batchPosture = FALSE
             /\ r.posture = "safe_mode" => s.posture = "safe_mode"
             /\ s.posture = "nominal" => ~Reg!BelowBaseline(s)
<1> DEFINE t == Reg!SetAll(Reg!Deferred(r), Reg!Order, Reg!ProbeLevels(found))
           u == [t EXCEPT !.batchPosture = FALSE]
           v == Reg!UpdatePosture(u)
           s == [v EXCEPT !.pending = {}]
<1>1. Follows(Reg!Deferred(r), t)
  BY DeferredFields, ProbeLevelsType, SetAllFollows DEF Reg!Order
<1>2. /\ t \in Reg!Registry /\ Tells(r, t)
      /\ r.posture = "safe_mode" => t.posture = "safe_mode"
  BY <1>1, DeferredFields, TellsOn DEF Follows
<1> HIDE DEF t
<1>3. /\ u \in Reg!Registry /\ Tells(r, u) /\ u.batchPosture = FALSE
      /\ r.posture = "safe_mode" => u.posture = "safe_mode"
  BY <1>2 DEF Reg!Registry, Tells
<1> HIDE DEF u
<1>4. /\ v \in Reg!Registry /\ Same(u, v)
      /\ u.posture = "safe_mode" => v.posture = "safe_mode"
      /\ v.posture = "nominal" => ~Reg!BelowBaseline(v)
  BY <1>3, UpdateFields
<1> HIDE DEF v
<1>5. /\ s \in Reg!Registry /\ s.state = v.state /\ s.heard = v.heard
      /\ s.previous = v.previous /\ s.posture = v.posture
      /\ s.batchingEvents = v.batchingEvents /\ s.batchPosture = v.batchPosture
  BY <1>4 DEF Reg!Registry
<1>6. Reg!ApplyProbe(r, found) = s
  BY DEF Reg!ApplyProbe, t, u, v
<1> HIDE DEF s
<1>7. Tells(r, s)
  BY <1>3, <1>4, <1>5 DEF Tells, Same, Kept
<1>8. s.posture = "nominal" => ~Reg!BelowBaseline(s)
  BY <1>4, <1>5 DEF Reg!BelowBaseline
<1>9. s.batchPosture = FALSE /\ (r.posture = "safe_mode" => s.posture = "safe_mode")
  BY <1>3, <1>4, <1>5 DEF Same, Kept
<1>10. QED
  BY <1>5, <1>6, <1>7, <1>8, <1>9

\* _mark_healthy_probe().
LEMMA MarkHealthyFields ==
  ASSUME NEW r \in Reg!Registry
  PROVE  LET s == Reg!MarkHealthy(r)
         IN  /\ s \in Reg!Registry
             /\ s.state = r.state /\ s.previous = r.previous /\ s.heard = r.heard
             /\ s.batchPosture = r.batchPosture /\ s.batchingEvents = r.batchingEvents
             /\ r.posture = "safe_mode" => s.posture = "safe_mode"
<1> DEFINE s == Reg!MarkHealthy(r)
<1>1. CASE r.posture # "recovering"
  BY <1>1 DEF Reg!MarkHealthy
<1>2. CASE r.posture = "recovering" /\ r.healthy + 1 >= Reg!RECOVERY_PROBES_REQUIRED
  <2>1. s = [r EXCEPT !.posture = "nominal", !.healthy = 0]
    BY <1>2 DEF Reg!MarkHealthy
  <2>2. "nominal" \in Reg!Posture /\ 0 \in 0..2
    BY DEF Reg!Posture
  <2>3. QED
    BY <1>2, <2>1, <2>2 DEF Reg!Registry
<1>3. CASE r.posture = "recovering" /\ ~(r.healthy + 1 >= Reg!RECOVERY_PROBES_REQUIRED)
  <2>1. s = [r EXCEPT !.healthy = r.healthy + 1]
    BY <1>3 DEF Reg!MarkHealthy
  <2>2. r.healthy + 1 \in 0..2
    BY <1>3, RegistryFields DEF Reg!RECOVERY_PROBES_REQUIRED
  <2>3. QED
    BY <1>3, <2>1, <2>2 DEF Reg!Registry
<1>4. QED
  BY <1>1, <1>2, <1>3

\* A new posture.
Postured(r, b, p, h) ==
  [r EXCEPT !.batchPosture = b, !.posture = p, !.healthy = h, !.heardPosture = p]

\* Its fields.
LEMMA PosturedFields ==
  ASSUME NEW r \in Reg!Registry, NEW b \in BOOLEAN, NEW p \in Reg!Posture, NEW h \in 0..2
  PROVE  LET s == Postured(r, b, p, h)
         IN  /\ s \in Reg!Registry /\ s.batchPosture = b /\ s.posture = p
             /\ s.state = r.state /\ s.heard = r.heard
             /\ s.batchingEvents = r.batchingEvents
  BY DEF Reg!Registry, Postured

\* The end of enter_safe_mode() and exit_safe_mode().
LEMMA EnterFields ==
  ASSUME NEW r \in Reg!Registry, NEW p \in Reg!Posture
  PROVE  LET s == Reg!Enter(r, p)
         IN  /\ s \in Reg!Registry /\ Tells(r, s) /\ s.batchPosture = FALSE /\ s.posture = p
<1> DEFINE s == Reg!Enter(r, p)
<1>1. s = Postured(r, FALSE, p, 0)
  BY DEF Reg!Enter, Postured
<1> HIDE DEF s
<1>2. /\ s \in Reg!Registry /\ s.batchPosture = FALSE /\ s.posture = p
      /\ s.state = r.state /\ s.heard = r.heard /\ s.batchingEvents = r.batchingEvents
  <2> DEFINE b == FALSE
  <2>1. b \in BOOLEAN /\ 0 \in 0..2
    OBVIOUS
  <2>2. s = Postured(r, b, p, 0)
    BY <1>1
  <2> HIDE DEF b
  <2>3. /\ s \in Reg!Registry /\ s.batchPosture = b /\ s.posture = p
        /\ s.state = r.state /\ s.heard = r.heard /\ s.batchingEvents = r.batchingEvents
    BY <2>1, <2>2, PosturedFields
  <2>4. QED
    BY <2>3 DEF b
<1>3. QED
  BY <1>2 DEF s, Tells

\* enter_safe_mode().
LEMMA EnterSafeModeFields ==
  ASSUME NEW r \in Reg!Registry, use.order \in Seq(Cap)
  PROVE  LET s == Reg!EnterSafeMode(r)
         IN  /\ s \in Reg!Registry /\ Tells(r, s) /\ s.batchPosture = FALSE
             /\ s.posture = "safe_mode"
<1> DEFINE d == [Reg!Deferred(r) EXCEPT !.saved = r.state]
           t == Reg!SetAll(d, Reg!Order, Reg!AllL1)
<1>1. d \in Reg!Registry /\ Tells(r, d)
  BY DeferredFields
<1>2. Reg!AllL1 \in Reg!Levels
  BY DEF Reg!AllL1, Reg!Levels, Reg!Level
<1>3. Follows(d, t)
  BY <1>1, <1>2, SetAllFollows DEF Reg!Order
<1>4. t \in Reg!Registry /\ Tells(r, t)
  BY <1>1, <1>3, TellsOn DEF Follows
<1>5. Reg!EnterSafeMode(r) = Reg!Enter(t, "safe_mode")
  BY DEF Reg!EnterSafeMode
<1> HIDE DEF t
<1> DEFINE s == Reg!Enter(t, "safe_mode")
<1>6. "safe_mode" \in Reg!Posture
  BY DEF Reg!Posture
<1>7. s \in Reg!Registry /\ Tells(t, s) /\ s.batchPosture = FALSE /\ s.posture = "safe_mode"
  BY <1>4, <1>6, EnterFields
<1> HIDE DEF s
<1>8. Tells(r, s)
  BY <1>4, <1>7, TellsOn
<1>9. QED
  BY <1>5, <1>7, <1>8 DEF s

\* exit_safe_mode().
LEMMA ExitSafeModeFields ==
  ASSUME NEW r \in Reg!Registry, use.order \in Seq(Cap), None \notin Reg!Levels
  PROVE  LET s == Reg!ExitSafeMode(r)
         IN  /\ s \in Reg!Registry /\ Tells(r, s) /\ s.posture = "recovering"
             /\ s.batchPosture \in {FALSE, r.batchPosture}
<1>0. "recovering" \in Reg!Posture
  BY DEF Reg!Posture
<1>1. CASE r.saved = None
  <2> DEFINE s == [r EXCEPT !.posture = "recovering", !.healthy = 0,
                            !.heardPosture = "recovering"]
  <2>1. s = Postured(r, r.batchPosture, "recovering", 0)
    BY DEF Reg!Registry, Postured
  <2>2. r.batchPosture \in BOOLEAN /\ 0 \in 0..2
    BY RegistryFields
  <2>3. /\ s \in Reg!Registry /\ s.posture = "recovering" /\ s.batchPosture = r.batchPosture
        /\ s.state = r.state /\ s.heard = r.heard /\ s.batchingEvents = r.batchingEvents
    <3> HIDE DEF s
    <3>1. QED
      BY <1>0, <2>1, <2>2, PosturedFields
  <2>4. Reg!ExitSafeMode(r) = s
    BY <1>1 DEF Reg!ExitSafeMode
  <2> HIDE DEF s
  <2>5. QED
    BY <2>3, <2>4 DEF Tells
<1>2. CASE r.saved # None
  <2> DEFINE t == Reg!SetAll(Reg!Deferred(r), Reg!Order, r.saved)
  <2>1. r.saved \in Reg!Levels
    BY <1>2, RegistryFields
  <2>2. Follows(Reg!Deferred(r), t)
    BY <2>1, DeferredFields, SetAllFollows DEF Reg!Order
  <2>3. t \in Reg!Registry /\ Tells(r, t)
    BY <2>2, DeferredFields, TellsOn DEF Follows
  <2>4. Reg!ExitSafeMode(r) = Reg!Enter(t, "recovering")
    BY <1>2 DEF Reg!ExitSafeMode
  <2> HIDE DEF t
  <2> DEFINE s == Reg!Enter(t, "recovering")
  <2>5. s \in Reg!Registry /\ Tells(t, s) /\ s.batchPosture = FALSE /\ s.posture = "recovering"
    BY <1>0, <2>3, EnterFields
  <2> HIDE DEF s
  <2>6. Tells(r, s)
    BY <2>3, <2>5, TellsOn
  <2>7. QED
    BY <2>4, <2>5, <2>6 DEF s
<1>3. QED
  BY <1>1, <1>2

\* The beginning of batch_events().
LEMMA BatchEnterFields ==
  ASSUME NEW r \in Reg!Registry
  PROVE  LET s == Reg!BatchEnter(r)
         IN  /\ s \in Reg!Registry
             /\ s.state = r.state /\ s.heard = r.heard /\ s.posture = r.posture
             /\ s.batchPosture = TRUE /\ s.batchingEvents = TRUE
  BY DEF Reg!BatchEnter, Reg!Registry

\* Its end.
LEMMA BatchExitFields ==
  ASSUME NEW r \in Reg!Registry, NEW snapshot
  PROVE  LET s == Reg!BatchExit(r, snapshot)
         IN  /\ s \in Reg!Registry
             /\ s.batchPosture = FALSE /\ s.batchingEvents = FALSE
             /\ \A c \in Cap : \/ s.heard[c] = s.state[c]
                               \/ /\ snapshot[c] = s.state[c]
                                  /\ s.heard[c] = r.heard[c]
             /\ r.posture = "safe_mode" => s.posture = "safe_mode"
             /\ s.posture = "nominal" => ~Reg!BelowBaseline(s)
<1> DEFINE h == [c \in Cap |-> IF snapshot[c] # r.state[c] THEN r.state[c] ELSE r.heard[c]]
           t == [r EXCEPT !.batchingEvents = FALSE, !.batchPosture = FALSE, !.heard = h]
           s == Reg!UpdatePosture(t)
<1>1. h \in Reg!Levels
  BY RegistryFields DEF Reg!Levels
<1>2. \A c \in Cap : h[c] = r.state[c] \/ (snapshot[c] = r.state[c] /\ h[c] = r.heard[c])
  OBVIOUS
<1>3. Reg!BatchExit(r, snapshot) = s
  BY DEF Reg!BatchExit
<1> HIDE DEF h
<1>4. /\ t \in Reg!Registry /\ t.posture = r.posture /\ t.heard = h /\ t.state = r.state
      /\ t.batchPosture = FALSE /\ t.batchingEvents = FALSE
  BY <1>1 DEF Reg!Registry
<1> HIDE DEF t
<1>5. /\ s \in Reg!Registry /\ Same(t, s)
      /\ t.posture = "safe_mode" => s.posture = "safe_mode"
      /\ s.posture = "nominal" => ~Reg!BelowBaseline(s)
  BY <1>4, UpdateFields
<1> HIDE DEF s
<1>6. QED
  BY <1>2, <1>3, <1>4, <1>5 DEF Same, Kept

\* It changes no level.
LEMMA BatchExitState ==
  ASSUME NEW r \in Reg!Registry, NEW snapshot
  PROVE  Reg!BatchExit(r, snapshot).state = r.state
<1> DEFINE h == [c \in Cap |-> IF snapshot[c] # r.state[c] THEN r.state[c] ELSE r.heard[c]]
           t == [r EXCEPT !.batchingEvents = FALSE, !.batchPosture = FALSE, !.heard = h]
<1>1. h \in Reg!Levels
  BY RegistryFields DEF Reg!Levels
<1>2. Reg!BatchExit(r, snapshot) = Reg!UpdatePosture(t)
  BY DEF Reg!BatchExit
<1> HIDE DEF h
<1>3. t \in Reg!Registry /\ t.state = r.state
  BY <1>1 DEF Reg!Registry
<1> HIDE DEF t
<1>4. QED
  BY <1>2, <1>3, UpdateFields DEF Same

\* A new registry.
LEMMA FreshFields ==
  /\ Reg!Fresh \in Reg!Registry
  /\ ~Reg!Fresh.batchPosture /\ ~Reg!Fresh.batchingEvents
  /\ Reg!Fresh.heard = Reg!Fresh.state
  /\ ~Reg!BelowBaseline(Reg!Fresh)
<1>1. /\ Reg!AllL1 \in Reg!Levels /\ "nominal" \in Reg!Posture /\ 0 \in 0..2
      /\ FALSE \in BOOLEAN /\ {} \in SUBSET Cap
  BY DEF Reg!AllL1, Reg!Levels, Reg!Level, Reg!Posture
<1>2. Reg!Fresh \in Reg!Registry
  BY <1>1 DEF Reg!Fresh, Reg!Registry
<1>3. ~Reg!BelowBaseline(Reg!Fresh)
  BY DEF Reg!Fresh, Reg!BelowBaseline, Reg!AllL1
<1>4. QED
  BY <1>2, <1>3 DEF Reg!Fresh

\* What a load() under way has yet to set.
LEMMA LoadingFields ==
  ASSUME RegistryAssumption, Reg!TypeOK, loading # None
  PROVE  /\ loading \in Reg!Loadings /\ use.order \in Seq(Cap)
         /\ loading.from.levels \in Reg!Levels /\ loading.from.posture \in Reg!Posture
         /\ loading.at <= Len(use.order) =>
              /\ use.order[loading.at] \in Cap
              /\ loading.from.levels[use.order[loading.at]] \in Reg!Level
<1>1. loading \in Reg!Loadings /\ use.order \in Seq(Cap)
  BY DEF Reg!TypeOK, RegistryAssumption
<1>2. loading.at \in Nat \ {0} /\ loading.from \in Reg!Stored
  BY <1>1 DEF Reg!Loadings
<1>3. loading.from.levels \in Reg!Levels /\ loading.from.posture \in Reg!Posture
  BY <1>2 DEF Reg!Stored
<1>4. ASSUME loading.at <= Len(use.order) PROVE use.order[loading.at] \in Cap
  BY <1>1, <1>2, <1>4
<1>5. QED
  BY <1>1, <1>3, <1>4 DEF Reg!Levels

\* The event log raises in a loop of set_levels.
LEMMA RaiseAtFields ==
  ASSUME NEW r \in Reg!Registry, NEW levels \in Reg!Levels, use.order \in Seq(Cap),
         NEW k \in 1..Len(use.order)
  PROVE  LET s == Reg!RaiseAt(r, k, levels)
         IN  /\ s \in Reg!Registry
             /\ r.posture = "safe_mode" => s.posture = "safe_mode"
<1> DEFINE caps == SubSeq(use.order, 1, k - 1)
           t == Reg!SetAll(r, caps, levels)
           c == use.order[k]
<1>1. caps \in Seq(Cap) /\ c \in Cap
  OBVIOUS
<1>2. levels[c] \in Reg!Level
  BY <1>1 DEF Reg!Levels
<1> HIDE DEF caps, c
<1>3. Follows(r, t)
  BY <1>1, SetAllFollows
<1>4. t \in Reg!Registry /\ (r.posture = "safe_mode" => t.posture = "safe_mode")
  BY <1>3 DEF Follows
<1>5. Reg!RaiseAt(r, k, levels) = Reg!Changed(t, c, levels[c])
  BY DEF Reg!RaiseAt, Reg!Order, t, c, caps
<1> HIDE DEF t
<1> DEFINE s == Reg!Changed(t, c, levels[c])
<1>6. s \in Reg!Registry /\ s.posture = t.posture
  BY <1>1, <1>2, <1>4, ChangedFields
<1> HIDE DEF s
<1>7. QED
  BY <1>4, <1>5, <1>6 DEF s

-----------------------------------------------------------------------------
(* The invariant of the registry *)

\* The open batches.
OpenBatches == {x \in Context : batch[x] # None}

\* HeardLevels, with batches open: what listeners know of a capability is its
\* level, or what it was when a batch that will close began.
HeardInv ==
  "redis" \notin use.ops /\ regFaults = 0 =>
    \A c \in Cap : \/ ~reg.batchingEvents /\ reg.heard[c] = reg.state[c]
                   \/ \E x \in OpenBatches : batch[x][c] = reg.heard[c]

\* A posture that is not deferred is nominal only when it may be.
Nominal(r) == ~r.batchPosture /\ r.posture = "nominal" => ~Reg!BelowBaseline(r)

\* NominalMeansHealthy, with batches open: only they defer the posture.
NominalInv ==
  use.ops \cap {"file", "redis"} = {} /\ regFaults = 0 =>
    /\ reg.batchPosture => OpenBatches # {}
    /\ Nominal(reg)

\* Who loads uses the file.
LoadInv == loading # None => "file" \in use.ops

RegInv == Reg!TypeOK /\ HeardInv /\ NominalInv /\ LoadInv

\* A step that opens and closes no batch.
Plain ==
  /\ reg' \in Reg!Registry /\ batch' = batch
  /\ regFaults' = 0 => regFaults = 0
  /\ "redis" \notin use.ops /\ regFaults' = 0 => Tells(reg, reg')
  /\ use.ops \cap {"file", "redis"} = {} /\ regFaults' = 0 =>
       /\ reg'.batchPosture => reg.batchPosture
       /\ Nominal(reg) => Nominal(reg')
  /\ reg.posture = "safe_mode" /\ reg'.posture # "safe_mode" =>
       Reg!Unsafe \/ Reg!LoadPosture \/ Reg!RehydrateFromRedis

\* A step that changes nothing of the registry is one.
LEMMA StaysPlain ==
  ASSUME reg \in Reg!Registry, reg' = reg, batch' = batch, regFaults' = regFaults
  PROVE  Plain
<1>1. Tells(reg, reg')
  BY DEF Tells
<1>2. reg' \in Reg!Registry /\ reg'.batchPosture = reg.batchPosture
      /\ reg'.posture = reg.posture
  OBVIOUS
<1>3. Nominal(reg) => Nominal(reg')
  OBVIOUS
<1>4. QED
  BY <1>1, <1>2, <1>3 DEF Plain

\* What a registry that follows another is.
LEMMA FollowsPlain ==
  ASSUME NEW r \in Reg!Registry, NEW s, Follows(r, s)
  PROVE  /\ s \in Reg!Registry /\ Tells(r, s)
         /\ s.batchPosture => r.batchPosture
         /\ Nominal(r) => Nominal(s)
         /\ r.posture = "safe_mode" => s.posture = "safe_mode"
<1>1. s \in Reg!Registry /\ Tells(r, s) /\ s.batchPosture = r.batchPosture
      /\ (r.posture = "safe_mode" => s.posture = "safe_mode")
  BY DEF Follows, Kept
<1>2. ASSUME Nominal(r) PROVE Nominal(s)
  BY <1>1, <1>2 DEF Follows, Kept, Nominal
<1>3. QED
  BY <1>1, <1>2

\* Any step of a method is one.
LEMMA SimplePlain ==
  ASSUME RegistryAssumption, Reg!TypeOK, Reg!Simple
  PROVE  Plain
<1>1. reg \in Reg!Registry /\ use.order \in Seq(Cap)
  BY DEF Reg!TypeOK, RegistryAssumption
<1>2. SUFFICES /\ reg' \in Reg!Registry /\ Tells(reg, reg')
               /\ reg'.batchPosture => reg.batchPosture
               /\ Nominal(reg) => Nominal(reg')
               /\ reg.posture = "safe_mode" => reg'.posture = "safe_mode"
  BY DEF Reg!Simple, Plain
<1>3. CASE Reg!Method
  <2>1. PICK c \in Cap, l \in Reg!Level : reg' = Reg!SetLevel(reg, c, l)
    BY <1>1, <1>3 DEF Reg!Method, Reg!Range, Reg!Order
  <2>2. Follows(reg, reg')
    BY <1>1, <2>1, SetLevelFollows
  <2>3. QED
    BY <1>1, <2>2, FollowsPlain
<1>4. CASE Reg!Baseline
  <2>1. reg.state \in Reg!Levels
    BY <1>1, RegistryFields
  <2>2. reg' = [reg EXCEPT !.previous = reg.state]
    BY <1>4 DEF Reg!Baseline
  <2>3. /\ reg' \in Reg!Registry /\ reg'.state = reg.state /\ reg'.heard = reg.heard
        /\ reg'.previous = reg.state /\ reg'.batchPosture = reg.batchPosture
        /\ reg'.batchingEvents = reg.batchingEvents /\ reg'.posture = reg.posture
    BY <1>1, <2>1, <2>2 DEF Reg!Registry
  <2>4. ~Reg!BelowBaseline(reg')
    BY <2>1, <2>3 DEF Reg!BelowBaseline, Reg!Levels, Reg!Level
  <2>5. QED
    BY <2>3, <2>4 DEF Tells, Nominal
<1>5. CASE Reg!Probed
  <2>1. PICK found : reg' = Reg!ApplyProbe(reg, found)
    BY <1>5 DEF Reg!Probed
  <2>2. QED
    BY <1>1, <2>1, ApplyProbeFields DEF Nominal
<1>6. CASE Reg!Marked
  <2>1. reg' = Reg!MarkHealthy(reg) /\ ~Reg!BelowBaseline(reg)
    BY <1>6 DEF Reg!Marked
  <2>2. /\ reg' \in Reg!Registry
        /\ reg'.state = reg.state /\ reg'.previous = reg.previous /\ reg'.heard = reg.heard
        /\ reg'.batchPosture = reg.batchPosture
        /\ reg'.batchingEvents = reg.batchingEvents
        /\ reg.posture = "safe_mode" => reg'.posture = "safe_mode"
    BY <1>1, <2>1, MarkHealthyFields
  <2>3. ~Reg!BelowBaseline(reg')
    BY <2>1, <2>2 DEF Reg!BelowBaseline
  <2>4. QED
    BY <2>2, <2>3 DEF Tells, Nominal
<1>7. CASE Reg!Diff
  <2>1. reg' = [reg EXCEPT !.pending = {}]
    BY <1>7 DEF Reg!Diff
  <2>2. /\ reg' \in Reg!Registry /\ reg'.state = reg.state /\ reg'.heard = reg.heard
        /\ reg'.previous = reg.previous /\ reg'.batchPosture = reg.batchPosture
        /\ reg'.batchingEvents = reg.batchingEvents /\ reg'.posture = reg.posture
    BY <1>1, <2>1 DEF Reg!Registry
  <2>3. Reg!BelowBaseline(reg') <=> Reg!BelowBaseline(reg)
    BY <2>2 DEF Reg!BelowBaseline
  <2>4. QED
    BY <2>2, <2>3 DEF Tells, Nominal
<1>8. QED
  BY <1>3, <1>4, <1>5, <1>6, <1>7 DEF Reg!Simple

\* The event log raises: the registry is one, and safe mode stays.
LEMMA LogRaisesPlain ==
  ASSUME RegistryAssumption, Reg!TypeOK, Reg!LogRaises
  PROVE  Plain
<1>1. reg \in Reg!Registry /\ use.order \in Seq(Cap)
  BY DEF Reg!TypeOK, RegistryAssumption
<1>2. batch' = batch /\ regFaults' # 0
  BY DEF Reg!LogRaises, Reg!TypeOK
<1>3. SUFFICES /\ reg' \in Reg!Registry
               /\ reg.posture = "safe_mode" => reg'.posture = "safe_mode"
  BY <1>2 DEF Plain
<1> DEFINE d == Reg!Deferred(reg)
           e == [d EXCEPT !.saved = reg.state]
<1>4. PICK k \in 1..Len(use.order) :
        \/ \E l \in Reg!Level : reg' = Reg!Changed(reg, use.order[k], l)
        \/ \E found : reg' = Reg!RaiseAt(d, k, Reg!ProbeLevels(found))
        \/ reg' = Reg!RaiseAt(e, k, Reg!AllL1)
        \/ reg.saved # None /\ reg' = Reg!RaiseAt(d, k, reg.saved)
  BY DEF Reg!LogRaises, Reg!Order
<1>5. /\ d \in Reg!Registry /\ d.posture = reg.posture
      /\ e \in Reg!Registry /\ e.posture = reg.posture
  BY <1>1, DeferredFields
<1> HIDE DEF d, e
<1>6. CASE \E l \in Reg!Level : reg' = Reg!Changed(reg, use.order[k], l)
  <2>1. use.order[k] \in Cap
    BY <1>1
  <2>2. PICK l \in Reg!Level : reg' = Reg!Changed(reg, use.order[k], l)
    BY <1>6
  <2> DEFINE s == Reg!Changed(reg, use.order[k], l)
  <2>3. s \in Reg!Registry /\ s.posture = reg.posture
    BY <1>1, <2>1, ChangedFields
  <2> HIDE DEF s
  <2>4. QED
    BY <2>2, <2>3 DEF s
<1>7. CASE \E found : reg' = Reg!RaiseAt(d, k, Reg!ProbeLevels(found))
  BY <1>1, <1>5, <1>7, ProbeLevelsType, RaiseAtFields
<1>8. CASE reg' = Reg!RaiseAt(e, k, Reg!AllL1)
  <2>1. Reg!AllL1 \in Reg!Levels
    BY DEF Reg!AllL1, Reg!Levels, Reg!Level
  <2>2. QED
    BY <1>1, <1>5, <1>8, <2>1, RaiseAtFields
<1>9. CASE reg.saved # None /\ reg' = Reg!RaiseAt(d, k, reg.saved)
  <2>1. reg.saved \in Reg!Levels
    BY <1>1, <1>9, RegistryFields
  <2>2. QED
    BY <1>1, <1>5, <1>9, <2>1, RaiseAtFields
<1>10. QED
  BY <1>4, <1>6, <1>7, <1>8, <1>9

\* A load() goes on.
LEMMA LoadPlain ==
  ASSUME RegistryAssumption, Reg!TypeOK, LoadInv,
         Reg!LoadLevel \/ Reg!LoadRaises \/ Reg!LoadPosture
  PROVE  Plain
<1> DEFINE c == use.order[loading.at]
           l == loading.from.levels[c]
<1>1. /\ reg \in Reg!Registry /\ batch' = batch /\ loading # None
      /\ regFaults \in 0..MaxFaults
  BY DEF Reg!TypeOK, Reg!LoadLevel, Reg!LoadRaises, Reg!LoadPosture
<1>2. /\ loading.from.posture \in Reg!Posture
      /\ loading.at <= Len(use.order) => c \in Cap /\ l \in Reg!Level
  BY <1>1, LoadingFields
<1>3. CASE Reg!LoadLevel
  <2>1. loading.at <= Len(use.order) /\ reg' = Reg!SetLevel(reg, c, l) /\ regFaults' = regFaults
    BY <1>3 DEF Reg!LoadLevel, Reg!Order
  <2>2. c \in Cap /\ l \in Reg!Level
    BY <1>2, <2>1
  <2> HIDE DEF c, l
  <2>3. Follows(reg, reg')
    BY <1>1, <2>1, <2>2, SetLevelFollows
  <2>4. QED
    BY <1>1, <2>1, <2>3, FollowsPlain DEF Plain
<1>4. CASE Reg!LoadRaises
  <2>1. /\ loading.at <= Len(use.order) /\ reg' = Reg!Changed(reg, c, l)
        /\ regFaults' = regFaults + 1
    BY <1>4 DEF Reg!LoadRaises, Reg!Order
  <2>2. c \in Cap /\ l \in Reg!Level /\ regFaults' # 0
    BY <1>1, <1>2, <2>1
  <2> HIDE DEF c, l
  <2>3. reg' \in Reg!Registry /\ reg'.posture = reg.posture
    <3> DEFINE s == Reg!Changed(reg, c, l)
    <3>1. s \in Reg!Registry /\ s.posture = reg.posture
      BY <1>1, <2>2, ChangedFields
    <3>2. reg' = s
      BY <2>1
    <3> HIDE DEF s
    <3>3. QED
      BY <3>1, <3>2
  <2>4. QED
    BY <1>1, <2>2, <2>3 DEF Plain
<1>5. CASE Reg!LoadPosture
  <2>1. reg' = [reg EXCEPT !.posture = loading.from.posture] /\ regFaults' = regFaults
    BY <1>5 DEF Reg!LoadPosture
  <2>2. reg' \in Reg!Registry /\ Tells(reg, reg')
    BY <1>1, <1>2, <2>1 DEF Reg!Registry, Tells
  <2>3. use.ops \cap {"file", "redis"} # {}
    BY <1>1 DEF LoadInv
  <2>4. QED
    BY <1>1, <1>5, <2>1, <2>2, <2>3 DEF Plain
<1>6. QED
  BY <1>3, <1>4, <1>5

\* The steps of the stores.
LEMMA StoresPlain ==
  ASSUME RegistryAssumption, Reg!TypeOK,
         \/ Reg!Status \/ Reg!SaveLevels \/ Reg!SavePosture \/ Reg!LoadFile
         \/ Reg!PersistLevels \/ Reg!PersistPosture \/ Reg!RehydrateFromRedis
  PROVE  Plain
<1>1. reg \in Reg!Registry /\ use.order \in Seq(Cap)
  BY DEF Reg!TypeOK, RegistryAssumption
<1>2. CASE Reg!Status
  <2>1. /\ batch' = batch /\ regFaults' = regFaults
        /\ \E found : reg' = Reg!ApplyProbe(reg, found)
    BY <1>2 DEF Reg!Status
  <2>2. PICK found : reg' = Reg!ApplyProbe(reg, found)
    BY <2>1
  <2>3. QED
    BY <1>1, <2>1, <2>2, ApplyProbeFields DEF Nominal, Plain
<1>3. CASE \/ Reg!SaveLevels \/ Reg!SavePosture \/ Reg!LoadFile
           \/ Reg!PersistLevels \/ Reg!PersistPosture
  BY <1>1, <1>3, StaysPlain
     DEF Reg!SaveLevels, Reg!SavePosture, Reg!LoadFile, Reg!PersistLevels, Reg!PersistPosture
<1>5. CASE Reg!RehydrateFromRedis
  <2> DEFINE P == {Reg!Or(redis.posture, reg.posture), "degraded"}
             L == Reg!Or(redis.levels, reg.state)
  <2>1. /\ batch' = batch /\ regFaults' = regFaults /\ "redis" \in use.ops
        /\ \/ reg' = [reg EXCEPT !.posture = "degraded"]
           \/ \E p \in P : reg' = [reg EXCEPT !.state = L, !.posture = p]
    BY <1>5 DEF Reg!RehydrateFromRedis
  <2>0. L \in Reg!Levels /\ P \subseteq Reg!Posture
    <3>1. redis.levels \in Reg!Levels \cup {None} /\ redis.posture \in Reg!Posture \cup {None}
      BY DEF Reg!TypeOK
    <3>2. reg.state \in Reg!Levels /\ reg.posture \in Reg!Posture /\ "degraded" \in Reg!Posture
      BY <1>1, RegistryFields DEF Reg!Posture
    <3>3. QED
      BY <3>1, <3>2 DEF Reg!Or
  <2> HIDE DEF P, L
  <2>2. reg' \in Reg!Registry
    <3>1. "degraded" \in Reg!Posture
      BY DEF Reg!Posture
    <3>2. CASE reg' = [reg EXCEPT !.posture = "degraded"]
      BY <1>1, <3>1, <3>2 DEF Reg!Registry
    <3>3. CASE \E p \in P : reg' = [reg EXCEPT !.state = L, !.posture = p]
      BY <1>1, <2>0, <3>3 DEF Reg!Registry
    <3>4. QED
      BY <2>1, <3>2, <3>3
  <2>3. use.ops \cap {"file", "redis"} # {}
    BY <2>1
  <2>4. QED
    BY <1>5, <2>1, <2>2, <2>3 DEF Plain
<1>6. QED
  BY <1>2, <1>3, <1>5

\* Safe mode begins and ends.
LEMMA SafePlain ==
  ASSUME RegistryAssumption, Reg!TypeOK, Reg!Safe \/ Reg!Unsafe
  PROVE  Plain
<1>1. reg \in Reg!Registry /\ use.order \in Seq(Cap) /\ None \notin Reg!Levels
  BY DEF Reg!TypeOK, RegistryAssumption
<1>2. CASE Reg!Safe
  <2>1. batch' = batch /\ regFaults' = regFaults /\ reg' = Reg!EnterSafeMode(reg)
    BY <1>2 DEF Reg!Safe
  <2>2. QED
    BY <1>1, <2>1, EnterSafeModeFields DEF Nominal, Plain
<1>3. CASE Reg!Unsafe
  <2>1. batch' = batch /\ regFaults' = regFaults /\ reg' = Reg!ExitSafeMode(reg)
    BY <1>3 DEF Reg!Unsafe
  <2>2. QED
    BY <1>1, <1>3, <2>1, ExitSafeModeFields DEF Nominal, Plain
<1>4. QED
  BY <1>2, <1>3

-----------------------------------------------------------------------------
(* The registry keeps its invariant *)

\* An opened and a closed batch, and a restart, keep what listeners know.
LEMMA BatchKeeps ==
  ASSUME RegistryAssumption, RegInv, use' = use,
         (\E x \in Context : Reg!OpenBatch(x) \/ Reg!CloseBatch(x)) \/ Reg!Restart
  PROVE  reg' \in Reg!Registry /\ HeardInv' /\ NominalInv'
<1>1. reg \in Reg!Registry /\ batch \in [Context -> Reg!Levels \cup {None}]
  BY DEF RegInv, Reg!TypeOK
<1>2. ASSUME NEW x \in Context, Reg!OpenBatch(x)
      PROVE  reg' \in Reg!Registry /\ HeardInv' /\ NominalInv'
  <2>1. /\ batch[x] = None /\ batch' = [batch EXCEPT ![x] = reg.state]
        /\ reg' = Reg!BatchEnter(reg) /\ regFaults' = regFaults
    BY <1>2 DEF Reg!OpenBatch
  <2>2. /\ reg' \in Reg!Registry
        /\ reg'.state = reg.state /\ reg'.heard = reg.heard /\ reg'.posture = reg.posture
        /\ reg'.batchPosture = TRUE
    BY <1>1, <2>1, BatchEnterFields
  <2>3. batch'[x] = reg.state /\ \A y \in Context : y # x => batch'[y] = batch[y]
    BY <1>1, <2>1
  <2>4. x \in OpenBatches' /\ \A y \in OpenBatches : y \in OpenBatches' /\ y # x
    <3>1. reg.state # None
      BY <1>1, RegistryFields DEF RegistryAssumption
    <3>2. QED
      BY <2>1, <2>3, <3>1 DEF OpenBatches
  <2>5. HeardInv'
    <3>1. SUFFICES ASSUME "redis" \notin use.ops, regFaults = 0, NEW c \in Cap
                   PROVE  \E y \in OpenBatches' : batch'[y][c] = reg'.heard[c]
      BY <2>1 DEF HeardInv
    <3>2. CASE reg.heard[c] = reg.state[c]
      BY <2>2, <2>3, <2>4, <3>2
    <3>3. CASE \E y \in OpenBatches : batch[y][c] = reg.heard[c]
      BY <2>2, <2>3, <2>4, <3>3 DEF OpenBatches
    <3>4. QED
      BY <3>1, <3>2, <3>3 DEF RegInv, HeardInv
  <2>6. NominalInv'
    BY <2>2, <2>4 DEF NominalInv, Nominal
  <2>7. QED
    BY <2>2, <2>5, <2>6
<1>3. ASSUME NEW x \in Context, Reg!CloseBatch(x)
      PROVE  reg' \in Reg!Registry /\ HeardInv' /\ NominalInv'
  <2>1. /\ batch' = [batch EXCEPT ![x] = None]
        /\ reg' = Reg!BatchExit(reg, batch[x]) /\ regFaults' = regFaults
    BY <1>3 DEF Reg!CloseBatch
  <2>2. /\ reg' \in Reg!Registry
        /\ reg'.batchPosture = FALSE /\ reg'.batchingEvents = FALSE
        /\ \A c \in Cap : \/ reg'.heard[c] = reg'.state[c]
                          \/ /\ batch[x][c] = reg'.state[c]
                             /\ reg'.heard[c] = reg.heard[c]
        /\ reg'.posture = "nominal" => ~Reg!BelowBaseline(reg')
    <3> DEFINE s == Reg!BatchExit(reg, batch[x])
    <3>1. /\ s \in Reg!Registry
          /\ s.batchPosture = FALSE /\ s.batchingEvents = FALSE
          /\ \A c \in Cap : \/ s.heard[c] = s.state[c]
                            \/ batch[x][c] = s.state[c] /\ s.heard[c] = reg.heard[c]
          /\ s.posture = "nominal" => ~Reg!BelowBaseline(s)
      BY <1>1, BatchExitFields
    <3>2. reg' = s
      BY <2>1
    <3> HIDE DEF s
    <3>3. QED
      BY <3>1, <3>2
  <2>3. \A y \in OpenBatches : y # x => y \in OpenBatches' /\ batch'[y] = batch[y]
    BY <1>1, <2>1 DEF OpenBatches
  <2>4. HeardInv'
    <3>1. SUFFICES ASSUME "redis" \notin use.ops, regFaults = 0, NEW c \in Cap
                   PROVE  \/ reg'.heard[c] = reg'.state[c]
                          \/ \E y \in OpenBatches' : batch'[y][c] = reg'.heard[c]
      BY <2>1, <2>2 DEF HeardInv
    <3>2. CASE reg'.heard[c] = reg'.state[c]
      BY <3>2
    <3>3. CASE batch[x][c] = reg'.state[c] /\ reg'.heard[c] = reg.heard[c]
      <4>1. reg'.state[c] = reg.state[c]
        BY <1>1, <2>1, BatchExitState
      <4>2. CASE reg.heard[c] = reg.state[c]
        BY <3>3, <4>1, <4>2
      <4>3. CASE \E y \in OpenBatches : batch[y][c] = reg.heard[c]
        BY <2>3, <3>3, <4>3
      <4>4. QED
        BY <3>1, <4>2, <4>3 DEF RegInv, HeardInv
    <3>4. QED
      BY <2>2, <3>2, <3>3
  <2>5. NominalInv'
    BY <2>2 DEF NominalInv, Nominal
  <2>6. QED
    BY <2>2, <2>4, <2>5
<1>4. ASSUME Reg!Restart
      PROVE  reg' \in Reg!Registry /\ HeardInv' /\ NominalInv'
  <2>1. reg' = Reg!Fresh
    BY <1>4 DEF Reg!Restart
  <2>2. QED
    BY <2>1, FreshFields DEF HeardInv, NominalInv, Nominal
<1>5. QED
  BY <1>2, <1>3, <1>4

\* The other steps do.
LEMMA PlainKeeps ==
  ASSUME RegInv, use' = use, Plain
  PROVE  HeardInv' /\ NominalInv'
<1>1. OpenBatches' = OpenBatches /\ batch' = batch
  BY DEF Plain, OpenBatches
<1>2. HeardInv'
  <2>1. SUFFICES ASSUME "redis" \notin use.ops, regFaults' = 0, NEW c \in Cap
                 PROVE  \/ ~reg'.batchingEvents /\ reg'.heard[c] = reg'.state[c]
                        \/ \E x \in OpenBatches : batch[x][c] = reg'.heard[c]
    BY <1>1 DEF HeardInv
  <2>2. \/ ~reg.batchingEvents /\ reg.heard[c] = reg.state[c]
        \/ \E x \in OpenBatches : batch[x][c] = reg.heard[c]
    BY <2>1 DEF RegInv, HeardInv, Plain
  <2>3. Tells(reg, reg')
    BY <2>1 DEF Plain
  <2>4. QED
    BY <2>2, <2>3 DEF Tells
<1>3. NominalInv'
  BY <1>1 DEF RegInv, NominalInv, Plain
<1>4. QED
  BY <1>2, <1>3

\* What else the registry's steps change keeps its type.
LEMMA RestTyped ==
  ASSUME RegistryAssumption, Reg!TypeOK, Reg!Next, reg' \in Reg!Registry
  PROVE  Reg!TypeOK'
<1>1. /\ use \in Use /\ reg \in Reg!Registry
      /\ batch \in [Context -> Reg!Levels \cup {None}]
      /\ loading \in Reg!Loadings \cup {None} /\ persisting \in BOOLEAN
      /\ saving \in Reg!Levels \cup {None} /\ file \in Reg!Stored \cup {None}
      /\ redis \in [levels : Reg!Levels \cup {None}, posture : Reg!Posture \cup {None}]
      /\ before \in Reg!Levels
      /\ regFaults \in 0..MaxFaults
  BY DEF Reg!TypeOK
<1>2. /\ reg.state \in Reg!Levels /\ reg.posture \in Reg!Posture
      /\ reg'.state \in Reg!Levels /\ reg'.posture \in Reg!Posture
  BY <1>1, RegistryFields
<1>3. use' = use
  BY DEF Reg!Next
<1> USE DEF Reg!Files, Reg!Stores
<1>4. CASE Reg!Simple
  BY <1>1, <1>3, <1>4 DEF Reg!Simple, Reg!TypeOK
<1>5. CASE Reg!Safe \/ Reg!Unsafe
  BY <1>1, <1>2, <1>3, <1>5 DEF Reg!Safe, Reg!Unsafe, Reg!TypeOK
<1>6. ASSUME NEW x \in Context, Reg!OpenBatch(x) \/ Reg!CloseBatch(x)
      PROVE  Reg!TypeOK'
  BY <1>1, <1>2, <1>3, <1>6 DEF Reg!OpenBatch, Reg!CloseBatch, Reg!TypeOK
<1>7. CASE Reg!Status
  <2>1. file' \in Reg!Stored
    BY <1>2, <1>7 DEF Reg!Status, Reg!Stored
  <2>2. QED
    BY <1>1, <1>3, <1>7, <2>1 DEF Reg!Status, Reg!TypeOK
<1>8. CASE Reg!SaveLevels
  BY <1>1, <1>2, <1>3, <1>8 DEF Reg!SaveLevels, Reg!TypeOK
<1>9. CASE Reg!SavePosture
  <2>1. file' \in Reg!Stored
    BY <1>1, <1>2, <1>9 DEF Reg!SavePosture, Reg!Stored
  <2>2. QED
    BY <1>1, <1>3, <1>9, <2>1 DEF Reg!SavePosture, Reg!TypeOK
<1>10. CASE Reg!RehydrateFromRedis
  BY <1>1, <1>3, <1>10 DEF Reg!RehydrateFromRedis, Reg!TypeOK
<1>11. CASE Reg!Restart
  BY <1>1, <1>3, <1>11 DEF Reg!Restart, Reg!TypeOK
<1>12. CASE Reg!PersistLevels \/ Reg!PersistPosture
  <2>1. redis' \in [levels : Reg!Levels \cup {None}, posture : Reg!Posture \cup {None}]
    BY <1>1, <1>2, <1>12 DEF Reg!PersistLevels, Reg!PersistPosture
  <2>2. QED
    BY <1>1, <1>3, <1>12, <2>1 DEF Reg!PersistLevels, Reg!PersistPosture, Reg!TypeOK
<1>13. CASE Reg!LogRaises \/ Reg!LoadRaises
  <2>1. regFaults' \in 0..MaxFaults
    BY <1>1, <1>13, BoundAssumption DEF Reg!LogRaises, Reg!LoadRaises
  <2>2. QED
    BY <1>1, <1>3, <1>13, <2>1 DEF Reg!LogRaises, Reg!LoadRaises, Reg!TypeOK
<1>14. CASE Reg!LoadFile \/ Reg!LoadLevel \/ Reg!LoadPosture
  <2>1. loading' \in Reg!Loadings \cup {None}
    BY <1>1, <1>14 DEF Reg!LoadFile, Reg!LoadLevel, Reg!LoadPosture, Reg!Loadings
  <2>2. QED
    BY <1>1, <1>3, <1>14, <2>1 DEF Reg!LoadFile, Reg!LoadLevel, Reg!LoadPosture, Reg!TypeOK
<1>15. QED
  BY <1>4, <1>5, <1>6, <1>7, <1>8, <1>9, <1>10, <1>11, <1>12, <1>13, <1>14 DEF Reg!Next

\* A load begins only where the file is used.
LEMMA LoadKeeps ==
  ASSUME LoadInv, Reg!Next
  PROVE  LoadInv'
<1>1. use' = use
  BY DEF Reg!Next
<1>2. loading' = loading \/ loading' = None \/ "file" \in use.ops \/ loading # None
  BY DEF Reg!Next, Reg!Stores, Reg!Simple, Reg!Safe, Reg!Unsafe, Reg!Status, Reg!OpenBatch,
         Reg!CloseBatch, Reg!SaveLevels, Reg!SavePosture, Reg!LoadFile, Reg!LoadLevel,
         Reg!LoadRaises, Reg!LoadPosture, Reg!Restart, Reg!PersistLevels,
         Reg!PersistPosture, Reg!RehydrateFromRedis, Reg!LogRaises
<1>3. QED
  BY <1>1, <1>2 DEF LoadInv

\* Every step of the registry keeps the invariant, and says why safe mode ended.
LEMMA RegStep ==
  ASSUME RegistryAssumption, RegInv, Reg!Next
  PROVE  /\ RegInv'
         /\ reg.posture = "safe_mode" /\ reg'.posture # "safe_mode" =>
              Reg!Unsafe \/ Reg!Restart \/ Reg!LoadPosture \/ Reg!RehydrateFromRedis
<1>1. use' = use /\ Reg!TypeOK /\ reg \in Reg!Registry
  BY DEF Reg!Next, RegInv, Reg!TypeOK
<1>2. \/ Plain
      \/ (\E x \in Context : Reg!OpenBatch(x) \/ Reg!CloseBatch(x)) \/ Reg!Restart
  BY <1>1, SimplePlain, LogRaisesPlain, LoadPlain, StoresPlain, SafePlain DEF Reg!Next, RegInv
<1>3. reg' \in Reg!Registry /\ HeardInv' /\ NominalInv'
  BY <1>1, <1>2, BatchKeeps, PlainKeeps DEF Plain
<1>4. Reg!TypeOK' /\ LoadInv'
  BY <1>1, <1>3, RestTyped, LoadKeeps DEF RegInv
<1>5. ASSUME NEW x \in Context, Reg!OpenBatch(x) \/ Reg!CloseBatch(x),
             reg.posture = "safe_mode"
      PROVE  reg'.posture = "safe_mode"
  <2>1. reg' = Reg!BatchEnter(reg) \/ reg' = Reg!BatchExit(reg, batch[x])
    BY <1>5 DEF Reg!OpenBatch, Reg!CloseBatch
  <2>2. Reg!BatchEnter(reg).posture = "safe_mode"
    BY <1>1, <1>5, BatchEnterFields
  <2>3. Reg!BatchExit(reg, batch[x]).posture = "safe_mode"
    BY <1>1, <1>5, BatchExitFields
  <2>4. QED
    BY <2>1, <2>2, <2>3
<1>6. QED
  BY <1>2, <1>3, <1>4, <1>5 DEF RegInv, Plain

\* At first nothing is known, stored or open.
LEMMA RegInit ==
  ASSUME BoundAssumption, Reg!Init
  PROVE  RegInv
<1>1. reg = Reg!Fresh
  BY DEF Reg!Init
<1>2. Reg!AllL1 \in Reg!Levels
  BY DEF Reg!AllL1, Reg!Levels, Reg!Level
<1>3. Reg!TypeOK
  <2>1. redis \in [levels : Reg!Levels \cup {None}, posture : Reg!Posture \cup {None}]
    BY DEF Reg!Init
  <2>2. reg \in Reg!Registry /\ before \in Reg!Levels
    BY <1>1, <1>2, FreshFields DEF Reg!Init
  <2>3. /\ batch \in [Context -> Reg!Levels \cup {None}]
        /\ loading = None /\ saving = None /\ file = None /\ use \in Use
    BY DEF Reg!Init
  <2>4. persisting \in BOOLEAN
    BY DEF Reg!Init
  <2>5. regFaults \in 0..MaxFaults
    BY BoundAssumption DEF Reg!Init, BoundAssumption
  <2>6. QED
    BY <2>1, <2>2, <2>3, <2>4, <2>5 DEF Reg!TypeOK
<1>4. HeardInv /\ NominalInv /\ LoadInv
  BY <1>1, FreshFields DEF HeardInv, NominalInv, Nominal, LoadInv, Reg!Init
<1>5. QED
  BY <1>3, <1>4 DEF RegInv

-----------------------------------------------------------------------------
(* The ecosystem *)

\* What is followed is one of the two.
LEMMA EitherStep ==
  ASSUME [EitherNext]_all
  PROVE  [Next]_vars /\ [Reg!Next]_regVars
  BY DEF EitherNext, all, vars, regVars

\* Its phase is Upgrade's: what the theorems above say holds in it.
THEOREM EitherIsUpgrade == EitherSpec => Spec
<1>1. EitherInit => Init
  BY DEF EitherInit
<1>2. [EitherNext]_all => [Next]_vars
  BY EitherStep
<1>3. QED
  BY <1>1, <1>2, PTL DEF EitherSpec, Spec

\* The registry keeps its invariant when nothing happens.
LEMMA RegStays == RegInv /\ UNCHANGED regVars => RegInv'
<1>1. ASSUME RegInv, UNCHANGED regVars PROVE RegInv'
  <2>1. /\ use' = use /\ reg' = reg /\ batch' = batch /\ loading' = loading
        /\ saving' = saving /\ persisting' = persisting /\ file' = file
        /\ redis' = redis /\ before' = before /\ regFaults' = regFaults
    BY <1>1 DEF regVars
  <2>2. Reg!TypeOK'
    BY <1>1, <2>1 DEF RegInv, Reg!TypeOK
  <2>3. HeardInv' /\ NominalInv' /\ LoadInv'
    BY <1>1, <2>1 DEF RegInv, HeardInv, NominalInv, LoadInv, OpenBatches
  <2>4. QED
    BY <2>2, <2>3 DEF RegInv
<1>2. QED
  BY <1>1

\* The registry's invariant holds all along.
LEMMA RegAlways == EitherSpec => []RegInv
<1>1. EitherInit => RegInv
  BY RegInit, BoundAssumption DEF EitherInit
<1>2. RegInv /\ [EitherNext]_all => RegInv'
  BY EitherStep, RegStep, RegStays, RegistryAssumption
<1>3. QED
  BY <1>1, <1>2, PTL DEF EitherSpec

\* Whatever is loaded, rehydrated, torn or raised, the registry's fields and the
\* stores, and the files of upgrades, keep their types.
THEOREM EcosystemTypes == EitherSpec => []TypesOK
<1>1. TypeInv => TypeOK
  BY DEF TypeInv, Typed, TypeOK, Proc, Stage
<1>2. RegInv => Reg!TypeOK
  BY DEF RegInv
<1>3. TypeInv /\ RegInv => TypesOK
  BY <1>1, <1>2 DEF TypesOK
<1>4. QED
  BY InitTyped, StepTyped, EitherIsUpgrade, RegAlways, <1>3, PTL DEF Spec

\* However any number of batch_events() blocks of any threads overlap, once they
\* are closed the listeners of capability.changed know every level, and a nominal
\* posture means that no capability is below its baseline.
THEOREM ReportsTrueAlways == EitherSpec => []ReportsTrue
<1>1. ASSUME RegInv PROVE Reg!HeardLevels
  <2>1. SUFFICES ASSUME ~Reg!Batching, "redis" \notin use.ops, regFaults = 0
                 PROVE  reg.heard = reg.state
    BY DEF Reg!HeardLevels
  <2>2. OpenBatches = {}
    BY <2>1 DEF Reg!Batching, OpenBatches
  <2>3. \A c \in Cap : reg.heard[c] = reg.state[c]
    BY <1>1, <2>1, <2>2 DEF RegInv, HeardInv
  <2>4. reg.heard \in [Cap -> Reg!Level] /\ reg.state \in [Cap -> Reg!Level]
    BY <1>1, RegistryFields DEF RegInv, Reg!TypeOK, Reg!Levels
  <2>5. QED
    BY <2>3, <2>4
<1>2. ASSUME RegInv PROVE Reg!NominalMeansHealthy
  <2>1. SUFFICES ASSUME ~Reg!Batching, use.ops \cap {"file", "redis"} = {}, regFaults = 0,
                        reg.posture = "nominal"
                 PROVE  ~Reg!BelowBaseline(reg)
    BY DEF Reg!NominalMeansHealthy
  <2>2. OpenBatches = {}
    BY <2>1 DEF Reg!Batching, OpenBatches
  <2>3. QED
    BY <1>2, <2>1, <2>2 DEF RegInv, NominalInv, Nominal
<1>3. RegInv => ReportsTrue
  BY <1>1, <1>2 DEF ReportsTrue
<1>4. QED
  BY RegAlways, <1>3, PTL

\* Safe mode ends with exit_safe_mode(), a restart or what a store holds; no
\* probe, batch or level change, and no event log that raises, ends it.
THEOREM SafeModeHeldAlways == EitherSpec => SafeModeHeld
<1> DEFINE Held == reg.posture = "safe_mode" /\ reg'.posture # "safe_mode" =>
                     Reg!Unsafe \/ Reg!Restart \/ Reg!LoadPosture \/ Reg!RehydrateFromRedis
<1>1. RegInv /\ [EitherNext]_all => [Held]_regVars
  BY EitherStep, RegStep, RegistryAssumption
<1>2. RegInv /\ [EitherNext]_all => [Held]_(Reg!vars)
  BY <1>1 DEF regVars, Reg!vars, Reg!Stores, Reg!Files
<1>3. QED
  BY RegAlways, <1>2, PTL DEF EitherSpec, SafeModeHeld, Reg!SafeModeHeld

=============================================================================
