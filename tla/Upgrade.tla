------------------------------- MODULE Upgrade -------------------------------
(***************************************************************************)
(* core/upgrade.py, UpgradeTransaction and UpgradeEngine, as the HTTP      *)
(* server's background poller and "3s doctor --revert" run them over       *)
(* ~/.3surgeons/config.yaml and upgrade_snapshot.json.                     *)
(*                                                                         *)
(* Every write is Path.write_text: the file is truncated, then written.    *)
(* A process may be killed between any two file operations, or one of them *)
(* may raise OSError (a full disk); several servers may share the files.   *)
(* A write that raises after the truncation leaves the file empty.         *)
(*                                                                         *)
(* Of config.yaml the module keeps the phase key (0 when there is none)    *)
(* and whether the user's other settings are in it.  When to probe is left *)
(* open: the poller's interval only spaces the probes.                     *)
(***************************************************************************)
EXTENDS Naturals

CONSTANTS Server, Doctor,   \* processes: HTTP servers, doctor --revert runs
          FirstConfig,      \* the user's config.yaml, if there is one at first
          Serial,           \* TRUE: doctor --revert runs only while no server does
          Mortal,           \* the processes that may be killed
          MaxKills, MaxFaults,
          Missing           \* no such file

Content == [phase : 0..3, user : BOOLEAN]

Empty == [phase |-> 0, user |-> FALSE]

ASSUME FirstConfigAssumption == FirstConfig \in Content /\ FirstConfig.user

ASSUME BoundAssumption == MaxKills \in Nat /\ MaxFaults \in Nat

Snapshot == [status : {"in_progress", "committed"}, from : 1..3, to : 1..3,
             backup : Content]

ASSUME MissingAssumption == Missing \notin Content \cup Snapshot

VARIABLES installed, \* whether the user had a config.yaml at first
          config,   \* config.yaml: Missing or its content
          snap,     \* upgrade_snapshot.json: Missing, Empty (torn) or a snapshot
          infra,    \* what a probe finds: the event bus, and how many backends
          proc,     \* each process
          kills, faults

vars == <<installed, config, snap, infra, proc, kills, faults>>

Process == Server \cup Doctor

\* op is the file operation a process is inside of, stage how far it is.
Op == {"down", "dead", "idle", "recover", "snapshot", "apply", "commit", "log",
       "restore", "unlink"}

TypeOK ==
  /\ installed \in BOOLEAN
  /\ config \in Content \cup {Missing}
  /\ snap \in Snapshot \cup {Missing, Empty}
  /\ infra \in [bus : BOOLEAN, paths : 0..2]
  /\ \A p \in Process :
       /\ proc[p].op \in Op
       /\ proc[p].stage \in {"read", "open", "write"}
       /\ proc[p].why \in {"none", "recover", "failed", "revert"}
       /\ proc[p].phase \in 1..3 /\ proc[p].target \in 1..3
       /\ proc[p].data \in Content \cup Snapshot
  /\ kills \in 0..MaxKills
  /\ faults \in 0..MaxFaults

Down == [op |-> "down", stage |-> "read", why |-> "none", phase |-> 1, target |-> 1,
         data |-> Empty]

Init ==
  /\ installed \in BOOLEAN
  /\ config = IF installed THEN FirstConfig ELSE Missing
  /\ snap = Missing
  /\ infra \in [bus : BOOLEAN, paths : 0..2]
  /\ proc = [p \in Process |-> Down]
  /\ kills = 0 /\ faults = 0

PhaseOf(c) == IF c = Missing \/ c = Empty THEN 1 ELSE IF c.phase = 0 THEN 1 ELSE c.phase

Whole(s) == s \notin {Missing, Empty}

Text(c) == IF c = Missing THEN Empty ELSE c

At(p, op, stage) == proc[p].op = op /\ proc[p].stage = stage

\* The process goes on to an operation.
Go(p, op, stage) == proc' = [proc EXCEPT ![p].op = op, ![p].stage = stage]

GoWith(p, op, stage, data) ==
  proc' = [proc EXCEPT ![p].op = op, ![p].stage = stage, ![p].data = data]

Files == <<config, snap>>

Rest == <<infra, kills, faults>>

-----------------------------------------------------------------------------
(* Start-up and decisions *)

\* Config.discover, then UpgradeEngine.__init__, which looks at the snapshot.
Discover(p) ==
  /\ p \in Server
  /\ At(p, "down", "read")
  /\ Serial => \A d \in Doctor : proc[d].op = "down"
  /\ proc' = [proc EXCEPT
       ![p] = [Down EXCEPT !.op = "down", !.stage = "open", !.phase = PhaseOf(config)]]
  /\ UNCHANGED <<Files, Rest>>

NeedsRecovery == Whole(snap) /\ snap.status = "in_progress"

StartUp(p) ==
  /\ At(p, "down", "open")
  /\ IF NeedsRecovery
     THEN proc' = [proc EXCEPT ![p].op = "recover", ![p].stage = "read",
                               ![p].why = "recover"]
     ELSE Go(p, "idle", "read")
  /\ UNCHANGED <<Files, Rest>>

\* recover(): reads the snapshot for its from_phase; nothing catches what it
\* raises, and the poller's task ends.
Recover(p) ==
  /\ At(p, "recover", "read")
  /\ IF Whole(snap)
     THEN proc' = [proc EXCEPT ![p].op = "restore", ![p].target = snap.from]
     ELSE Go(p, "dead", "read")
  /\ UNCHANGED <<Files, Rest>>

Detected(i) == IF i.bus THEN 3 ELSE IF i.paths > 0 THEN 2 ELSE 1

\* Mutant: a phase is kept when its infrastructure has gone.
Decide_NoDowngrade(i, current) ==
  IF Detected(i) <= current THEN "no_action"
  ELSE IF i.paths > 1 /\ current < 2 THEN "interactive_chooser" ELSE "silent_upgrade"

Decide(i, current) ==
  CASE Detected(i) = current -> "no_action"
    [] Detected(i) < current -> "silent_downgrade"
    [] Detected(i) > current ->
         IF i.paths > 1 /\ current < 2 THEN "interactive_chooser" ELSE "silent_upgrade"

\* One probe that leads to a transaction: execute_upgrade begins.
Probe(p) ==
  /\ At(p, "idle", "read")
  /\ Decide(infra, proc[p].phase) \in {"silent_upgrade", "silent_downgrade"}
  /\ proc' = [proc EXCEPT ![p].op = "snapshot", ![p].why = "none",
                          ![p].target = Detected(infra)]
  /\ UNCHANGED <<Files, Rest>>

\* doctor --revert, of a committed snapshot only.
Revert(d) ==
  /\ d \in Doctor
  /\ At(d, "down", "read")
  /\ Serial => \A p \in Server : proc[p] = Down
  /\ Whole(snap) /\ snap.status = "committed"
  /\ proc' = [proc EXCEPT ![d].op = "restore", ![d].why = "revert"]
  /\ UNCHANGED <<Files, Rest>>

-----------------------------------------------------------------------------
(* File operations *)

\* Mutant: recovery leaves the phase that was discovered.
Returned_PhaseKept(p) ==
  CASE proc[p].why = "recover" -> Go(p, "log", "read")
    [] proc[p].why = "failed"  -> Go(p, "idle", "read")
    [] proc[p].why = "revert"  -> Go(p, "down", "read")

\* Where a process goes when rollback() has returned.
Returned(p) ==
  CASE proc[p].why = "recover" ->
         proc' = [proc EXCEPT ![p].op = "log", ![p].stage = "read",
                              ![p].phase = proc[p].target]
    [] proc[p].why = "failed"  -> Go(p, "idle", "read")
    [] proc[p].why = "revert"  -> Go(p, "down", "read")

\* Where it goes when a file operation raises: an upgrade rolls back, and a
\* rollback that raises is only logged.
Raised(p) ==
  CASE proc[p].why = "recover" -> Go(p, "dead", "read")
    [] proc[p].why = "failed"  -> Go(p, "idle", "read")
    [] proc[p].why = "revert"  -> Go(p, "down", "read")
    [] proc[p].why = "none" /\ proc[p].op = "snapshot" -> Go(p, "idle", "read")
    [] proc[p].why = "none" /\ proc[p].op # "snapshot" ->
         proc' = [proc EXCEPT ![p].op = "restore", ![p].stage = "read",
                              ![p].why = "failed"]

\* begin(): is_file() and read_text().
ReadConfig(p) ==
  /\ proc[p].op \in {"snapshot", "apply"} /\ proc[p].stage = "read"
  /\ GoWith(p, proc[p].op, "open", Text(config))
  /\ UNCHANGED <<Files, Rest>>

\* commit(): without a snapshot it returns, and execute_upgrade goes on.
ReadCommit(p) ==
  /\ At(p, "commit", "read")
  /\ CASE Whole(snap)    -> GoWith(p, "commit", "open", snap)
       [] snap = Missing ->
            proc' = [proc EXCEPT ![p].op = "log", ![p].phase = proc[p].target]
       [] snap = Empty   -> Raised(p)
  /\ UNCHANGED <<Files, Rest>>

\* Mutant: rollback() removes the snapshot before it restores.
ReadRestore_UnlinkFirst(p) ==
  /\ At(p, "restore", "read")
  /\ IF Whole(snap) /\ snap.backup # Empty
     THEN GoWith(p, "restore", "open", snap) /\ snap' = Missing
     ELSE /\ CASE Whole(snap)    -> Go(p, "unlink", "read")
               [] snap = Missing -> Returned(p)
               [] snap = Empty   -> Raised(p)
          /\ UNCHANGED snap
  /\ UNCHANGED <<config, Rest>>

\* rollback(): an empty backup is not written.
ReadRestore(p) ==
  /\ At(p, "restore", "read")
  /\ CASE Whole(snap) /\ snap.backup # Empty -> GoWith(p, "restore", "open", snap)
       [] Whole(snap) /\ snap.backup = Empty -> Go(p, "unlink", "read")
       [] snap = Missing -> Returned(p)
       [] snap = Empty   -> Raised(p)
  /\ UNCHANGED <<Files, Rest>>

OnSnapshot(p) == proc[p].op \in {"snapshot", "commit"}

\* write_text, first half.
Open(p) ==
  /\ proc[p].op \in {"snapshot", "apply", "commit", "restore"}
  /\ proc[p].stage = "open"
  /\ IF OnSnapshot(p) THEN snap' = Empty /\ UNCHANGED config
                      ELSE config' = Empty /\ UNCHANGED snap
  /\ Go(p, proc[p].op, "write")
  /\ UNCHANGED Rest

\* Mutant: the new phase is written without the settings that were read.
NewConfig_PhaseOnly(p) == [phase |-> proc[p].target, user |-> FALSE]

NewConfig(p) == [phase |-> proc[p].target, user |-> proc[p].data.user]

\* The snapshot that begin() writes.
Begun(p) == [status |-> "in_progress", from |-> proc[p].phase, to |-> proc[p].target,
             backup |-> proc[p].data]

\* write_text, second half, and where the process goes from there; after
\* commit() the engine takes over the new phase.
Write(p) ==
  /\ proc[p].stage = "write"
  /\ CASE proc[p].op = "snapshot" ->
            snap' = Begun(p) /\ UNCHANGED config /\ Go(p, "apply", "read")
       [] proc[p].op = "apply" ->
            config' = NewConfig(p) /\ UNCHANGED snap /\ Go(p, "commit", "read")
       [] proc[p].op = "commit" ->
            /\ snap' = [proc[p].data EXCEPT !.status = "committed"]
            /\ UNCHANGED config
            /\ proc' = [proc EXCEPT ![p].op = "log", ![p].stage = "read",
                                    ![p].phase = proc[p].target]
       [] proc[p].op = "restore" ->
            /\ config' = proc[p].data.backup
            /\ UNCHANGED snap
            /\ Go(p, "unlink", "read")
  /\ UNCHANGED Rest

\* rollback() removes the snapshot and returns.
Unlink(p) ==
  /\ At(p, "unlink", "read")
  /\ snap' = Missing
  /\ Returned(p)
  /\ UNCHANGED <<config, Rest>>

\* The event log's record of an upgrade or a recovery.
Log(p) ==
  /\ At(p, "log", "read")
  /\ Go(p, "idle", "read")
  /\ UNCHANGED <<Files, Rest>>

\* A write or the log raises.
Fault(p) ==
  /\ faults < MaxFaults
  /\ \/ proc[p].stage \in {"open", "write"} /\ proc[p].op # "down"
     \/ proc[p].op = "log"
  /\ faults' = faults + 1
  /\ Raised(p)
  /\ UNCHANGED <<Files, infra, kills>>

Kill(p) ==
  /\ p \in Mortal
  /\ kills < MaxKills
  /\ proc[p].op # "down"
  /\ proc' = [proc EXCEPT ![p] = Down]
  /\ kills' = kills + 1
  /\ UNCHANGED <<Files, infra, faults>>

\* Infrastructure comes and goes.
Change ==
  /\ infra' \in [bus : BOOLEAN, paths : 0..2]
  /\ infra' # infra
  /\ UNCHANGED <<Files, proc, kills, faults>>

Work(p) ==
  \/ Discover(p) \/ StartUp(p) \/ Recover(p) \/ Probe(p)
  \/ ReadConfig(p) \/ ReadCommit(p) \/ ReadRestore(p)
  \/ Open(p) \/ Write(p) \/ Unlink(p) \/ Log(p)

Next ==
  /\ \/ \E p \in Process : Work(p) \/ Revert(p) \/ Fault(p) \/ Kill(p)
     \/ Change
  /\ UNCHANGED installed

Spec == Init /\ [][Next]_vars

\* The server is restarted when it is killed and its poller keeps running; a
\* doctor run that began goes on to its end; no file operation blocks.
FairSpec == Spec /\ \A p \in Process : WF_vars(Work(p) /\ UNCHANGED installed)

-----------------------------------------------------------------------------
(* Properties *)

\* The user's settings are never lost, whatever kills interrupt, or whichever
\* one write or log record raises: as long as config.yaml does not hold them,
\* the snapshot does.  (A write that raises can lose them together with a kill,
\* or with another: the one that interrupts the rollback of the first.)
SettingsKept ==
  installed /\ (faults = 0 \/ (kills = 0 /\ faults = 1)) =>
    config.user \/ (Whole(snap) /\ snap.backup.user)

\* A server at rest is in the phase that config.yaml says, kills and reverts
\* included, with two exceptions: a write has raised (a commit that does cannot
\* roll back), or a kill hit the first upgrade of a machine without a
\* config.yaml (there is no backup to put back).
Agreement ==
  faults = 0 /\ (installed \/ kills = 0) =>
    \A p \in Server : proc[p].op = "idle" => proc[p].phase = PhaseOf(config)

\* What a restart would find: recovery puts the backup back.
Durable == IF NeedsRecovery /\ snap.backup # Empty THEN snap.backup ELSE config

\* "Atomic upgrade transaction": seen from a restart, config.yaml changes only
\* when a server commits, and then in its phase alone; never half-way, never
\* by a recovery.  (Without a config.yaml before, there is nothing to go back to;
\* doctor --revert of a committed upgrade is no transaction.)
Atomic ==
  [][installed /\ faults' = 0 /\ Durable' # Durable =>
       \/ \E d \in Doctor : proc[d].op = "restore"
       \/ \E p \in Server :
            /\ At(p, "commit", "open")
            /\ Durable' = [phase |-> proc[p].target, user |-> Durable.user]]_vars

\* If the infrastructure stays as it is, a server (but for the exceptions of
\* Agreement) ends in the phase it was detected to support, in memory and on
\* disk, or waits for the user to choose between two backends.
Converges ==
  \A i \in [bus : BOOLEAN, paths : 0..2] :
    <>[](infra = i /\ faults = 0 /\ (installed \/ kills = 0)) =>
      <>[](\A p \in Server :
             /\ proc[p].op = "idle"
             /\ \/ proc[p].phase = Detected(i)
                \/ proc[p].phase < Detected(i) /\ i.paths > 1
             /\ PhaseOf(config) = proc[p].phase)

=============================================================================
