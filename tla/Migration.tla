----------------------------- MODULE Migration -----------------------------
(***************************************************************************)
(* core/migration.py, EvidenceMigrator, run by "3s migrate-evidence" on    *)
(* the evidence database while another process may add learnings to it.    *)
(*                                                                         *)
(* The database is in WAL mode: what another process has committed is in   *)
(* its write-ahead log until that process checkpoints, at the latest when  *)
(* it closes the database as the last one.  Migrations and reverts copy    *)
(* the main file alone, with shutil.copy2, which truncates the target and  *)
(* then fills it; the command may be killed before, between and after.     *)
(* Learnings are numbered as they are recorded.  Every migration backs up  *)
(* to the same .bak; of the snapshots only the newest is ever read.        *)
(*                                                                         *)
(* MaxLearnings and MaxCommands bound the runs of the model.               *)
(***************************************************************************)
EXTENDS Naturals, Sequences

CONSTANTS Torn, None, MaxLearnings, MaxCommands

VARIABLES main,     \* the main file: the learnings in it, or Torn
          wal,      \* learnings committed and not checkpointed, or Torn: the log
                    \* of a main file that has been replaced
          other,    \* the other process has the database open
          snap,     \* the newest snapshot: its items, Torn, or None
          bak,      \* the .bak: learnings, Torn, or None
          dest,     \* the destination: none, or its kind and its items by number
          cmd,      \* where the command is
          items,    \* what it has read
          report,   \* what it has said
          kept,     \* the learnings of the newest migration that made a snapshot (history)
          minted,   \* learnings recorded ever (history)
          runs,
          shared,   \* the other process had the database open during a copy
          broken    \* the newest snapshot has no backup of its own (history)

vars == <<main, wal, other, snap, bak, dest, cmd, items, report, kept, minted, runs,
          shared, broken>>

Learnings == Seq(1..MaxLearnings)

TypeOK ==
  /\ main \in Learnings \cup {Torn}
  /\ wal \in Learnings \cup {Torn}
  /\ other \in BOOLEAN /\ shared \in BOOLEAN /\ broken \in BOOLEAN
  /\ snap \in Learnings \cup {Torn, None}
  /\ bak \in Learnings \cup {Torn, None}
  /\ dest \in [kind : {"none", "redis", "http"}, items : Learnings]
  /\ cmd \in {"idle", "read", "open", "fill", "backup", "copying", "send",
              "newest", "restore", "restoring"}
  /\ items \in Learnings /\ kept \in Learnings
  /\ report \in {"none", "migrated", "reverted", "nothing", "error"}
  /\ minted \in 0..MaxLearnings
  /\ runs \in 0..MaxCommands

Init ==
  /\ main = <<>> /\ wal = <<>> /\ other = FALSE
  /\ snap = None /\ bak = None
  /\ \E kind \in {"none", "redis", "http"} : dest = [kind |-> kind, items |-> <<>>]
  /\ cmd = "idle" /\ items = <<>> /\ report = "none" /\ kept = <<>>
  /\ minted = 0 /\ runs = 0
  /\ shared = FALSE /\ broken = FALSE

Copying == cmd \in {"copying", "restoring"}

-----------------------------------------------------------------------------
(* The other process: EvidenceStore.record_learning *)

Learn ==
  /\ ~other /\ main # Torn
  /\ minted < MaxLearnings
  /\ other' = TRUE
  /\ wal' = Append(wal, minted + 1)
  /\ minted' = minted + 1
  /\ shared' = (shared \/ Copying)
  /\ UNCHANGED <<main, snap, bak, dest, cmd, items, report, kept, runs, broken>>

\* The checkpoint moves the log into the main file, also into one that the log
\* does not belong to.
Close ==
  /\ other
  /\ other' = FALSE
  /\ wal' = <<>>
  /\ IF wal = Torn THEN main' \in {main, Torn} ELSE main' = main \o wal
  /\ UNCHANGED <<snap, bak, dest, cmd, items, report, kept, minted, runs, shared, broken>>

-----------------------------------------------------------------------------
(* migrate *)

Start(first) ==
  /\ cmd = "idle"
  /\ runs < MaxCommands
  /\ runs' = runs + 1
  /\ cmd' = first
  /\ report' = "none"
  /\ UNCHANGED <<main, wal, other, snap, bak, dest, items, kept, minted, shared, broken>>

\* _read_learnings sees the log; an empty file has no table, which reads as
\* no learnings, and one that is no database raises.
Read ==
  /\ cmd = "read"
  /\ \/ Torn \notin {main, wal} /\ items' = main \o wal /\ cmd' = "open" /\ UNCHANGED report
     \/ Torn \in {main, wal} /\ items' = <<>> /\ cmd' = "open" /\ UNCHANGED report
     \/ Torn \in {main, wal} /\ UNCHANGED items /\ cmd' = "idle" /\ report' = "error"
  /\ UNCHANGED <<main, wal, other, snap, bak, dest, kept, minted, runs, shared, broken>>

OpenSnapshot ==
  /\ cmd = "open"
  /\ snap' = Torn
  /\ kept' = items
  /\ broken' = TRUE
  /\ cmd' = "fill"
  /\ UNCHANGED <<main, wal, other, bak, dest, items, report, minted, runs, shared>>

FillSnapshot ==
  /\ cmd = "fill"
  /\ snap' = items
  /\ cmd' = "backup"
  /\ UNCHANGED <<main, wal, other, bak, dest, items, report, kept, minted, runs, shared, broken>>

OpenBackup ==
  /\ cmd = "backup"
  /\ bak' = Torn
  /\ shared' = other
  /\ cmd' = "copying"
  /\ UNCHANGED <<main, wal, other, snap, dest, items, report, kept, minted, runs, broken>>

\* Mutant: the backup is made only if there is none yet.
FillBackup_Once ==
  /\ cmd = "copying"
  /\ bak' = IF runs > 1 THEN <<>> ELSE main
  /\ broken' = (main = Torn)
  /\ cmd' = "send"
  /\ UNCHANGED <<main, wal, other, snap, dest, items, report, kept, minted, runs, shared>>

FillBackup ==
  /\ cmd = "copying"
  /\ bak' = main
  /\ broken' = (main = Torn)
  /\ cmd' = "send"
  /\ UNCHANGED <<main, wal, other, snap, dest, items, report, kept, minted, runs, shared>>

\* The destination's batch, put at keys item_0, item_1, ... since a learning
\* has no "key" (so that there are no checksums to verify either).  Redis may
\* fail after some of it; the HTTP client's refusal is a count of 0, which
\* migrate does not look at.
Put(n) == SubSeq(items, 1, n) \o SubSeq(dest.items, n + 1, Len(dest.items))

Finish(said) == cmd' = "idle" /\ report' = said

Send ==
  /\ cmd = "send"
  /\ \/ dest.kind = "none" /\ UNCHANGED dest /\ Finish("migrated")
     \/ dest.kind # "none" /\ dest' = [dest EXCEPT !.items = Put(Len(items))]
        /\ Finish("migrated")
     \/ dest.kind = "http" /\ UNCHANGED dest /\ Finish("migrated")
     \/ dest.kind = "redis" /\ \E n \in 0..Len(items) :
          n < Len(items) /\ dest' = [dest EXCEPT !.items = Put(n)] /\ Finish("error")
  /\ UNCHANGED <<main, wal, other, snap, bak, items, kept, minted, runs, shared, broken>>

-----------------------------------------------------------------------------
(* revert *)

\* The newest snapshot must parse, and names the .bak, which must be there.
Newest ==
  /\ cmd = "newest"
  /\ CASE snap = None -> Finish("nothing")
       [] snap = Torn -> Finish("error")
       [] snap \notin {None, Torn} ->
            IF bak = None THEN Finish("nothing") ELSE cmd' = "restore" /\ UNCHANGED report
  /\ UNCHANGED <<main, wal, other, snap, bak, dest, items, kept, minted, runs, shared, broken>>

OpenMain ==
  /\ cmd = "restore"
  /\ main' = Torn
  /\ wal' = IF other THEN Torn ELSE wal
  /\ shared' = (shared \/ other)
  /\ cmd' = "restoring"
  /\ UNCHANGED <<other, snap, bak, dest, items, report, kept, minted, runs, broken>>

FillMain ==
  /\ cmd = "restoring"
  /\ main' = bak
  /\ Finish("reverted")
  /\ UNCHANGED <<wal, other, snap, bak, dest, items, kept, minted, runs, shared, broken>>

Kill ==
  /\ cmd # "idle"
  /\ Finish("error")
  /\ UNCHANGED <<main, wal, other, snap, bak, dest, items, kept, minted, runs, shared, broken>>

Next ==
  \/ Learn \/ Close
  \/ Start("read") \/ Start("newest")
  \/ Read \/ OpenSnapshot \/ FillSnapshot \/ OpenBackup \/ FillBackup \/ Send
  \/ Newest \/ OpenMain \/ FillMain
  \/ Kill

Spec == Init /\ [][Next]_vars

-----------------------------------------------------------------------------
(* Properties *)

Begins(s, t) == Len(s) <= Len(t) /\ s = SubSeq(t, 1, Len(s))

\* A revert, also one that is run again after it was killed, puts back what
\* the last migration found, and after it learnings are only added; if that
\* migration was not killed between its snapshot and the end of its backup, and
\* nobody had the database open while a file was copied.  And a migration to
\* Redis that reports its items has put every one of them there.  (Learnings
\* recorded after the migration are gone, against rule 4 of EvidenceMigrator.)
MigrationSound ==
  /\ report = "reverted" /\ ~shared /\ ~broken => main # Torn /\ Begins(kept, main)
  /\ report = "migrated" /\ dest.kind = "redis" => Begins(items, dest.items)
=============================================================================
