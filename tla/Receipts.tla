------------------------------ MODULE Receipts ------------------------------
(***************************************************************************)
(* receipts/store.py: one JSONL file per project that every process        *)
(* appends to, prunes and purges "without a lock".  A receipt is the       *)
(* number of its append, or 0 if its line is torn: a prune counts such a   *)
(* line, and read_receipts skips it.  Lines have any length.  A process is *)
(* in at most one call.  An append is one write() on a descriptor in       *)
(* append mode; Path.write_text truncates the file and then writes at its  *)
(* own offset, 0.                                                          *)
(***************************************************************************)
EXTENDS Integers, Sequences, FiniteSets

CONSTANTS Writer,
          MAX_RECEIPTS,
          MaxAppends    \* bound: receipts ever appended

ASSUME ReceiptAssumption == MAX_RECEIPTS \in Nat \ {0} /\ MaxAppends \in Nat

VARIABLES file,      \* the lines, oldest first
          at,        \* where each process is in its call
          text,      \* the lines a prune has read and will keep
          appended,  \* receipts appended so far
          purged,    \* those before the last purge
          overlap,   \* a rewrite has been disturbed: by another call, or a kill
          crossed    \* one was disturbed by another rewrite, between its two halves

rvars == <<file, at, text, appended, purged, overlap, crossed>>

ReceiptsTypeOK ==
  /\ file \in Seq(0..MaxAppends)
  /\ at \in [Writer -> {"idle", "prune", "truncate", "write", "purge"}]
  /\ text \in [Writer -> Seq(0..MaxAppends)]
  /\ appended \in 0..MaxAppends
  /\ purged \in 0..appended
  /\ overlap \in BOOLEAN
  /\ crossed \in BOOLEAN

ReceiptsInit ==
  /\ file = <<>>
  /\ at = [w \in Writer |-> "idle"]
  /\ text = [w \in Writer |-> <<>>]
  /\ appended = 0
  /\ purged = 0
  /\ overlap = FALSE
  /\ crossed = FALSE

\* Overlap is noted at the steps that change the file.
Disturb(w) == overlap' = (overlap \/ \E v \in Writer \ {w} : at[v] # "idle")

Goto(w, where) == at' = [at EXCEPT ![w] = where]

\* write_receipt: the line is appended; the prune comes next.
Append1(w) ==
  /\ at[w] = "idle"
  /\ appended < MaxAppends
  /\ appended' = appended + 1
  /\ file' = Append(file, appended')
  /\ Goto(w, "prune")
  /\ Disturb(w)
  /\ UNCHANGED <<text, purged, crossed>>

\* Mutant: the first lines are kept, not the last.
Kept_Oldest(lines) == SubSeq(lines, 1, MAX_RECEIPTS)

\* lines[-MAX_RECEIPTS:]
Kept(lines) == SubSeq(lines, Len(lines) - MAX_RECEIPTS + 1, Len(lines))

\* _prune_receipts reads the file, which another process may have truncated.
\* A read that fails ends the prune.
PruneRead(w) ==
  /\ at[w] = "prune"
  /\ \/ Len(file) > MAX_RECEIPTS /\ text' = [text EXCEPT ![w] = Kept(file)]
        /\ Goto(w, "truncate")
     \/ Len(file) <= MAX_RECEIPTS /\ UNCHANGED text /\ Goto(w, "idle")
  /\ UNCHANGED <<file, appended, purged, overlap, crossed>>

Truncate(w) ==
  /\ at[w] = "truncate"
  /\ file' = <<>>
  /\ Goto(w, "write")
  /\ Disturb(w)
  /\ crossed' = (crossed \/ \E v \in Writer \ {w} : at[v] = "write")
  /\ UNCHANGED <<text, appended, purged>>

\* Mutant: the kept lines are written in append mode.
Over_Appended(old, new) == {old \o new}

\* What a text written over old, from offset 0, may leave of it: its last lines
\* but never the first, and before them perhaps the end of a line that is cut.
Left(old) ==
  IF old = <<>> THEN {<<>>}
  ELSE LET whole == {SubSeq(old, k, Len(old)) : k \in 2..Len(old) + 1}
       IN  whole \cup {<<0>> \o lines : lines \in whole}

Over(old, new) == {new \o rest : rest \in Left(old)}

PruneWrite(w) ==
  /\ at[w] = "write"
  /\ file' \in Over(file, text[w])
  /\ text' = [text EXCEPT ![w] = <<>>]
  /\ Goto(w, "idle")
  /\ Disturb(w)
  /\ UNCHANGED <<appended, purged, crossed>>

\* purge_receipts counts the lines and then truncates the file.
PurgeRead(w) ==
  /\ at[w] = "idle"
  /\ Goto(w, "purge")
  /\ UNCHANGED <<file, text, appended, purged, overlap, crossed>>

Purge(w) ==
  /\ at[w] = "purge"
  /\ file' = <<>>
  /\ purged' = appended
  /\ Goto(w, "idle")
  /\ Disturb(w)
  /\ UNCHANGED <<text, appended, crossed>>

\* A process is killed in its call, or an OSError ends it there; a fault of
\* the write leaves the file truncated.
Interrupt(w) ==
  /\ at[w] # "idle"
  /\ Goto(w, "idle")
  /\ text' = [text EXCEPT ![w] = <<>>]
  /\ overlap' = (overlap \/ at[w] = "write")
  /\ UNCHANGED <<file, appended, purged, crossed>>

Rewrite(w) == PruneRead(w) \/ Truncate(w) \/ PruneWrite(w)

\* A process whose receipts come from elsewhere than a run of run_cross_op.
Other(w) == Append1(w) \/ Rewrite(w) \/ PurgeRead(w) \/ Purge(w) \/ Interrupt(w)

-----------------------------------------------------------------------------
(* Properties *)

\* The whole lines of s are in the order of the appends.
Ascending(s) == \A i, j \in 1..Len(s) : i < j /\ s[i] # 0 /\ s[j] # 0 => s[i] < s[j]

\* However appends and purges cut into a prune, and a prune into another up to
\* its truncation, and wherever processes are killed, the audit trail is in the
\* order of the appends and holds no receipt twice.  (Two prunes that have both
\* truncated the file write one over the other, and a shorter text leaves whole
\* lines of the longer one behind: crossed.)
InOrder == ~crossed => Ascending(file)

\* Receipts that no later MAX_RECEIPTS have displaced and no purge removed.
Recent == {r \in purged + 1..appended : r > appended - MAX_RECEIPTS}

\* As long as no call has cut into another's, nor a kill into a rewrite, the
\* most recent receipts are all on file whenever the file is not being rewritten.
RecentKept ==
  ~overlap /\ (\A w \in Writer : at[w] # "write") =>
    \A r \in Recent : \E i \in 1..Len(file) : file[i] = r
=============================================================================
