---------------------------- MODULE FileContext ----------------------------
(***************************************************************************)
(* core/file_access.py, the source files that a review is given: the       *)
(* policy that accepts a path (FileAccessPolicy), the chunks of a file     *)
(* (read_file_chunked) and the budget they share (read_files_with_budget). *)
(*                                                                         *)
(* All paths are looked at first and the accepted ones read after that;    *)
(* files may change in between.  A file is its size and what check finds   *)
(* of it: "refused" is outside of the base directories or on the denylist, *)
(* "locked" inside of a directory that may not be searched, "garbled"      *)
(* looks like text and cannot be decoded, and "marked" is text with the    *)
(* markers that sanitize_for_llm replaces.  Text is the sequence of its    *)
(* positions.  Overlap is less than ChunkSize, or read_file_chunked        *)
(* raises.  Changes bounds what happens to the files.                      *)
(***************************************************************************)
EXTENDS FiniteSets, FiniteSetsExt, Sublists

CONSTANTS File, PathLists, Budgets, Sizes, ChunkSize, Overlap, Changes

VARIABLES paths,     \* the files named, in order
          budget,    \* total_budget
          disk,      \* of each file: [kind, size]
          allowed,   \* the files accepted, in order
          turn,      \* how many of paths, and then of allowed, are done
          remaining,
          given,     \* of each file: the text that is taken of it
          handed,    \* ... and the length of what the review is given for it
          status,    \* "checking", "reading", "done" or "raised"
          changes

vars == <<paths, budget, disk, allowed, turn, remaining, given, handed, status, changes>>

Readable == {"text", "marked"}

Kind == Readable \cup {"garbled", "binary", "absent", "refused", "locked"}

Text == Seq(1..Max(Sizes))

TypeOK ==
  /\ paths \in PathLists /\ budget \in Budgets
  /\ disk \in [File -> [kind : Kind, size : Sizes]]
  /\ allowed \in Seq(File)
  /\ turn \in 0..Len(paths)
  /\ remaining \in Nat
  /\ given \in [File -> Text] /\ handed \in [File -> Nat]
  /\ status \in {"checking", "reading", "done", "raised"}
  /\ changes \in 0..Changes

Init ==
  /\ paths \in PathLists /\ budget \in Budgets
  /\ disk \in [File -> [kind : Kind, size : Sizes]]
  /\ \A f \in File : disk[f].kind \notin Readable => disk[f].size = Min(Sizes)
  /\ allowed = <<>> /\ turn = 0
  /\ remaining = budget
  /\ given = [f \in File |-> <<>>] /\ handed = [f \in File |-> 0]
  /\ status = "checking"
  /\ changes = 0

-----------------------------------------------------------------------------
(* FileAccessPolicy.check *)

Accepted(f) == disk[f].kind \in Readable \cup {"garbled"}

Check ==
  /\ status = "checking" /\ turn < Len(paths) /\ budget > 0
  /\ LET f == paths[turn + 1]
     IN  \/ /\ disk[f].kind # "locked"
            /\ allowed' = IF Accepted(f) THEN Append(allowed, f) ELSE allowed
            /\ turn' = turn + 1 /\ UNCHANGED status
         \* is_file() raises, and nothing catches it.
         \/ /\ disk[f].kind = "locked"
            /\ status' = "raised" /\ UNCHANGED <<allowed, turn>>
  /\ UNCHANGED <<paths, budget, disk, remaining, given, handed, changes>>

Checked ==
  /\ status = "checking" /\ (turn = Len(paths) \/ budget = 0)
  /\ status' = IF allowed = <<>> THEN "done" ELSE "reading"
  /\ turn' = 0
  /\ UNCHANGED <<paths, budget, disk, allowed, remaining, given, handed, changes>>

-----------------------------------------------------------------------------
(* read_file_chunked *)

Positions(from, to) == [i \in 1..to - from + 1 |-> from + i - 1]

Least(m, n) == IF m < n THEN m ELSE n

\* Each chunk starts Overlap before the end of the one before it, as long as
\* that is inside the file; there may be one that holds nothing new.
Chunks(size) ==
  IF size <= ChunkSize THEN <<Positions(1, size)>>
  ELSE LET stride == ChunkSize - Overlap
           count  == (size + stride - 1) \div stride
       IN  [i \in 1..count |->
              Positions((i - 1) * stride + 1, Least(size, (i - 1) * stride + ChunkSize))]

-----------------------------------------------------------------------------
(* read_files_with_budget *)

\* per_file.
Share == budget \div Len(allowed)

\* The chunks one after the other, as far as the share goes.
Taken(size) ==
  LET all == Flat(Chunks(size))
  IN  SubSeq(all, 1, Least(Len(all), Least(Share, remaining)))

\* The lengths that sanitize_for_llm may leave: a marker, of which the shortest
\* has 6 characters, becomes one of 18, whatever its own length.
Sanitized(f, length) ==
  {length} \cup
    (IF disk[f].kind = "marked" THEN 18..length + (18 - 6) * (length \div 6) ELSE {})

ReadNext ==
  /\ status = "reading" /\ turn < Len(allowed) /\ remaining > 0
  /\ LET f == allowed[turn + 1]
     IN  /\ disk[f].kind \in Readable
         /\ given' = [given EXCEPT ![f] = Taken(disk[f].size)]
         /\ \E length \in Sanitized(f, Len(Taken(disk[f].size))) :
              handed' = [handed EXCEPT ![f] = length]
         /\ remaining' = remaining - Len(Taken(disk[f].size))
  /\ turn' = turn + 1
  /\ UNCHANGED <<paths, budget, disk, allowed, status, changes>>

\* Nothing catches the exception of open or of the decoder.
Raise ==
  /\ status = "reading" /\ turn < Len(allowed) /\ remaining > 0
  /\ disk[allowed[turn + 1]].kind \notin Readable
  /\ status' = "raised"
  /\ UNCHANGED <<paths, budget, disk, allowed, turn, remaining, given, handed, changes>>

Finish ==
  /\ status = "reading" /\ (turn = Len(allowed) \/ remaining = 0)
  /\ status' = "done"
  /\ UNCHANGED <<paths, budget, disk, allowed, turn, remaining, given, handed, changes>>

\* A file is written or removed.
Change ==
  /\ status \in {"checking", "reading"} /\ changes < Changes
  /\ changes' = changes + 1
  /\ \E f \in File, kind \in Kind \ {"binary", "refused"}, size \in Sizes :
       /\ disk[f].kind # "refused"
       /\ disk' = [disk EXCEPT ![f] = [kind |-> kind, size |-> size]]
  /\ UNCHANGED <<paths, budget, allowed, turn, remaining, given, handed, status>>

Next == Check \/ Checked \/ ReadNext \/ Raise \/ Finish \/ Change

Spec == Init /\ [][Next]_vars

-----------------------------------------------------------------------------
(* Properties *)

GivenInAll == Cardinality(UNION {{f} \X DOMAIN given[f] : f \in File})

\* Whichever paths are named, how often, and however the files change: no more
\* is taken than the budget, and nobody goes without because others came first;
\* a file that fits its share and one chunk is taken as it is, a longer one from
\* its start without a gap, where only overlaps are repeated.  What is handed on
\* is as long as what was taken, or, where markers were replaced, at most three
\* times as long: the budget is no bound of it.  Only a file that cannot be looked
\* at, has become unreadable or cannot be decoded ends the reading.  (Shares that
\* are not used up are not redistributed.)
BudgetKept ==
  /\ GivenInAll <= budget
  /\ status = "done" => turn = Len(allowed)
  /\ \A i \in 1..turn : status \in {"reading", "done"} /\ changes = 0 =>
       Len(given[allowed[i]]) >= Least(disk[allowed[i]].size, Share)
  /\ \A f \in File : given[f] # <<>> =>
       /\ f \in Range(allowed)
       /\ Range(given[f]) = 1..Max(Range(given[f]))
       /\ \A n \in 1..Len(given[f]) - 1 :
            given[f][n + 1] \in given[f][n] + 1 - Overlap .. given[f][n] + 1
       /\ Len(given[f]) <= ChunkSize => given[f] = Positions(1, Len(given[f]))
  /\ \A f \in File :
       /\ handed[f] <= 3 * Len(given[f])
       /\ changes = 0 /\ disk[f].kind # "marked" => handed[f] = Len(given[f])
  /\ status = "raised" =>
       \/ changes > 0
       \/ \E f \in Range(allowed) : disk[f].kind = "garbled"
       \/ \E f \in Range(paths) : disk[f].kind = "locked"
=============================================================================
