------------------------------- MODULE LiveCli -------------------------------
(***************************************************************************)
(* cli/main.py, "3s cross-exam --live": the loop that drives one session   *)
(* through its phases, saving it to its file after each of them.           *)
(*                                                                         *)
(* The session lives in memory and its id is never shown, so nobody else   *)
(* writes the file.  A phase that advance_phase refuses raises ValueError; *)
(* any phase may raise on its own (the bill in SQLite, the reply to the    *)
(* vote), and so may writing and deleting the file.  What is raised ends   *)
(* the command.  The process may be killed at any point.                   *)
(***************************************************************************)
EXTENDS LiveSession

CONSTANTS Absent, Torn

VARIABLES pc,       \* the step of the loop body the command is at
          saving,   \* the phase of that step is done and its save is not
          sess,     \* session, in memory
          n,        \* the loop variable, iteration
          file,     \* the session file
          over      \* "no", or how it was cut short: see TypeOK

vars == <<pc, saving, sess, n, file, over>>

Body == <<"start", "deepen", "explore", "synthesize">>

PCs == {"create", "iterate", "decide", "delete", "end"} \cup {Body[k] : k \in 1..4}

TypeOK ==
  /\ pc \in PCs
  /\ saving \in BOOLEAN
  /\ sess \in Session
  /\ n \in Nat
  /\ file \in Session \cup {Absent, Torn}
  /\ over \in {"no", "killed", "raised", "refused"}

Init ==
  /\ pc = "create"
  /\ saving = FALSE
  /\ sess = Fresh
  /\ n = 1
  /\ file = Absent
  /\ over = "no"

Create ==
  /\ pc = "create"
  /\ file' = sess
  /\ pc' = "start"
  /\ UNCHANGED <<saving, sess, n, over>>

\* phase_start does not advance a session that is at "start" already.
Allowed(step) ==
  CASE step = "start"   -> sess.phase = "start" \/ CanAdvance(sess, "start")
    [] step = "iterate" -> CanAdvance(sess, "start")
    [] OTHER            -> CanAdvance(sess, step)

Results(step) ==
  CASE step = "iterate"    -> Iterated(sess)
    [] step = "start"      -> Started(sess)
    [] step = "deepen"     -> Deepened(sess)
    [] step = "explore"    -> Explored(sess)
    [] step = "synthesize" -> Synthesized(sess)

RunPhase ==
  /\ pc \in {"iterate", "start", "deepen", "explore", "synthesize"}
  /\ ~saving
  /\ IF Allowed(pc)
     THEN sess' \in Results(pc) /\ saving' = TRUE /\ UNCHANGED over
     ELSE over' = "refused" /\ UNCHANGED <<sess, saving>>
  /\ UNCHANGED <<pc, n, file>>

After(step) ==
  CASE step = "iterate"    -> "start"
    [] step = "start"      -> "deepen"
    [] step = "deepen"     -> "explore"
    [] step = "explore"    -> "synthesize"
    [] step = "synthesize" -> "decide"

Save ==
  /\ saving
  /\ file' = sess
  /\ saving' = FALSE
  /\ pc' = After(pc)
  /\ UNCHANGED <<sess, n, over>>

\* Mutant: no break on "done".
Decide_NoBreak ==
  /\ pc = "decide"
  /\ IF n < Max
     THEN pc' = "iterate" /\ n' = n + 1
     ELSE pc' = "delete" /\ n' = n
  /\ UNCHANGED <<saving, sess, file, over>>

\* Mutant: range(1, max) for range(1, max + 1).
Decide_OffByOne ==
  /\ pc = "decide"
  /\ IF NextAction(sess) # "done" /\ n < Max - 1
     THEN pc' = "iterate" /\ n' = n + 1
     ELSE pc' = "delete" /\ n' = n
  /\ UNCHANGED <<saving, sess, file, over>>

\* Break on "done", else the next iteration of the for loop, if there is one.
Decide ==
  /\ pc = "decide"
  /\ IF NextAction(sess) # "done" /\ n < Max
     THEN pc' = "iterate" /\ n' = n + 1
     ELSE pc' = "delete" /\ n' = n
  /\ UNCHANGED <<saving, sess, file, over>>

Delete ==
  /\ pc = "delete"
  /\ file' = Absent
  /\ pc' = "end"
  /\ UNCHANGED <<saving, sess, n, over>>

Step == Create \/ RunPhase \/ Save \/ Decide \/ Delete

\* A phase, create, save or delete raises, which nothing here catches, or the
\* process is killed.  Path.write_text cut short leaves the file truncated; the
\* session in memory is gone.
CutShort ==
  /\ pc # "end"
  /\ over' \in {"killed"} \cup (IF pc # "decide" THEN {"raised"} ELSE {})
  /\ file' \in {file} \cup (IF saving \/ pc = "create" THEN {Torn} ELSE {})
  /\ UNCHANGED <<pc, saving, sess, n>>

Next == over = "no" /\ (Step \/ CutShort)

Spec == Init /\ [][Next]_vars

-----------------------------------------------------------------------------
(* Properties *)

\* Unless killed, or ended by what a phase or the disk raised, the command ends
\* with a consensus or after the last round; advance_phase never refuses it.
Ends ==
  <>(\/ over \in {"killed", "raised"}
     \/ pc = "end" /\ (sess.score = "consensus" \/ sess.iter = Max))

\* A phase's place in the round, once it has run.
Stage ==
  CASE pc \in {"create", "start"} -> IF saving THEN 1 ELSE 0
    [] pc = "iterate"    -> IF saving THEN 0 ELSE 4
    [] pc = "deepen"     -> IF saving THEN 2 ELSE 1
    [] pc = "explore"    -> IF saving THEN 3 ELSE 2
    [] pc = "synthesize" -> IF saving THEN 4 ELSE 3
    [] OTHER             -> 4

Verdict ==
  CASE sess.score = "consensus" -> "agreed"
    [] sess.score # "consensus" /\ pc \in {"delete", "end"} -> "unresolved"
    [] OTHER -> "open"

Rounds == INSTANCE ReviewRounds WITH
            Limit <- {Max}, limit <- Max, round <- sess.iter, stage <- Stage,
            verdict <- Verdict

\* The command is a cross-examination in rounds: every phase of a round is
\* attempted once, in order, and no round follows an agreement or the last.
ImplementsRounds == Rounds!Spec
=============================================================================
