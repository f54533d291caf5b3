------------------------------ MODULE GpuLock ------------------------------
(***************************************************************************)
(* core/priority_queue.py, GPULock and the adapter that brackets every     *)
(* local LLM call with it.                                                 *)
(*                                                                         *)
(* A caller first takes a threading.Lock shared by the callers of its      *)
(* process that name the lock directory alike (its gate), then creates     *)
(* the lock file with O_CREAT|O_EXCL and, in a second system call, writes  *)
(* its pid into it.  When the file exists it reads it, judges whether the  *)
(* holder is gone, unlinks the file if so and tries once more.  Each       *)
(* system call is one action: that is where other processes interleave.    *)
(*                                                                         *)
(* Time is abstract: a deadline may expire whenever it is looked at, and a *)
(* lock file may turn older than _SELF_ORPHAN_GRACE_S at any moment.       *)
(* File content that is no pid is treated by the code as empty content is. *)
(* The processes run as one user: os.kill on another user's process fails, *)
(* and _is_pid_alive takes any failure for death.  A pid is never reused.  *)
(***************************************************************************)
EXTENDS FiniteSets

CONSTANTS Proc,      \* processes, each standing for its pid
          Thread,    \* callers of acquire() and release()
          ProcOf,    \* the process of each thread
          Gate,      \* the threading.Lock objects in _thread_locks
          GateOf,    \* the gate that str(lock_dir) selects for each thread
          Earlier,   \* processes killed before the others started
          NoThread, NoPid, NoFile

FileRec == [creator : Thread, pid : Proc \cup {NoPid}, old : BOOLEAN]

ASSUME ThreadAssumption ==
  /\ ProcOf \in [Thread -> Proc]
  /\ GateOf \in [Thread -> Gate]
  /\ Earlier \subseteq Proc
  /\ \A s, t \in Thread : GateOf[s] = GateOf[t] => ProcOf[s] = ProcOf[t]

ASSUME NullAssumption ==
  /\ NoThread \notin Thread
  /\ NoPid \notin Proc
  /\ NoFile \notin FileRec
  /\ NoFile \notin Proc \cup {NoPid}

VARIABLES pc,      \* where each thread stands in acquire() or release()
          gate,    \* the thread that holds each threading.Lock
          file,    \* the lock file: who created it, the pid in it, its age
          seen,    \* what _steal_stale() read: a pid, NoPid (empty), NoFile
          dead,    \* processes that were killed
          robbed   \* history: threads using a lock whose file another unlinked

vars == <<pc, gate, file, seen, dead, robbed>>

Waiting == {"gate", "try", "retry", "opened", "reopened", "check", "judge",
            "unlink", "deadline"}
Created == {"opened", "reopened", "holding"}
Gated   == (Waiting \ {"gate"}) \cup {"holding", "releasing", "lost"}
PCs     == Waiting \cup {"idle", "holding", "releasing", "lost", "dead"}

TypeOK ==
  /\ pc \in [Thread -> PCs]
  /\ gate \in [Gate -> Thread \cup {NoThread}]
  /\ file \in FileRec \cup {NoFile}
  /\ seen \in [Thread -> Proc \cup {NoPid, NoFile}]
  /\ dead \in SUBSET Proc
  /\ robbed \in SUBSET Thread

\* The lock files that an earlier process may have left.
Leftover ==
  {f \in FileRec : ProcOf[f.creator] \in Earlier /\ f.pid \in {NoPid, ProcOf[f.creator]}}

Init ==
  /\ pc = [t \in Thread |-> IF ProcOf[t] \in Earlier THEN "dead" ELSE "idle"]
  /\ gate = [g \in Gate |-> NoThread]
  /\ file \in Leftover \cup {NoFile}
  /\ seen = [t \in Thread |-> NoFile]
  /\ dead = Earlier
  /\ robbed = {}

Goto(t, label) == pc' = [pc EXCEPT ![t] = label]

-----------------------------------------------------------------------------
(* acquire(): the gate *)

Request(t) ==
  /\ pc[t] = "idle"
  /\ Goto(t, "gate")
  /\ UNCHANGED <<gate, file, seen, dead, robbed>>

\* Mutant: the gate is reentrant.
EnterGate_Reentrant(t) ==
  /\ pc[t] = "gate"
  /\ gate' = [gate EXCEPT ![GateOf[t]] = t]
  /\ Goto(t, "try")
  /\ UNCHANGED <<file, seen, dead, robbed>>

EnterGate(t) ==
  /\ pc[t] = "gate"
  /\ gate[GateOf[t]] = NoThread
  /\ gate' = [gate EXCEPT ![GateOf[t]] = t]
  /\ Goto(t, "try")
  /\ UNCHANGED <<file, seen, dead, robbed>>

\* Mutant: the gate is acquired without a timeout.
GateTimeout_Never(t) == FALSE

\* _thread_lock.acquire(timeout) returned False.
GateTimeout(t) ==
  /\ pc[t] = "gate"
  /\ Goto(t, "idle")
  /\ UNCHANGED <<gate, file, seen, dead, robbed>>

-----------------------------------------------------------------------------
(* _try_lock(): os.open, then os.write and os.close.  It is called at the
   top of the loop ("try") and again after a successful steal ("retry"). *)

\* Mutant: O_EXCL is missing.
OpenExcl_Shared(t) ==
  /\ pc[t] \in {"try", "retry"}
  /\ file' = [creator |-> t, pid |-> NoPid, old |-> FALSE]
  /\ Goto(t, IF pc[t] = "try" THEN "opened" ELSE "reopened")
  /\ UNCHANGED <<gate, seen, dead, robbed>>

OpenExcl(t) ==
  /\ pc[t] \in {"try", "retry"}
  /\ file = NoFile
  /\ file' = [creator |-> t, pid |-> NoPid, old |-> FALSE]
  /\ Goto(t, IF pc[t] = "try" THEN "opened" ELSE "reopened")
  /\ UNCHANGED <<gate, seen, dead, robbed>>

NotLocked(t) ==
  Goto(t, IF pc[t] \in {"try", "opened"} THEN "check" ELSE "deadline")

\* FileExistsError, or any other OSError (no directory, no descriptor left).
OpenFails(t) ==
  /\ pc[t] \in {"try", "retry"}
  /\ NotLocked(t)
  /\ UNCHANGED <<gate, file, seen, dead, robbed>>

\* The write goes to the file that was opened, whether or not the path still
\* names it.
WriteMetadata(t) ==
  /\ pc[t] \in {"opened", "reopened"}
  /\ file' = IF file # NoFile /\ file.creator = t
             THEN [file EXCEPT !.pid = ProcOf[t]]
             ELSE file
  /\ Goto(t, "holding")
  /\ UNCHANGED <<gate, seen, dead, robbed>>

\* OSError from os.write (a full disk): the empty file stays behind.
WriteFails(t) ==
  /\ pc[t] \in {"opened", "reopened"}
  /\ NotLocked(t)
  /\ robbed' = robbed \ {t}
  /\ UNCHANGED <<gate, file, seen, dead>>

-----------------------------------------------------------------------------
(* _steal_stale(): read the file, judge the holder, unlink the path *)

\* content and pid are locals of _steal_stale().
Forget(t) == seen' = [seen EXCEPT ![t] = NoFile]

ReadContent(t) ==
  /\ pc[t] = "check"
  /\ seen' = [seen EXCEPT ![t] = IF file = NoFile THEN NoFile ELSE file.pid]
  /\ Goto(t, "judge")
  /\ UNCHANGED <<gate, file, dead, robbed>>

\* Mutant: any file past the grace period is an orphan, whoever wrote it.
Stale_AnyOld(t) ==
  \/ seen[t] \in {NoPid, NoFile}
  \/ seen[t] \in dead
  \/ file # NoFile /\ file.old

\* No content, no file (FileNotFoundError is an OSError, and its handler
\* unlinks too), a dead pid, or our own pid in a file past the grace period.
\* The age is that of the file now at the path.
Stale(t) ==
  \/ seen[t] \in {NoPid, NoFile}
  \/ seen[t] \in dead
  \/ seen[t] = ProcOf[t] /\ file # NoFile /\ file.old

Judge(t) ==
  /\ pc[t] = "judge"
  /\ \/ Stale(t) /\ Goto(t, "unlink") /\ UNCHANGED seen
     \/ ~Stale(t) /\ Goto(t, "deadline") /\ Forget(t)
  /\ UNCHANGED <<gate, file, dead, robbed>>

\* The thread other than t, if any, whose lock the file at the path is.
Victims(t) ==
  {v \in Thread \ {t} : /\ file # NoFile
                        /\ file.creator = v
                        /\ pc[v] \in Created}

UnlinkStale(t) ==
  /\ pc[t] = "unlink"
  /\ file' = NoFile
  /\ robbed' = robbed \cup Victims(t)
  /\ Goto(t, "retry")
  /\ Forget(t)
  /\ UNCHANGED <<gate, dead>>

UnlinkStaleFails(t) ==
  /\ pc[t] = "unlink"
  /\ Goto(t, "deadline")
  /\ Forget(t)
  /\ UNCHANGED <<gate, file, dead, robbed>>

-----------------------------------------------------------------------------
(* The end of the loop in acquire(), and release() *)

Sleep(t) ==
  /\ pc[t] = "deadline"
  /\ Goto(t, "try")
  /\ UNCHANGED <<gate, file, seen, dead, robbed>>

Timeout(t) ==
  /\ pc[t] = "deadline"
  /\ gate' = [gate EXCEPT ![GateOf[t]] = NoThread]
  /\ Goto(t, "idle")
  /\ UNCHANGED <<file, seen, dead, robbed>>

\* The path is unlinked whoever created the file now there.
Release(t) ==
  /\ pc[t] = "holding"
  /\ file' = NoFile
  /\ robbed' = (robbed \cup Victims(t)) \ {t}
  /\ Goto(t, "releasing")
  /\ UNCHANGED <<gate, seen, dead>>

\* unlink raised OSError, which release() passes over.
ReleaseUnlinkFails(t) ==
  /\ pc[t] = "holding"
  /\ robbed' = robbed \ {t}
  /\ Goto(t, "releasing")
  /\ UNCHANGED <<gate, file, seen, dead>>

FreeGate(t) ==
  /\ pc[t] = "releasing"
  /\ gate' = [gate EXCEPT ![GateOf[t]] = NoThread]
  /\ Goto(t, "idle")
  /\ UNCHANGED <<file, seen, dead, robbed>>

-----------------------------------------------------------------------------
(* The environment *)

\* The worker is gone before its finally clause ran release(): the state the
\* self-orphan rule was written for.  A threading.Lock does not notice.
Abandon(t) ==
  /\ pc[t] = "holding"
  /\ Goto(t, "lost")
  /\ UNCHANGED <<gate, file, seen, dead, robbed>>

Kill(p) ==
  /\ p \notin dead
  /\ dead' = dead \cup {p}
  /\ pc' = [t \in Thread |-> IF ProcOf[t] = p THEN "dead" ELSE pc[t]]
  /\ seen' = [t \in Thread |-> IF ProcOf[t] = p THEN NoFile ELSE seen[t]]
  /\ robbed' = {t \in robbed : ProcOf[t] # p}
  /\ UNCHANGED <<gate, file>>

\* The file at the path becomes _SELF_ORPHAN_GRACE_S old.
Age ==
  /\ file # NoFile
  /\ ~file.old
  /\ file' = [file EXCEPT !.old = TRUE]
  /\ UNCHANGED <<pc, gate, seen, dead, robbed>>

\* What a caller does between asking for the lock and having it or not.
AcquireStep(t) ==
  \/ EnterGate(t) \/ GateTimeout(t)
  \/ OpenExcl(t) \/ OpenFails(t)
  \/ WriteMetadata(t) \/ WriteFails(t)
  \/ ReadContent(t) \/ Judge(t)
  \/ UnlinkStale(t) \/ UnlinkStaleFails(t)
  \/ Sleep(t) \/ Timeout(t)

ReleaseStep(t) == Release(t) \/ ReleaseUnlinkFails(t) \/ FreeGate(t)

Step(t) == Request(t) \/ AcquireStep(t) \/ ReleaseStep(t) \/ Abandon(t)

Next ==
  \/ \E t \in Thread : Step(t)
  \/ \E p \in Proc : Kill(p)
  \/ Age

Spec == Init /\ [][Next]_vars

\* A thread that is not killed keeps executing, and the clock passes every
\* deadline: a loop that reaches its deadline test again and again, with a
\* growing backoff in between, finds it expired.  Nothing is assumed of new
\* requests, of the callers' use of the lock or of the faults.
FairSpec ==
  /\ Spec
  /\ \A t \in Thread :
       /\ WF_vars(AcquireStep(t))
       /\ SF_vars(Timeout(t))

-----------------------------------------------------------------------------
(* Properties *)

\* Every caller of a process spells the lock directory alike.
SpelledAlike ==
  \A s, t \in Thread : ProcOf[s] = ProcOf[t] => GateOf[s] = GateOf[t]

\* The class comment: the lock "prevents concurrent GPU/Metal operations by
\* acquiring an exclusive lock file" - no two callers, of any process, are
\* inside their query at once.  The code does not achieve this.
MutualExclusion ==
  \A s, t \in Thread : pc[s] = "holding" /\ pc[t] = "holding" => s = t

\* Two callers of one process are never inside their query at once, whatever
\* happens to the lock file: killed processes, failing writes and unlinks,
\* stale locks stolen, a release that removes a file it did not create.
IntraProcessExclusion ==
  \A s, t \in Thread :
    ProcOf[s] = ProcOf[t] /\ pc[s] = "holding" /\ pc[t] = "holding" => s = t

\* Exclusion between processes is lost in one way only: by an unlink that hits
\* the file of a caller that is still using it.  While no caller is robbed,
\* O_EXCL, the two-step write, retries and crashes keep one user.
ExclusionUnlessRobbed ==
  \A s, t \in Thread :
    pc[s] = "holding" /\ pc[t] = "holding" /\ s # t => s \in robbed \/ t \in robbed

\* When _steal_stale has judged a pid it read to be gone (dead, or an orphan
\* of its own process), no caller of that pid is using the lock: what makes a
\* steal unsafe is never the judgement of a pid, only the time that passes
\* until the unlink, or content that was not there to be judged.
VerdictSound ==
  \A t \in Thread :
    pc[t] = "unlink" /\ seen[t] \in Proc =>
      \A v \in Thread : ProcOf[v] = seen[t] => pc[v] \notin Created

\* A call of acquire() returns, with the lock or without it, even if the
\* thread before it at the gate never comes back.
AcquireReturns ==
  \A t \in Thread : pc[t] = "gate" ~> pc[t] \notin Waiting

\* What the callers of a gate see is a lock: seen from one process, GPULock
\* implements ExclusiveUse.
Users(g) == {t \in Thread : GateOf[t] = g /\ pc[t] \in {"holding", "lost"}}

UserOf(g) == IF Users(g) = {} THEN NoThread ELSE CHOOSE t \in Users(g) : TRUE

PerProcess == INSTANCE ExclusiveUse WITH
                Resource <- Gate, Agent <- Thread, NoAgent <- NoThread,
                user <- [g \in Gate |-> UserOf(g)]

ImplementsLock == PerProcess!Spec
=============================================================================
