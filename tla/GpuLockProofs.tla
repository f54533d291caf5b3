---------------------------- MODULE GpuLockProofs ----------------------------
(***************************************************************************)
(* Theorems about GpuLock for every set of processes, threads and gates.   *)
(* IndInv is the inductive invariant: a thread inside acquire() or holding *)
(* owns its gate, the file at the path is that of the thread using the     *)
(* lock unless it was robbed, and a verdict about a pid is about a dead    *)
(* process or about the judge's own.                                       *)
(***************************************************************************)
EXTENDS GpuLock, TLAPS

\* A thread between entering and leaving its gate is the one the gate names.
GateInv == \A t \in Thread : pc[t] \in Gated => gate[GateOf[t]] = t

\* The lock file of a thread that uses the lock is at the path, unless robbed.
FileInv ==
  \A t \in Thread :
    pc[t] \in Created /\ t \notin robbed => file # NoFile /\ file.creator = t

\* The threads of a killed process execute nothing.
DeadInv == \A t \in Thread : ProcOf[t] \in dead => pc[t] = "dead"

\* A pid judged stale is dead or the judge's own.
VerdictInv ==
  \A t \in Thread :
    pc[t] = "unlink" /\ seen[t] \in Proc => seen[t] \in dead \/ seen[t] = ProcOf[t]

IndInv == TypeOK /\ GateInv /\ FileInv /\ DeadInv /\ VerdictInv

\* The initial state satisfies every part of the inductive invariant.
LEMMA InitIndInv == Init => IndInv
  <1> SUFFICES ASSUME Init PROVE IndInv
    OBVIOUS
  <1> USE ThreadAssumption, NullAssumption DEF Init
  <1>1. TypeOK     BY DEF TypeOK, PCs, Waiting, Leftover
  <1>2. GateInv    BY DEF GateInv, Gated, Waiting
  <1>3. FileInv    BY DEF FileInv, Created
  <1>4. DeadInv    BY DEF DeadInv
  <1>5. VerdictInv BY DEF VerdictInv
  <1>6. QED BY <1>1, <1>2, <1>3, <1>4, <1>5 DEF IndInv

\* Every system call of a thread leaves the types right.
LEMMA StepType == ASSUME TypeOK, NEW t \in Thread, Step(t) PROVE TypeOK'
  <1> USE ThreadAssumption, NullAssumption DEF TypeOK, PCs, Waiting, Goto, Forget
  <1>1. CASE Request(t)             BY <1>1 DEF Request
  <1>2. CASE EnterGate(t)           BY <1>2 DEF EnterGate
  <1>3. CASE GateTimeout(t)         BY <1>3 DEF GateTimeout
  <1>4. CASE OpenExcl(t)            BY <1>4 DEF OpenExcl, FileRec
  <1>5. CASE OpenFails(t)           BY <1>5 DEF OpenFails, NotLocked
  <1>6. CASE WriteMetadata(t)       BY <1>6 DEF WriteMetadata, FileRec
  <1>7. CASE WriteFails(t)          BY <1>7 DEF WriteFails, NotLocked
  <1>8. CASE ReadContent(t)         BY <1>8 DEF ReadContent, FileRec
  <1>9. CASE Judge(t)               BY <1>9 DEF Judge
  <1>10. CASE UnlinkStale(t)        BY <1>10 DEF UnlinkStale, Victims
  <1>11. CASE UnlinkStaleFails(t)   BY <1>11 DEF UnlinkStaleFails
  <1>12. CASE Sleep(t)              BY <1>12 DEF Sleep
  <1>13. CASE Timeout(t)            BY <1>13 DEF Timeout
  <1>14. CASE Release(t)            BY <1>14 DEF Release, Victims
  <1>15. CASE ReleaseUnlinkFails(t) BY <1>15 DEF ReleaseUnlinkFails
  <1>16. CASE FreeGate(t)           BY <1>16 DEF FreeGate
  <1>17. CASE Abandon(t)            BY <1>17 DEF Abandon
  <1>18. QED
    BY <1>1, <1>2, <1>3, <1>4, <1>5, <1>6, <1>7, <1>8, <1>9, <1>10, <1>11,
       <1>12, <1>13, <1>14, <1>15, <1>16, <1>17
    DEF Step, AcquireStep, ReleaseStep

\* So do the faults and the clock.
LEMMA FaultType == ASSUME TypeOK, Age \/ \E p \in Proc : Kill(p) PROVE TypeOK'
  <1>1. CASE Age
    BY <1>1 DEF Age, TypeOK, FileRec
  <1>2. ASSUME NEW p \in Proc, Kill(p) PROVE TypeOK'
    BY <1>2 DEF Kill, TypeOK, PCs, Waiting
  <1>3. QED BY <1>1, <1>2

\* Type correctness: every program counter, gate, file record and pid read
\* stays in its set.
THEOREM TypeCorrect == Spec => []TypeOK
  <1>1. Init => TypeOK
    BY InitIndInv DEF IndInv
  <1>2. TypeOK /\ [Next]_vars => TypeOK'
    <2>1. CASE UNCHANGED vars
      BY <2>1 DEF vars, TypeOK
    <2>2. CASE Next
      BY <2>2, StepType, FaultType DEF Next
    <2>3. QED BY <2>1, <2>2
  <1>3. QED BY <1>1, <1>2, PTL DEF Spec

-----------------------------------------------------------------------------
(* The inductive invariant *)

\* A system call of one thread keeps every other part of the invariant.
LEMMA StepIndInv ==
  ASSUME IndInv, NEW t \in Thread, Step(t) PROVE IndInv'
  <1>1. TypeOK'
    BY StepType DEF IndInv
  <1>2. GateInv'
    <2> USE ThreadAssumption, NullAssumption
        DEF IndInv, TypeOK, GateInv, PCs, Waiting, Gated, Goto, Forget
    <2>1. CASE Request(t)             BY <2>1 DEF Request
    <2>2. CASE EnterGate(t)           BY <2>2 DEF EnterGate
    <2>3. CASE GateTimeout(t)         BY <2>3 DEF GateTimeout
    <2>4. CASE OpenExcl(t)            BY <2>4 DEF OpenExcl
    <2>5. CASE OpenFails(t)           BY <2>5 DEF OpenFails, NotLocked
    <2>6. CASE WriteMetadata(t)       BY <2>6 DEF WriteMetadata
    <2>7. CASE WriteFails(t)          BY <2>7 DEF WriteFails, NotLocked
    <2>8. CASE ReadContent(t)         BY <2>8 DEF ReadContent
    <2>9. CASE Judge(t)               BY <2>9 DEF Judge
    <2>10. CASE UnlinkStale(t)        BY <2>10 DEF UnlinkStale
    <2>11. CASE UnlinkStaleFails(t)   BY <2>11 DEF UnlinkStaleFails
    <2>12. CASE Sleep(t)              BY <2>12 DEF Sleep
    <2>13. CASE Timeout(t)            BY <2>13 DEF Timeout
    <2>14. CASE Release(t)            BY <2>14 DEF Release
    <2>15. CASE ReleaseUnlinkFails(t) BY <2>15 DEF ReleaseUnlinkFails
    <2>16. CASE FreeGate(t)           BY <2>16 DEF FreeGate
    <2>17. CASE Abandon(t)            BY <2>17 DEF Abandon
    <2>18. QED
      BY <2>1, <2>2, <2>3, <2>4, <2>5, <2>6, <2>7, <2>8, <2>9, <2>10, <2>11,
         <2>12, <2>13, <2>14, <2>15, <2>16, <2>17
      DEF Step, AcquireStep, ReleaseStep
  <1>3. FileInv'
    <2> USE NullAssumption
        DEF IndInv, TypeOK, FileInv, PCs, Waiting, Created, Goto, Forget, FileRec
    <2>1. CASE Request(t)             BY <2>1 DEF Request
    <2>2. CASE EnterGate(t)           BY <2>2 DEF EnterGate
    <2>3. CASE GateTimeout(t)         BY <2>3 DEF GateTimeout
    <2>4. CASE OpenExcl(t)
      <3>1. [creator |-> t, pid |-> NoPid, old |-> FALSE] \in FileRec
        OBVIOUS
      <3>2. file' # NoFile /\ file'.creator = t
        BY <2>4, <3>1 DEF OpenExcl
      <3>3. \A v \in Thread \ {t} : pc'[v] = pc[v]
        BY <2>4 DEF OpenExcl
      <3>4. QED BY <2>4, <3>2, <3>3 DEF OpenExcl
    <2>5. CASE OpenFails(t)           BY <2>5 DEF OpenFails, NotLocked
    <2>6. CASE WriteMetadata(t)
      <3>1. file # NoFile => file' # NoFile /\ file'.creator = file.creator
        <4>1. ProcOf[t] \in Proc
          BY ThreadAssumption
        <4>2. file # NoFile => [file EXCEPT !.pid = ProcOf[t]] \in FileRec
          BY <4>1
        <4>3. QED BY <2>6, <4>2 DEF WriteMetadata
      <3>2. \A v \in Thread : pc'[v] \in Created => pc[v] \in Created
        BY <2>6 DEF WriteMetadata
      <3>3. QED BY <2>6, <3>1, <3>2 DEF WriteMetadata
    <2>7. CASE WriteFails(t)          BY <2>7 DEF WriteFails, NotLocked
    <2>8. CASE ReadContent(t)         BY <2>8 DEF ReadContent
    <2>9. CASE Judge(t)               BY <2>9 DEF Judge
    <2>10. CASE UnlinkStale(t)
      <3>1. ASSUME NEW v \in Thread, pc'[v] \in Created, v \notin robbed'
            PROVE FALSE
        <4>1. v # t /\ pc'[v] = pc[v] /\ v \notin robbed /\ v \notin Victims(t)
          BY <2>10, <3>1 DEF UnlinkStale
        <4>2. file # NoFile /\ file.creator = v
          BY <3>1, <4>1
        <4>3. QED BY <3>1, <4>1, <4>2 DEF Victims
      <3>2. QED BY <3>1
    <2>11. CASE UnlinkStaleFails(t)   BY <2>11 DEF UnlinkStaleFails
    <2>12. CASE Sleep(t)              BY <2>12 DEF Sleep
    <2>13. CASE Timeout(t)            BY <2>13 DEF Timeout
    <2>14. CASE Release(t)
      <3>1. ASSUME NEW v \in Thread, pc'[v] \in Created, v \notin robbed'
            PROVE FALSE
        <4>1. v # t /\ pc'[v] = pc[v] /\ v \notin robbed /\ v \notin Victims(t)
          BY <2>14, <3>1 DEF Release
        <4>2. file # NoFile /\ file.creator = v
          BY <3>1, <4>1
        <4>3. QED BY <3>1, <4>1, <4>2 DEF Victims
      <3>2. QED BY <3>1
    <2>15. CASE ReleaseUnlinkFails(t) BY <2>15 DEF ReleaseUnlinkFails
    <2>16. CASE FreeGate(t)           BY <2>16 DEF FreeGate
    <2>17. CASE Abandon(t)            BY <2>17 DEF Abandon
    <2>18. QED
      BY <2>1, <2>2, <2>3, <2>4, <2>5, <2>6, <2>7, <2>8, <2>9, <2>10, <2>11,
         <2>12, <2>13, <2>14, <2>15, <2>16, <2>17
      DEF Step, AcquireStep, ReleaseStep
  <1>4. pc[t] # "dead" /\ (\A v \in Thread \ {t} : pc'[v] = pc[v]) /\ dead' = dead
    BY DEF IndInv, TypeOK, Step, AcquireStep, ReleaseStep, Request, EnterGate,
           GateTimeout, OpenExcl, OpenFails, WriteMetadata, WriteFails,
           ReadContent, Judge, UnlinkStale, UnlinkStaleFails, Sleep, Timeout,
           Release, ReleaseUnlinkFails, FreeGate, Abandon, NotLocked, Goto
  <1>5. DeadInv'
    BY <1>4 DEF IndInv, DeadInv
  <1>6. VerdictInv'
    <2>1. CASE Judge(t)
      BY <2>1, NullAssumption DEF Judge, Stale, Forget, Goto, IndInv, TypeOK, VerdictInv
    <2>2. CASE ReadContent(t)
      BY <2>2 DEF ReadContent, Goto, IndInv, TypeOK, VerdictInv
    <2>3. CASE ~Judge(t) /\ ~ReadContent(t)
      <3>1. pc'[t] # "unlink"
        BY <2>3 DEF IndInv, TypeOK, Step, AcquireStep, ReleaseStep, Request,
           EnterGate, GateTimeout, OpenExcl, OpenFails, WriteMetadata,
           WriteFails, UnlinkStale, UnlinkStaleFails, Sleep, Timeout, Release,
           ReleaseUnlinkFails, FreeGate, Abandon, NotLocked, Goto
      <3>2. \A v \in Thread \ {t} : seen'[v] = seen[v]
        BY <2>3 DEF IndInv, TypeOK, Step, AcquireStep, ReleaseStep, Request,
           EnterGate, GateTimeout, OpenExcl, OpenFails, WriteMetadata,
           WriteFails, UnlinkStale, UnlinkStaleFails, Sleep, Timeout, Release,
           ReleaseUnlinkFails, FreeGate, Abandon, Forget
      <3>3. QED BY <1>4, <3>1, <3>2 DEF IndInv, VerdictInv
    <2>4. QED BY <2>1, <2>2, <2>3
  <1>7. QED BY <1>1, <1>2, <1>3, <1>5, <1>6 DEF IndInv

\* A killed process and an ageing file keep it too.
LEMMA FaultIndInv ==
  ASSUME IndInv, Age \/ \E p \in Proc : Kill(p) PROVE IndInv'
  <1>1. TypeOK'
    BY FaultType DEF IndInv
  <1>2. CASE Age
    BY <1>1, <1>2, NullAssumption
    DEF Age, IndInv, TypeOK, GateInv, FileInv, DeadInv, VerdictInv, FileRec
  <1>3. ASSUME NEW p \in Proc, Kill(p) PROVE IndInv'
    BY <1>1, <1>3
    DEF Kill, IndInv, TypeOK, GateInv, FileInv, DeadInv, VerdictInv, Gated,
        Waiting, Created
  <1>4. QED BY <1>2, <1>3

\* The invariant of callers, gates, lock file and verdicts holds in every state.
THEOREM IndInvHolds == Spec => []IndInv
  <1>1. IndInv /\ [Next]_vars => IndInv'
    <2>1. CASE UNCHANGED vars
      BY <2>1 DEF vars, IndInv, TypeOK, GateInv, FileInv, DeadInv, VerdictInv
    <2>2. CASE Next
      BY <2>2, StepIndInv, FaultIndInv DEF Next
    <2>3. QED BY <2>1, <2>2
  <1>2. QED BY InitIndInv, <1>1, PTL DEF Spec

-----------------------------------------------------------------------------
(* What follows from it *)

\* Whatever is killed, fails or is stolen, two callers are inside their query
\* together only if the lock file of one of them was unlinked under it.
THEOREM ExclusionThm == Spec => []ExclusionUnlessRobbed
  <1>1. IndInv => ExclusionUnlessRobbed
    BY DEF IndInv, FileInv, ExclusionUnlessRobbed, Created
  <1>2. QED BY IndInvHolds, <1>1, PTL

\* With one spelling of the lock directory per process, two callers of one
\* process are never inside their query together.
THEOREM IntraProcessThm == SpelledAlike => (Spec => []IntraProcessExclusion)
  <1> SUFFICES ASSUME SpelledAlike PROVE Spec => []IntraProcessExclusion
    OBVIOUS
  <1>1. IndInv => IntraProcessExclusion
    BY DEF SpelledAlike, IndInv, GateInv, IntraProcessExclusion, Gated, Waiting
  <1>2. QED BY IndInvHolds, <1>1, PTL

\* With one spelling per process, a pid judged stale has no caller that uses
\* the lock.
THEOREM VerdictThm == SpelledAlike => (Spec => []VerdictSound)
  <1> SUFFICES ASSUME SpelledAlike PROVE Spec => []VerdictSound
    OBVIOUS
  <1>1. IndInv => VerdictSound
    BY DEF SpelledAlike, IndInv, GateInv, DeadInv, VerdictInv, VerdictSound,
           Gated, Waiting, Created
  <1>2. QED BY IndInvHolds, <1>1, PTL

-----------------------------------------------------------------------------
(* Refinement: one lock per gate *)

\* A gate has one user at most, so the choice in UserOf is determined.
LEMMA OneUser ==
  ASSUME IndInv, NEW t \in Thread, pc[t] \in Gated
  PROVE  /\ Users(GateOf[t]) \subseteq {t}
         /\ pc[t] \in {"holding", "lost"} => UserOf(GateOf[t]) = t
         /\ pc[t] \notin {"holding", "lost"} => UserOf(GateOf[t]) = NoThread
  <1>1. Users(GateOf[t]) \subseteq {t}
    BY DEF IndInv, GateInv, Users, Gated, Waiting
  <1>2. pc[t] \in {"holding", "lost"} => Users(GateOf[t]) = {t}
    BY <1>1 DEF Users
  <1>3. pc[t] \notin {"holding", "lost"} => Users(GateOf[t]) = {}
    BY <1>1 DEF Users
  <1>4. QED BY <1>1, <1>2, <1>3 DEF UserOf

\* The users of a gate change only with the threads of that gate.
LEMMA OtherGates ==
  ASSUME NEW g, \A s \in Thread : GateOf[s] = g =>
           (pc[s] \in {"holding", "lost"} <=> pc'[s] \in {"holding", "lost"})
  PROVE  UserOf(g)' = UserOf(g)
  <1>1. Users(g)' = Users(g)
    BY DEF Users
  <1>2. QED BY <1>1 DEF UserOf

\* A step of a caller is an acquire or a release of its gate's lock, or neither.
LEMMA StepRefines ==
  ASSUME IndInv, NEW t \in Thread, Step(t)
  PROVE  [PerProcess!Next]_([g \in Gate |-> UserOf(g)])
  <1> DEFINE user == [g \in Gate |-> UserOf(g)]
             h == GateOf[t]
             Occ == {"holding", "lost"}
  <1>1. IndInv'
    BY StepIndInv
  <1>2. h \in Gate
    BY ThreadAssumption
  <1>3. \A s \in Thread \ {t} : pc'[s] = pc[s]
    BY DEF IndInv, TypeOK, Step, AcquireStep, ReleaseStep, Request, EnterGate,
           GateTimeout, OpenExcl, OpenFails, WriteMetadata, WriteFails,
           ReadContent, Judge, UnlinkStale, UnlinkStaleFails, Sleep, Timeout,
           Release, ReleaseUnlinkFails, FreeGate, Abandon, NotLocked, Goto
  <1>4. \A g \in Gate \ {h} : UserOf(g)' = UserOf(g)
    BY <1>3, OtherGates
  <1>5. CASE WriteMetadata(t)
    <2>1. pc[t] \in Gated /\ pc[t] \notin Occ /\ pc'[t] = "holding"
      BY <1>5 DEF WriteMetadata, Goto, IndInv, TypeOK, Gated, Waiting
    <2>2. UserOf(h) = NoThread
      BY <2>1, OneUser
    <2>3. UserOf(h)' = t
      <3>1. Users(h)' = {t}
        BY <1>1, <2>1 DEF IndInv, GateInv, Users, Gated, Waiting
      <3>2. QED BY <3>1 DEF UserOf
    <2>4. user' = [user EXCEPT ![h] = t]
      BY <1>2, <1>4, <2>3
    <2>5. PerProcess!Acquire(h, t)
      BY <1>2, <2>2, <2>4 DEF PerProcess!Acquire
    <2>6. QED BY <1>2, <2>5 DEF PerProcess!Next
  <1>6. CASE Release(t) \/ ReleaseUnlinkFails(t)
    <2>1. pc[t] \in Gated /\ pc[t] \in Occ /\ pc'[t] = "releasing"
      BY <1>6 DEF Release, ReleaseUnlinkFails, Goto, IndInv, TypeOK, Gated
    <2>2. UserOf(h) = t
      BY <2>1, OneUser
    <2>3. UserOf(h)' = NoThread
      <3>1. Users(h)' = {}
        BY <1>1, <2>1 DEF IndInv, GateInv, Users, Gated, Waiting
      <3>2. QED BY <3>1 DEF UserOf
    <2>4. user' = [user EXCEPT ![h] = NoThread]
      BY <1>2, <1>4, <2>3
    <2>5. PerProcess!Release(h)
      BY <1>2, <2>2, <2>4, NullAssumption DEF PerProcess!Release
    <2>6. QED BY <1>2, <2>5 DEF PerProcess!Next
  <1>7. CASE ~WriteMetadata(t) /\ ~Release(t) /\ ~ReleaseUnlinkFails(t)
    <2>1. pc[t] \in Occ <=> pc'[t] \in Occ
      BY <1>7 DEF IndInv, TypeOK, Step, AcquireStep, ReleaseStep, Request,
           EnterGate, GateTimeout, OpenExcl, OpenFails, WriteFails,
           ReadContent, Judge, UnlinkStale, UnlinkStaleFails, Sleep, Timeout,
           FreeGate, Abandon, NotLocked, Goto
    <2>2. UserOf(h)' = UserOf(h)
      BY <1>3, <2>1, OtherGates
    <2>3. QED BY <1>4, <2>2
  <1>8. QED BY <1>5, <1>6, <1>7

\* A kill releases what the killed process used; the passing of time releases nothing.
LEMMA FaultRefines ==
  ASSUME SpelledAlike, IndInv, Age \/ \E p \in Proc : Kill(p)
  PROVE  [PerProcess!Next]_([g \in Gate |-> UserOf(g)])
  <1> DEFINE user == [g \in Gate |-> UserOf(g)]
  <1>1. CASE Age
    BY <1>1, OtherGates DEF Age
  <1>2. ASSUME NEW p \in Proc, Kill(p) PROVE [PerProcess!Next]_user
    <2>1. CASE \E t \in Thread : ProcOf[t] = p
      <3>1. PICK t \in Thread : ProcOf[t] = p
        BY <2>1
      <3> DEFINE h == GateOf[t]
      <3>2. h \in Gate
        BY ThreadAssumption
      <3>3. \A g \in Gate \ {h} : UserOf(g)' = UserOf(g)
        <4>1. \A s \in Thread : GateOf[s] # h => pc'[s] = pc[s]
          BY <1>2, <3>1 DEF Kill, SpelledAlike
        <4>2. QED BY <4>1, OtherGates
      <3>4. \A s \in Thread : GateOf[s] = h => pc'[s] = "dead"
        BY <1>2, <3>1, ThreadAssumption DEF Kill
      <3>5. UserOf(h)' = NoThread
        BY <3>4 DEF UserOf, Users
      <3>6. CASE UserOf(h) = NoThread
        BY <3>3, <3>5, <3>6
      <3>7. CASE UserOf(h) # NoThread
        <4>1. user' = [user EXCEPT ![h] = NoThread]
          BY <3>2, <3>3, <3>5
        <4>2. PerProcess!Release(h)
          BY <3>2, <3>7, <4>1 DEF PerProcess!Release
        <4>3. QED BY <3>2, <4>2 DEF PerProcess!Next
      <3>8. QED BY <3>6, <3>7
    <2>2. CASE \A t \in Thread : ProcOf[t] # p
      <3>1. \A s \in Thread : pc'[s] = pc[s]
        BY <1>2, <2>2 DEF Kill
      <3>2. QED BY <3>1, OtherGates
    <2>3. QED BY <2>1, <2>2
  <1>3. QED BY <1>1, <1>2

\* With one spelling per process, the callers of each process see a lock: it
\* is taken only when free and passes from caller to caller through being free.
THEOREM ImplementsLockThm == SpelledAlike => (Spec => ImplementsLock)
  <1> SUFFICES ASSUME SpelledAlike PROVE Spec => ImplementsLock
    OBVIOUS
  <1>1. Init => PerProcess!Init
    BY DEF Init, PerProcess!Init, UserOf, Users
  <1>2. IndInv /\ [Next]_vars => [PerProcess!Next]_([g \in Gate |-> UserOf(g)])
    <2>1. CASE UNCHANGED vars
      BY <2>1, OtherGates DEF vars
    <2>2. ASSUME IndInv, Next PROVE [PerProcess!Next]_([g \in Gate |-> UserOf(g)])
      BY <2>2, StepRefines, FaultRefines DEF Next
    <2>3. QED BY <2>1, <2>2
  <1>3. QED
    BY <1>1, <1>2, IndInvHolds, PTL DEF Spec, ImplementsLock, PerProcess!Spec
=============================================================================
