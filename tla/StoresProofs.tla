---------------------------- MODULE StoresProofs ----------------------------
(***************************************************************************)
(* The stores of several processes, for every finite set of processes and  *)
(* all bounds: their types, and what each of them promises.                *)
(*                                                                         *)
(* Each promise becomes inductive with what a process in the middle of a   *)
(* call knows:                                                             *)
(*   counters   where it has read (Places), that what it has read leaves   *)
(*              room for all that are counting (Room), and that it is the  *)
(*              counter there is until two cross (Fresh);                  *)
(*   locks      who acquires in several steps (OneStep), that one process  *)
(*              does until two cross (OneInside), and that nobody uses     *)
(*              what is being acquired (Owned);                            *)
(*   grades     that what an upgrade has decided is earned (Sound) and     *)
(*              starts from the grade there is (FreshGrade);               *)
(*   migration  when a file is torn (Logged), that the database still      *)
(*              begins with what was read of it (StillThere), what the     *)
(*              backup holds (BackedUp), and that a report ends a command  *)
(*              (Reported).                                                *)
(***************************************************************************)
EXTENDS Stores, FiniteSetTheorems, SequenceTheorems, TLAPS

-----------------------------------------------------------------------------
(* The counters *)

\* Where a process increments, and what.
Counting == {"count", "flag", "name"}

Incremented(spot) ==
  IF spot = "count" THEN "total" ELSE IF spot = "flag" THEN "flagged" ELSE "surgeon"

\* Who has read something, who has not; alone on a MemoryBackend.
Places ==
  /\ \A p \in Process :
       /\ at[p] \in {"idle", "consult"} => seen[p] = None
       /\ at[p] \in {"judge", "mark"} => seen[p] # None
       /\ kind = "redis" /\ at[p] \in Counting => seen[p] = None
  /\ kind = "memory" => \A p, q \in Process : Busy(p) /\ Busy(q) => p = q

\* Whatever was read, there is an execution on record for it.
Room ==
  /\ counter["total"] + In("count") <= executions
  /\ \A p \in Process : at[p] = "count" /\ seen[p] # None =>
       seen[p] + In("count") <= executions

\* Until two increments of one counter cross, what was read is what there is.
Fresh ==
  ~crossed => \A p \in Process :
    /\ at[p] \in Counting /\ seen[p] # None =>
         /\ seen[p] = counter[Incremented(at[p])]
         /\ \A q \in Process : at[q] = at[p] /\ seen[q] # None => p = q
    /\ at[p] = "mark" => seen[p] <= counter["total"]

CountInv == TypeOK /\ Places /\ Room /\ Fresh /\ CountsKept

-----------------------------------------------------------------------------
(* Counting processes *)

Count(f, spot) == Cardinality({p \in Process : f[p] = spot})

\* How many processes are at a place is a number.
LEMMA CountType ==
  ASSUME NEW f, NEW spot
  PROVE  /\ IsFiniteSet({p \in Process : f[p] = spot})
         /\ Count(f, spot) \in Nat
<1>1. IsFiniteSet({p \in Process : f[p] = spot})
  BY ProcessAssumption, FS_Subset
<1> QED
  BY <1>1, FS_CardinalityType DEF Count

\* A process that goes from one place to another is counted at the other.
LEMMA CountMoved ==
  ASSUME NEW f \in [Process -> Place], NEW p \in Process, NEW to \in Place, NEW spot
  PROVE  LET g == [f EXCEPT ![p] = to]
         IN  /\ to = spot /\ f[p] # spot => Count(g, spot) = Count(f, spot) + 1
             /\ to # spot /\ f[p] = spot => Count(g, spot) = Count(f, spot) - 1
             /\ (to = spot <=> f[p] = spot) => Count(g, spot) = Count(f, spot)
<1> DEFINE g == [f EXCEPT ![p] = to]
           A == {q \in Process : f[q] = spot}
           B == {q \in Process : g[q] = spot}
<1>1. IsFiniteSet(A) /\ IsFiniteSet(B) /\ Cardinality(A) \in Nat /\ Cardinality(B) \in Nat
  BY CountType DEF Count
<1>2. CASE to = spot /\ f[p] # spot
  <2>1. B = A \cup {p} /\ p \notin A
    BY <1>2
  <2> QED
    BY <1>1, <1>2, <2>1, FS_AddElement DEF Count
<1>3. CASE to # spot /\ f[p] = spot
  <2>1. A = B \cup {p} /\ p \notin B
    BY <1>3
  <2> QED
    BY <1>1, <1>3, <2>1, FS_AddElement DEF Count
<1>4. CASE to = spot /\ f[p] = spot
  <2>1. g = f
    BY <1>4
  <2> QED
    BY <1>1, <1>4, <2>1 DEF Count
<1>5. CASE to # spot /\ f[p] # spot
  <2>1. A = B
    BY <1>5
  <2> QED
    BY <1>1, <1>5, <2>1 DEF Count
<1> QED
  BY <1>2, <1>3, <1>4, <1>5

\* Nobody is counted where nobody is.
LEMMA CountNone ==
  ASSUME NEW f, NEW spot, \A p \in Process : f[p] # spot
  PROVE  Count(f, spot) = 0
<1>1. {p \in Process : f[p] = spot} = {}
  OBVIOUS
<1> QED
  BY <1>1, FS_EmptySet DEF Count
\* What a process's move does to the two counts of CountsKept.
LEMMA Moved ==
  ASSUME TypeOK, NEW p \in Process, NEW to \in Place, at' = [at EXCEPT ![p] = to]
  PROVE  /\ \A q \in Process : at'[q] = IF q = p THEN to ELSE at[q]
         /\ at' \in [Process -> Place]
         /\ In("count") \in Nat /\ In("count")' \in Nat
         /\ In("name") \in Nat /\ In("name")' \in Nat
         /\ In("count")' = In("count") + (IF to = "count" THEN 1 ELSE 0)
                                       - (IF at[p] = "count" THEN 1 ELSE 0)
         /\ In("name")' = In("name") + (IF to = "name" THEN 1 ELSE 0)
                                     - (IF at[p] = "name" THEN 1 ELSE 0)
<1>1. at \in [Process -> Place]
  BY DEF TypeOK
<1>2. \A spot : In(spot) = Count(at, spot) /\ In(spot)' = Count(at', spot)
  BY DEF In, Count
<1>3. \A spot : Count(at, spot) \in Nat /\ Count(at', spot) \in Nat
  BY CountType
<1>4. ASSUME NEW spot
      PROVE  Count(at', spot) = Count(at, spot) + (IF to = spot THEN 1 ELSE 0)
                                                  - (IF at[p] = spot THEN 1 ELSE 0)
  <2> DEFINE g == [at EXCEPT ![p] = to]
  <2>1. to = spot /\ at[p] # spot => Count(g, spot) = Count(at, spot) + 1
    BY <1>1, CountMoved
  <2>2. to # spot /\ at[p] = spot => Count(g, spot) = Count(at, spot) - 1
    BY <1>1, CountMoved
  <2>3. (to = spot <=> at[p] = spot) => Count(g, spot) = Count(at, spot)
    BY <1>1, CountMoved
  <2>4. at' = g
    OBVIOUS
  <2>5. Count(at', spot) = Count(g, spot)
    BY <2>4
  <2>6. Count(at, spot) \in Nat
    BY <1>3
  <2> HIDE DEF g
  <2> QED
    BY <2>1, <2>2, <2>3, <2>5, <2>6
<1> QED
  BY <1>1, <1>2, <1>3, <1>4

-----------------------------------------------------------------------------
(* The invariant *)

\* Initially nothing is counted and nobody counts.
LEMMA CountInitial == Init => CountInv
<1> SUFFICES ASSUME Init PROVE CountInv
  OBVIOUS
<1> USE ProcessAssumption DEF Init
<1>1. In("count") = 0 /\ In("name") = 0
  <2>1. \A p \in Process : at[p] = "idle"
    OBVIOUS
  <2>2. Count(at, "count") = 0 /\ Count(at, "name") = 0
    BY <2>1, CountNone
  <2> QED
    BY <2>2 DEF In, Count
<1>2. TypeOK
  BY DEF TypeOK, Place, Key
<1>3. Places /\ Fresh
  BY DEF Places, Fresh, Counting, Busy
<1>4. Room /\ CountsKept
  BY <1>1 DEF Room, CountsKept, Key
<1> QED
  BY <1>2, <1>3, <1>4 DEF CountInv

\* The first half of an increment.
LEMMA ReadStep ==
  ASSUME CountInv, NEW p \in Process, at[p] \in Counting,
         ReadCounter(p, Incremented(at[p])),
         UNCHANGED <<kind, executions, prefs, asked, flags, lost>>
  PROVE  CountInv'
<1> USE DEF CountInv, ReadCounter
<1>0. Incremented(at[p]) \in Key
  BY DEF Incremented, Key
<1>1. /\ seen' = [seen EXCEPT ![p] = counter[Incremented(at[p])]]
      /\ counter[Incremented(at[p])] \in Nat
  BY <1>0 DEF TypeOK
<1>2. /\ crossed' \in BOOLEAN /\ (~crossed' => ~crossed)
      /\ ~crossed' => \A q \in Process \ {p} : at[q] = at[p] => seen[q] = None
  BY DEF TypeOK
<1>3. TypeOK'
  BY <1>1, <1>2 DEF TypeOK
<1>4. Places'
  BY <1>1, ProcessAssumption DEF Places, Busy, TypeOK, Counting
<1>5. In("count")' = In("count") /\ In("name")' = In("name")
  BY DEF In
<1>6. Room'
  <2>1. at[p] = "count" => Incremented(at[p]) = "total"
    BY DEF Incremented
  <2> QED
    BY <1>1, <1>5, <2>1 DEF Room, TypeOK
<1>7. Fresh'
  <2> SUFFICES ASSUME ~crossed', NEW r \in Process
               PROVE  /\ at[r] \in Counting /\ seen'[r] # None =>
                           /\ seen'[r] = counter[Incremented(at[r])]
                           /\ \A q \in Process : at[q] = at[r] /\ seen'[q] # None => r = q
                      /\ at[r] = "mark" => seen'[r] <= counter["total"]
    BY DEF Fresh, Incremented
  <2>1. CASE r = p
    BY <1>1, <1>2, <2>1 DEF TypeOK, Counting
  <2>2. CASE r # p
    BY <1>1, <1>2, <2>2 DEF Fresh, TypeOK, Counting
  <2> QED
    BY <2>1, <2>2
<1>8. CountsKept'
  BY <1>2, <1>5 DEF CountsKept
<1> QED
  BY <1>3, <1>4, <1>6, <1>7, <1>8

\* The second half, or all of it on Redis; only a surgeon's count is last.
LEMMA WriteStep ==
  ASSUME CountInv, NEW p \in Process, at[p] \in Counting,
         NEW to \in {"idle", "name"}, to = "name" <=> at[p] = "flag",
         WriteCounter(p, Incremented(at[p]), to),
         UNCHANGED <<kind, executions, prefs, asked, flags, lost>>
  PROVE  CountInv'
<1> DEFINE k   == Incremented(at[p])
           new == (IF kind = "redis" THEN counter[k] ELSE seen[p]) + 1
<1> USE DEF CountInv
<1>0. k \in Key /\ (k = "total" <=> at[p] = "count") /\ (k = "flagged" <=> at[p] = "flag")
      /\ (k = "surgeon" <=> at[p] = "name") /\ k # "last"
  BY DEF Incremented, Key, Counting
<1>1. /\ counter' = [counter EXCEPT ![k] = new]
      /\ seen' = [seen EXCEPT ![p] = None]
      /\ at' = [at EXCEPT ![p] = to] /\ crossed' = crossed
  BY DEF WriteCounter, Go
<1>2. new \in Nat
  BY <1>0 DEF WriteCounter, TypeOK
<1>3. TypeOK'
  BY <1>0, <1>1, <1>2 DEF TypeOK, Place
<1>4. to \in Place /\ (to = "count" <=> FALSE)
  BY DEF Place
<1>5. /\ \A q \in Process : at'[q] = IF q = p THEN to ELSE at[q]
      /\ \A q \in Process : seen'[q] = IF q = p THEN None ELSE seen[q]
      /\ \A l \in Key : counter'[l] = IF l = k THEN new ELSE counter[l]
  BY <1>0, <1>1, <1>2 DEF TypeOK
<1>6. /\ In("count") \in Nat /\ In("name") \in Nat
      /\ In("count")' = In("count") - (IF at[p] = "count" THEN 1 ELSE 0)
      /\ In("name")' = In("name") + (IF at[p] = "flag" THEN 1 ELSE 0)
                                  - (IF at[p] = "name" THEN 1 ELSE 0)
  <2>1. /\ In("count") \in Nat /\ In("name") \in Nat
        /\ In("count")' = In("count") + (IF to = "count" THEN 1 ELSE 0)
                                      - (IF at[p] = "count" THEN 1 ELSE 0)
        /\ In("name")' = In("name") + (IF to = "name" THEN 1 ELSE 0)
                                    - (IF at[p] = "name" THEN 1 ELSE 0)
    BY <1>1, <1>4, Moved
  <2> QED
    BY <1>4, <2>1
<1>7. Places'
  BY <1>5 DEF Places, Busy, Counting
<1>8. at[p] = "count" => new + In("count")' <= executions
  BY <1>0, <1>2, <1>6 DEF Room, TypeOK, WriteCounter
<1>9. Room'
  <2>1. counter'["total"] + In("count")' <= executions
    <3>1. CASE at[p] = "count"
      BY <1>0, <1>5, <1>8, <3>1 DEF Key
    <3>2. CASE at[p] # "count"
      BY <1>0, <1>5, <1>6, <3>2 DEF Room, Key
    <3> QED
      BY <3>1, <3>2
  <2>2. ASSUME NEW q \in Process, at'[q] = "count", seen'[q] # None
        PROVE  seen'[q] + In("count")' <= executions
    <3>1. q # p /\ at[q] = "count" /\ seen[q] # None /\ seen'[q] = seen[q]
      BY <1>4, <1>5, <2>2
    <3>2. seen[q] \in Nat /\ executions \in Nat
      BY <3>1 DEF TypeOK
    <3> QED
      BY <1>6, <3>1, <3>2 DEF Room
  <2> QED
    BY <2>1, <2>2 DEF Room
<1>10. ~crossed => new = counter[k] + 1
  BY DEF Fresh, WriteCounter, TypeOK
<1>11. Fresh'
  <2> SUFFICES ASSUME ~crossed, NEW r \in Process
               PROVE  /\ at'[r] \in Counting /\ seen'[r] # None =>
                           /\ seen'[r] = counter'[Incremented(at'[r])]
                           /\ \A q \in Process : at'[q] = at'[r] /\ seen'[q] # None => r = q
                      /\ at'[r] = "mark" => seen'[r] <= counter'["total"]
    BY <1>1 DEF Fresh, Incremented
  <2>1. CASE r = p
    BY <1>5, <2>1 DEF Counting
  <2>2. CASE r # p
    <3>1. at'[r] = at[r] /\ seen'[r] = seen[r]
      BY <1>5, <2>2
    <3>2. ASSUME at[r] \in Counting, seen[r] # None
          PROVE  /\ seen[r] = counter'[Incremented(at[r])]
                 /\ \A q \in Process : at'[q] = at[r] /\ seen'[q] # None => r = q
      <4>1. kind # "redis"
        BY <3>2 DEF Places
      <4>2. seen[p] # None
        BY <4>1 DEF WriteCounter
      <4>3. at[p] # at[r]
        BY <2>2, <3>2, <4>2 DEF Fresh
      <4>4. Incremented(at[r]) \in Key \ {k}
        BY <3>2, <4>3 DEF Incremented, Key, Counting
      <4> QED
        BY <1>5, <3>2, <4>4 DEF Fresh
    <3>3. ASSUME at[r] = "mark" PROVE seen[r] <= counter'["total"]
      <4>1. seen[r] \in Nat /\ counter["total"] \in Nat /\ seen[r] <= counter["total"]
        BY <3>3 DEF Fresh, Places, TypeOK, Key
      <4>2. counter'["total"] \in {counter["total"], counter["total"] + 1}
        BY <1>5, <1>10 DEF Key
      <4> QED
        BY <4>1, <4>2
    <3> QED
      BY <3>1, <3>2, <3>3
  <2> QED
    BY <2>1, <2>2
<1>12. CountsKept'
  <2>1. counter["total"] \in Nat /\ counter["last"] \in Nat /\ counter["flagged"] \in Nat
        /\ counter["surgeon"] \in Nat /\ executions \in Nat /\ lost \in Nat
    BY DEF TypeOK, Key
  <2>2. counter'["last"] = counter["last"]
    BY <1>0, <1>5 DEF Key
  <2>3. CASE at[p] = "count"
    <3>1. /\ counter'["total"] = new /\ counter'["flagged"] = counter["flagged"]
          /\ counter'["surgeon"] = counter["surgeon"]
          /\ In("count")' = In("count") - 1 /\ In("name")' = In("name")
          /\ ~crossed => new = counter["total"] + 1
      BY <1>0, <1>5, <1>6, <1>10, <2>3 DEF Key
    <3> QED
      BY <1>1, <1>6, <1>9, <2>1, <2>2, <3>1 DEF CountsKept, Room
  <2>4. CASE at[p] = "flag"
    <3>1. /\ counter'["total"] = counter["total"] /\ counter'["flagged"] = new
          /\ counter'["surgeon"] = counter["surgeon"]
          /\ In("count")' = In("count") /\ In("name")' = In("name") + 1
          /\ ~crossed => new = counter["flagged"] + 1
      BY <1>0, <1>5, <1>6, <1>10, <2>4 DEF Key
    <3> QED
      BY <1>1, <1>6, <1>9, <2>1, <2>2, <3>1 DEF CountsKept, Room
  <2>5. CASE at[p] = "name"
    <3>1. /\ counter'["total"] = counter["total"] /\ counter'["surgeon"] = new
          /\ counter'["flagged"] = counter["flagged"]
          /\ In("count")' = In("count") /\ In("name")' = In("name") - 1
          /\ ~crossed => new = counter["surgeon"] + 1
      BY <1>0, <1>5, <1>6, <1>10, <2>5 DEF Key
    <3> QED
      BY <1>1, <1>6, <1>9, <2>1, <2>2, <3>1 DEF CountsKept, Room
  <2> QED
    BY <2>3, <2>4, <2>5 DEF Counting
<1> QED
  BY <1>3, <1>7, <1>9, <1>11, <1>12

\* An increment, whole or half.
LEMMA IncrementStep ==
  ASSUME CountInv, NEW p \in Process,
         CountExecution(p) \/ CountFlagged(p) \/ CountSurgeon(p)
  PROVE  CountInv'
<1>1. CASE CountExecution(p)
  <2>1. at[p] = "count" /\ at[p] \in Counting /\ Incremented(at[p]) = "total"
    BY <1>1 DEF CountExecution, Counting, Incremented
  <2> QED
    BY <1>1, <2>1, ReadStep, WriteStep DEF CountExecution, Increment
<1>2. CASE CountFlagged(p)
  <2>1. at[p] = "flag" /\ at[p] \in Counting /\ Incremented(at[p]) = "flagged"
    BY <1>2 DEF CountFlagged, Counting, Incremented
  <2> QED
    BY <1>2, <2>1, ReadStep, WriteStep DEF CountFlagged, Increment
<1>3. CASE CountSurgeon(p)
  <2>1. at[p] = "name" /\ at[p] \in Counting /\ Incremented(at[p]) = "surgeon"
    BY <1>3 DEF CountSurgeon, Counting, Incremented
  <2> QED
    BY <1>3, <2>1, ReadStep, WriteStep DEF CountSurgeon, Increment
<1> QED
  BY <1>1, <1>2, <1>3

\* A record is written, and a process that has it to count.
LEMMA RecordStep ==
  ASSUME CountInv, NEW p \in Process, RecordExecution(p)
  PROVE  CountInv'
<1> USE DEF CountInv, RecordExecution, ListPush, Go
<1>1. at[p] = "idle" /\ seen[p] = None
  BY DEF MayBegin, Places
<1>2. "count" \in Place
  BY DEF Place
<1>3. /\ \A q \in Process : at'[q] = IF q = p THEN "count" ELSE at[q]
      /\ In("count") \in Nat
      /\ In("count")' = In("count") + 1 /\ In("name")' = In("name")
  <2>1. /\ \A q \in Process : at'[q] = IF q = p THEN "count" ELSE at[q]
        /\ In("count") \in Nat /\ In("name") \in Nat
        /\ In("count")' = In("count") + (IF "count" = "count" THEN 1 ELSE 0)
                                      - (IF at[p] = "count" THEN 1 ELSE 0)
        /\ In("name")' = In("name") + (IF "count" = "name" THEN 1 ELSE 0)
                                    - (IF at[p] = "name" THEN 1 ELSE 0)
    BY <1>2, Moved
  <2> QED
    BY <1>1, <2>1
<1>4. TypeOK'
  BY <1>2 DEF TypeOK
<1>5. Places'
  BY <1>1, <1>3 DEF Places, Busy, MayBegin, Counting
<1>6. Room'
  BY <1>1, <1>3, <1>4 DEF Room, TypeOK, Key
<1>7. Fresh'
  BY <1>1, <1>3 DEF Fresh, Counting
<1>8. CountsKept'
  BY <1>3, <1>6 DEF CountsKept, Room, TypeOK, Key
<1> QED
  BY <1>4, <1>5, <1>6, <1>7, <1>8

\* A step between places where nothing is counted, which reads the total or
\* forgets what was read.
LEMMA AsideStep ==
  ASSUME CountInv, NEW p \in Process,
         NEW to \in {"idle", "judge", "consult", "mark"},
         at[p] \in {"idle", "judge", "consult", "mark"},
         at' = [at EXCEPT ![p] = to],
         NEW val, val = IF to \in {"judge", "mark"} THEN counter["total"] ELSE None,
         seen' = [seen EXCEPT ![p] = val],
         kind = "memory" => \A q \in Process : q # p => ~Busy(q),
         NEW last \in Nat, ~crossed => last <= counter["total"],
         counter' = [counter EXCEPT !["last"] = last],
         UNCHANGED <<kind, executions, prefs, asked, flags, crossed, lost>>
  PROVE  CountInv'
<1> USE DEF CountInv
<1>1. to \in Place /\ to \notin Counting
  BY DEF Place, Counting
<1>2. val \in Nat \cup {None} /\ (to \in {"judge", "mark"} => val = counter["total"] /\ val # None)
      /\ (to \in {"idle", "consult"} => val = None)
  BY ProcessAssumption DEF TypeOK, Key
<1>3. /\ \A q \in Process : at'[q] = IF q = p THEN to ELSE at[q]
      /\ \A q \in Process : seen'[q] = IF q = p THEN val ELSE seen[q]
      /\ \A l \in Key : counter'[l] = IF l = "last" THEN last ELSE counter[l]
  BY DEF TypeOK
<1>4. In("count")' = In("count") /\ In("name")' = In("name")
  <2>1. /\ In("count") \in Nat /\ In("name") \in Nat
        /\ In("count")' = In("count") + (IF to = "count" THEN 1 ELSE 0)
                                      - (IF at[p] = "count" THEN 1 ELSE 0)
        /\ In("name")' = In("name") + (IF to = "name" THEN 1 ELSE 0)
                                    - (IF at[p] = "name" THEN 1 ELSE 0)
    BY <1>1, Moved
  <2> QED
    BY <2>1
<1>5. TypeOK'
  BY <1>1, <1>2 DEF TypeOK
<1>6. Places'
  BY <1>1, <1>2, <1>3 DEF Places, Busy
<1>7. Room'
  BY <1>3, <1>4 DEF Room, Key
<1>8. Fresh'
  <2> SUFFICES ASSUME ~crossed, NEW r \in Process
               PROVE  /\ at'[r] \in Counting /\ seen'[r] # None =>
                           /\ seen'[r] = counter'[Incremented(at'[r])]
                           /\ \A q \in Process : at'[q] = at'[r] /\ seen'[q] # None => r = q
                      /\ at'[r] = "mark" => seen'[r] <= counter'["total"]
    BY DEF Fresh, Incremented
  <2>1. CASE r = p
    BY <1>1, <1>2, <1>3, <2>1 DEF TypeOK, Key
  <2>2. CASE r # p
    <3>1. at[r] \in Counting => Incremented(at[r]) \in Key \ {"last"}
      BY DEF Incremented, Key, Counting
    <3> QED
      BY <1>1, <1>3, <2>2, <3>1 DEF Fresh, Key, Counting
  <2> QED
    BY <2>1, <2>2
<1>9. CountsKept'
  BY <1>3, <1>4 DEF CountsKept, Key
<1> QED
  BY <1>5, <1>6, <1>7, <1>8, <1>9

\* The steps of a consultation are such steps.
LEMMA ConsultStep ==
  ASSUME CountInv, NEW p \in Process,
         Judge(p) \/ ShouldConsult(p) \/ ReadTotal(p) \/ MarkConsulted(p)
  PROVE  CountInv'
<1> USE DEF CountInv, Go
<1>0. /\ counter["last"] \in Nat /\ (~crossed => counter["last"] <= counter["total"])
      /\ counter = [counter EXCEPT !["last"] = counter["last"]]
  BY DEF TypeOK, CountsKept, Key
<1>1. kind = "memory" => \A q \in Process : q # p => ~Busy(q)
  BY DEF Judge, ShouldConsult, ReadTotal, MarkConsulted, MayBegin, Places, Busy
<1>2. CASE Judge(p)
  BY <1>0, <1>1, <1>2, AsideStep DEF Judge, MayBegin
<1>3. CASE ShouldConsult(p)
  <2>1. PICK to \in {"idle", "consult"} : at' = [at EXCEPT ![p] = to]
    BY <1>3 DEF ShouldConsult
  <2> QED
    BY <1>0, <1>1, <1>3, <2>1, AsideStep DEF ShouldConsult
<1>4. CASE ReadTotal(p)
  BY <1>0, <1>1, <1>4, AsideStep DEF ReadTotal
<1>5. CASE MarkConsulted(p)
  <2>1. seen[p] \in Nat /\ (~crossed => seen[p] <= counter["total"])
    BY <1>5 DEF MarkConsulted, Fresh, Places, TypeOK
  <2> QED
    BY <1>1, <1>5, <2>1, AsideStep DEF MarkConsulted
<1> QED
  BY <1>2, <1>3, <1>4, <1>5

\* An answer is flagged, and has yet to be counted.
LEMMA FlagStep ==
  ASSUME CountInv, NEW p \in Process, FlagAnswer(p)
  PROVE  CountInv'
<1> USE DEF CountInv, FlagAnswer, Go
<1>1. at[p] = "idle" /\ seen[p] = None
  BY DEF MayBegin, Places
<1>2. "flag" \in Place
  BY DEF Place
<1>3. /\ \A q \in Process : at'[q] = IF q = p THEN "flag" ELSE at[q]
      /\ In("count")' = In("count") /\ In("name")' = In("name")
  <2>1. /\ \A q \in Process : at'[q] = IF q = p THEN "flag" ELSE at[q]
        /\ In("count") \in Nat /\ In("name") \in Nat
        /\ In("count")' = In("count") + (IF "flag" = "count" THEN 1 ELSE 0)
                                      - (IF at[p] = "count" THEN 1 ELSE 0)
        /\ In("name")' = In("name") + (IF "flag" = "name" THEN 1 ELSE 0)
                                    - (IF at[p] = "name" THEN 1 ELSE 0)
    BY <1>2, Moved
  <2> QED
    BY <1>1, <2>1
<1>4. TypeOK'
  BY <1>2 DEF TypeOK
<1>5. Places'
  BY <1>1, <1>3 DEF Places, Busy, MayBegin, Counting
<1>6. Room' /\ CountsKept'
  BY <1>3 DEF Room, CountsKept
<1>7. Fresh'
  BY <1>1, <1>3 DEF Fresh, Counting
<1> QED
  BY <1>4, <1>5, <1>6, <1>7

\* A preference is recorded in one step.
LEMMA PreferenceStep ==
  ASSUME CountInv, NEW p \in Process, RecordPreference(p)
  PROVE  CountInv'
<1> USE DEF CountInv, RecordPreference, HashIncrement
<1>1. TypeOK'
  BY DEF TypeOK
<1>2. In("count")' = In("count") /\ In("name")' = In("name")
  BY DEF In
<1>3. Places' /\ Fresh'
  BY DEF Places, Fresh, Busy
<1>4. Room' /\ CountsKept'
  BY <1>2 DEF Room, CountsKept, TypeOK
<1> QED
  BY <1>1, <1>3, <1>4

\* A process dies, and with it a MemoryBackend, which was its own.
LEMMA CrashStep ==
  ASSUME CountInv, NEW p \in Process, Crash(p)
  PROVE  CountInv'
<1> USE DEF CountInv, Go
<1>0. /\ at' = [at EXCEPT ![p] = "idle"] /\ seen' = [seen EXCEPT ![p] = None]
      /\ UNCHANGED <<kind, crossed>>
  BY DEF Crash
<1>1. "idle" \in Place
  BY DEF Place
<1>2. /\ \A q \in Process : at'[q] = IF q = p THEN "idle" ELSE at[q]
      /\ \A q \in Process : seen'[q] = IF q = p THEN None ELSE seen[q]
  BY <1>0 DEF TypeOK
<1>3. TypeOK'
  <2>1. at' \in [Process -> Place] /\ seen' \in [Process -> Nat \cup {None}]
    BY <1>0, <1>1 DEF TypeOK
  <2>2. CASE kind = "memory"
    BY <1>0, <2>1, <2>2 DEF Crash, TypeOK
  <2>3. CASE kind # "memory"
    BY <1>0, <2>1, <2>3 DEF Crash, TypeOK
  <2> QED
    BY <2>2, <2>3
<1>4. Places'
  BY <1>0, <1>2 DEF Places, Busy
<1>5. CASE kind = "memory"
  <2>1. \A q \in Process : at'[q] = "idle" /\ seen'[q] = None
    BY <1>2, <1>5 DEF Places, Crash, Busy
  <2>2. Count(at', "count") = 0 /\ Count(at', "name") = 0
    BY <2>1, CountNone
  <2>3. In("count")' = 0 /\ In("name")' = 0
    BY <2>2 DEF In, Count
  <2>4. /\ counter' = [k \in Key |-> 0] /\ executions' = 0 /\ prefs' = 0 /\ asked' = 0
        /\ lost' = 0
    BY <1>5 DEF Crash
  <2>5. Room' /\ CountsKept'
    BY <2>1, <2>3, <2>4 DEF Room, CountsKept, Key
  <2>6. Fresh'
    BY <2>1 DEF Fresh, Counting
  <2> QED
    BY <1>3, <1>4, <2>5, <2>6
<1>6. CASE kind # "memory"
  <2>1. /\ lost' = IF at[p] = "count" THEN lost + 1 ELSE lost
        /\ UNCHANGED <<counter, executions, prefs, asked, flags>>
    BY <1>6 DEF Crash
  <2>2. /\ In("count") \in Nat /\ In("name") \in Nat
        /\ In("count")' = In("count") + (IF "idle" = "count" THEN 1 ELSE 0)
                                      - (IF at[p] = "count" THEN 1 ELSE 0)
        /\ In("name")' = In("name") + (IF "idle" = "name" THEN 1 ELSE 0)
                                    - (IF at[p] = "name" THEN 1 ELSE 0)
        /\ In("count")' \in Nat /\ In("name")' \in Nat
    BY <1>0, <1>1, Moved
  <2>3. /\ In("count")' = In("count") - (IF at[p] = "count" THEN 1 ELSE 0)
        /\ In("name")' <= In("name") /\ In("count")' <= In("count")
    BY <2>2
  <2>4. Room'
    <3>1. counter["total"] \in Nat /\ executions \in Nat
      BY DEF TypeOK, Key
    <3>2. counter'["total"] + In("count")' <= executions'
      BY <2>1, <2>2, <2>3, <3>1 DEF Room
    <3>3. ASSUME NEW q \in Process, at'[q] = "count", seen'[q] # None
          PROVE  seen'[q] + In("count")' <= executions'
      <4>1. at[q] = "count" /\ seen[q] # None /\ seen'[q] = seen[q] /\ seen[q] \in Nat
        BY <1>2, <3>3 DEF TypeOK
      <4> QED
        BY <2>1, <2>2, <2>3, <3>1, <4>1 DEF Room
    <3> QED
      BY <3>2, <3>3 DEF Room
  <2>5. Fresh'
    <3>1. \A r \in Process : at'[r] \in Counting \cup {"mark"} =>
            r # p /\ at'[r] = at[r] /\ seen'[r] = seen[r]
      BY <1>2 DEF Counting
    <3>2. \A r \in Process : at'[r] \in Counting => Incremented(at'[r]) = Incremented(at[r])
      BY <3>1
    <3> QED
      BY <1>0, <1>2, <2>1, <3>1, <3>2 DEF Fresh, Counting, Incremented
  <2>6. CountsKept'
    <3>1. /\ counter["total"] \in Nat /\ counter["surgeon"] \in Nat
          /\ counter["flagged"] \in Nat /\ executions \in Nat /\ lost \in Nat
      BY DEF TypeOK, Key
    <3>2. ~crossed => counter["total"] + In("count")' + lost' = executions
      BY <2>1, <2>2, <2>3, <3>1 DEF CountsKept
    <3>3. ~crossed => counter["surgeon"] + In("name")' <= counter["flagged"]
      BY <2>2, <2>3, <3>1 DEF CountsKept
    <3> QED
      BY <1>0, <2>1, <2>4, <3>2, <3>3 DEF CountsKept, Room
  <2> QED
    BY <1>3, <1>4, <2>4, <2>5, <2>6
<1> QED
  BY <1>5, <1>6

\* Every step keeps the invariant.
LEMMA CountInductive == CountInv /\ [Next]_vars => CountInv'
<1> SUFFICES ASSUME CountInv, [Next]_vars PROVE CountInv'
  OBVIOUS
<1>1. CASE UNCHANGED vars
  BY <1>1 DEF vars, CountInv, TypeOK, Places, Room, Fresh, CountsKept, In, Busy
<1>2. ASSUME NEW p \in Process, Step(p) PROVE CountInv'
  BY <1>2, IncrementStep, RecordStep, ConsultStep, FlagStep, PreferenceStep DEF Step
<1> QED
  BY <1>1, <1>2, CrashStep DEF Next

-----------------------------------------------------------------------------

\* Every state of the counters is well typed (core/state.py under the programs
\* that count with it).
LEMMA CountTypes == Spec => []TypeOK
<1>1. CountInv => TypeOK
  BY DEF CountInv
<1> QED
  BY CountInitial, CountInductive, <1>1, PTL DEF Spec

\* On every backend, whatever crosses and whoever dies: no execution is counted
\* that is not on record; and until two increments of one counter cross, each
\* count and its partner agree but for the processes between the two.
LEMMA CountsHold == Spec => []CountsKept
<1>1. CountInv => CountsKept
  BY DEF CountInv
<1> QED
  BY CountInitial, CountInductive, <1>1, PTL DEF Spec

-----------------------------------------------------------------------------
(* The locks *)

\* Only SQLite keeps a key past its time, or acquires in several steps.
OneStep == lock # "sqlite" => ~stale /\ \A p \in Process : ~Lease!Acquiring(p)

\* Until two calls cross, at most one process is inside acquire_lock.
OneInside == ~inside => \A p, q \in Process : Lease!Acquiring(p) /\ Lease!Acquiring(q) => p = q

\* The key is its user's own, and nobody uses the lock that somebody acquires.
Owned ==
  ~lapsed /\ ~inside =>
    /\ \A p \in Process : Lease!Using(p) => key = p /\ ~stale
    /\ \A p, q \in Process : Lease!Acquiring(p) => ~Lease!Using(q)

LockInv == Lease!TypeOK /\ OneStep /\ OneInside /\ Owned

-----------------------------------------------------------------------------

\* Initially nobody is anywhere.
LEMMA LockInitial == Lease!Init => LockInv
  BY DEF Lease!Init, LockInv, Lease!TypeOK, OneStep, OneInside, Owned, Lease!Acquiring,
         Lease!Using, Lease!Place

\* The types are kept by every step of the lock's calls, and by its end.
LEMMA LockTypeStep == Lease!TypeOK /\ [Lease!Next]_Lease!vars => Lease!TypeOK'
<1> SUFFICES ASSUME Lease!TypeOK, [Lease!Next]_Lease!vars PROVE Lease!TypeOK'
  OBVIOUS
<1> USE DEF Lease!TypeOK, Lease!Place, Lease!Go
<1>1. CASE Lease!Lapse
  BY <1>1 DEF Lease!Lapse
<1>2. ASSUME NEW p \in Process, Lease!Step(p) PROVE Lease!TypeOK'
  <2>1. CASE Lease!Call(p) \/ Lease!GiveUp(p) \/ Lease!Flag(p)
    BY <2>1 DEF Lease!Call, Lease!GiveUp, Lease!Flag
  <2>2. CASE Lease!SetNx(p)
    BY <2>2 DEF Lease!SetNx
  <2>3. CASE Lease!Look(p)
    <3>1. inside' \in BOOLEAN
      BY <2>3 DEF Lease!Look
    <3>2. place' \in [Process -> Lease!Place]
      BY <2>3 DEF Lease!Look
    <3> QED
      BY <2>3, <3>1, <3>2 DEF Lease!Look
  <2>4. CASE Lease!Purge(p) \/ Lease!Put(p)
    BY <2>4 DEF Lease!Purge, Lease!Put
  <2>5. CASE Lease!Release(p) \/ Lease!Clear(p)
    BY <2>5 DEF Lease!Release, Lease!Clear
  <2> QED
    BY <1>2, <2>1, <2>2, <2>3, <2>4, <2>5 DEF Lease!Step
<1>3. ASSUME NEW p \in Process, Lease!Crash(p) PROVE Lease!TypeOK'
  BY <1>3 DEF Lease!Crash
<1>4. CASE UNCHANGED Lease!vars
  BY <1>4 DEF Lease!vars
<1> QED
  BY <1>1, <1>2, <1>3, <1>4 DEF Lease!Next

\* Each of the three strengthenings is kept by every step.
LEMMA LockInductive ==
  LockInv /\ [Lease!Next]_Lease!vars => LockInv'
<1> SUFFICES ASSUME LockInv, [Lease!Next]_Lease!vars PROVE LockInv'
  OBVIOUS
<1> None \notin Process
  BY StoresAssumption
<1> Lease!TypeOK'
  BY LockTypeStep DEF LockInv
<1> USE DEF LockInv, Lease!TypeOK, Lease!Go
<1>1. CASE Lease!Lapse
  BY <1>1 DEF Lease!Lapse, OneStep, OneInside, Owned, Lease!Acquiring, Lease!Using
<1>2. ASSUME NEW p \in Process, Lease!Step(p) PROVE LockInv'
  <2>1. CASE Lease!Call(p)
    BY <2>1 DEF Lease!Call, OneStep, OneInside, Owned, Lease!Acquiring, Lease!Using
  <2>2. CASE Lease!SetNx(p)
    <3>1. place' = [place EXCEPT ![p] = place'[p]] /\ place'[p] \in {"flag", "inside"}
      BY <2>2 DEF Lease!SetNx
    <3>2. key' = p /\ key = None /\ lock # "sqlite"
      BY <2>2 DEF Lease!SetNx
    <3> QED
      BY <2>2, <3>1, <3>2 DEF Lease!SetNx, OneStep, OneInside, Owned, Lease!Acquiring, Lease!Using
  <2>3. CASE Lease!GiveUp(p)
    BY <2>3 DEF Lease!GiveUp, OneStep, OneInside, Owned, Lease!Acquiring, Lease!Using
  <2>4. CASE Lease!Flag(p)
    BY <2>4 DEF Lease!Flag, OneStep, OneInside, Owned, Lease!Acquiring, Lease!Using
  <2>5. CASE Lease!Look(p)
    <3>1. CASE key # None /\ ~stale
      BY <2>5, <3>1 DEF Lease!Look, OneStep, OneInside, Owned, Lease!Acquiring, Lease!Using
    <3>2. CASE key = None \/ stale
      <4>1. /\ place' = [place EXCEPT ![p] = place'[p]] /\ place'[p] \in {"put", "purge"}
            /\ lock = "sqlite" /\ lock' = lock
        BY <2>5, <3>2 DEF Lease!Look
      <4>2. ~inside' => ~inside /\ \A q \in Process \ {p} : ~Lease!Acquiring(q)
        BY <2>5 DEF Lease!Look
      <4>3. ~lapsed' /\ ~inside' => \A q \in Process : ~Lease!Using(q)
        BY <2>5, <3>2, <4>2 DEF Lease!Look, Owned
      <4>4. OneInside' /\ OneStep'
        BY <4>1, <4>2 DEF OneStep, OneInside, Lease!Acquiring
      <4>5. Owned'
        BY <4>1, <4>3 DEF Owned, Lease!Acquiring, Lease!Using
      <4> QED
        BY <4>4, <4>5
    <3> QED
      BY <3>1, <3>2
  <2>6. CASE Lease!Purge(p)
    BY <2>6 DEF Lease!Purge, OneStep, OneInside, Owned, Lease!Acquiring, Lease!Using
  <2>7. CASE Lease!Put(p)
    BY <2>7 DEF Lease!Put, OneStep, OneInside, Owned, Lease!Acquiring, Lease!Using
  <2>8. CASE Lease!Release(p)
    <3>1. place' = [place EXCEPT ![p] = place'[p]] /\ place'[p] \in {"clear", "idle"}
      BY <2>8 DEF Lease!Release
    <3> QED
      BY <2>8, <3>1 DEF Lease!Release, OneStep, OneInside, Owned, Lease!Acquiring, Lease!Using
  <2>9. CASE Lease!Clear(p)
    BY <2>9 DEF Lease!Clear, OneStep, OneInside, Owned, Lease!Acquiring, Lease!Using
  <2> QED
    BY <1>2, <2>1, <2>2, <2>3, <2>4, <2>5, <2>6, <2>7, <2>8, <2>9 DEF Lease!Step
<1>3. ASSUME NEW p \in Process, Lease!Crash(p) PROVE LockInv'
  BY <1>3 DEF Lease!Crash, OneStep, OneInside, Owned, Lease!Acquiring, Lease!Using
<1>4. CASE UNCHANGED Lease!vars
  BY <1>4 DEF Lease!vars, OneStep, OneInside, Owned, Lease!Acquiring, Lease!Using
<1> QED
  BY <1>1, <1>2, <1>3, <1>4 DEF Lease!Next

-----------------------------------------------------------------------------

\* Every state of the locks is well typed (core/state.py, acquire_lock and
\* release_lock; core/priority_queue.py, RedisLockBackend).
LEMMA LockTypes == Lease!Spec => []Lease!TypeOK
<1>1. Lease!Init => Lease!TypeOK
  BY DEF Lease!Init, Lease!TypeOK, Lease!Place
<1> QED
  BY <1>1, LockTypeStep, PTL DEF Lease!Spec

\* However many processes call, die and release, the lock excludes and its key
\* is its user's own until a key ends under its user or two calls of SQLite's
\* acquire_lock cross.
LEMMA LockExclusion ==
  Lease!Spec => []Lease!LocksExclude
<1>1. LockInv => Lease!LocksExclude
  BY DEF LockInv, Owned, Lease!LocksExclude
<1> QED
  BY LockInitial, LockInductive, <1>1, PTL DEF Lease!Spec

-----------------------------------------------------------------------------
(* The grade ladder *)

\* Outcomes recorded before are outcomes, and None is none of the values used.
LEMMA LadderAssumptions ==
  /\ Earlier \subseteq Ladder!Outcomes
  /\ None \notin Ladder!Grade
  /\ None \notin [grade : Ladder!Grade, tally : Ladder!Outcomes]
  BY StoresAssumption

\* What a process has decided to store is earned, and above what it has read.
Sound ==
  \A p \in Process : earned[p] # None =>
    /\ Ladder!Busy(p)
    /\ earned[p].grade = Ladder!Earned(earned[p].tally)
    /\ Ladder!Rank(old[p]) < Ladder!Rank(earned[p].grade)

\* Until two upgrades cross, one process is at it, and has read the grade.
FreshGrade ==
  ~overtaken => \A p \in Process : Ladder!Busy(p) =>
    /\ old[p] = grade
    /\ \A q \in Process : Ladder!Busy(q) => p = q

GradeInv == Ladder!TypeOK /\ Sound /\ FreshGrade /\ Ladder!HistoryExplains

-----------------------------------------------------------------------------

\* What outcomes earn is a grade, and never "expert_opinion".
LEMMA EarnedType ==
  ASSUME NEW t
  PROVE  Ladder!Earned(t) \in {"validated", "cohort", "case_series", "anecdotal"}
<1> DEFINE v == Ladder!Reaches(t, 20, 80)
           c == Ladder!Reaches(t, 10, 70)
           s == Ladder!Reaches(t, 5, 60) \/ Ladder!Reaches(t, 3, 50)
<1>1. CASE v
  BY <1>1 DEF Ladder!Earned
<1>2. CASE ~v /\ c
  BY <1>2 DEF Ladder!Earned
<1>3. CASE ~v /\ ~c /\ s
  BY <1>3 DEF Ladder!Earned
<1>4. CASE ~v /\ ~c /\ ~s
  BY <1>4 DEF Ladder!Earned
<1> QED
  BY <1>1, <1>2, <1>3, <1>4

\* The thresholds that a grade above "anecdotal" stands for.
LEMMA EarnedMeans ==
  ASSUME NEW t \in Ladder!Outcomes
  PROVE  /\ Ladder!Earned(t) = "validated" => t.n >= 20 /\ 5 * t.good >= 4 * t.n
         /\ Ladder!Earned(t) = "cohort" => t.n >= 10 /\ 10 * t.good >= 7 * t.n
         /\ Ladder!Earned(t) = "case_series" => t.n >= 3 /\ 2 * t.good >= t.n
<1> DEFINE v == Ladder!Reaches(t, 20, 80)
           c == Ladder!Reaches(t, 10, 70)
           s == Ladder!Reaches(t, 5, 60) \/ Ladder!Reaches(t, 3, 50)
<1>0. t.n \in Nat /\ t.good \in Nat
  BY DEF Ladder!Outcomes
<1>1. CASE v
  <2>1. c
    BY <1>0, <1>1 DEF Ladder!Reaches
  <2>2. Ladder!Earned(t) = "validated"
    BY <1>1, <2>1 DEF Ladder!Earned
  <2> QED
    BY <1>0, <1>1, <2>2 DEF Ladder!Reaches
<1>2. CASE ~v /\ c
  <2>1. Ladder!Earned(t) = "cohort"
    BY <1>2 DEF Ladder!Earned
  <2> QED
    BY <1>0, <1>2, <2>1 DEF Ladder!Reaches
<1>3. CASE ~v /\ ~c /\ s
  <2>1. Ladder!Earned(t) = "case_series"
    BY <1>3 DEF Ladder!Earned
  <2> QED
    BY <1>0, <1>3, <2>1 DEF Ladder!Reaches
<1>4. CASE ~v /\ ~c /\ ~s
  <2>1. Ladder!Earned(t) = "anecdotal"
    BY <1>4 DEF Ladder!Earned
  <2> QED
    BY <2>1
<1> QED
  BY <1>1, <1>2, <1>3, <1>4

\* Ranks are numbers.
LEMMA GradeRank == ASSUME NEW g \in Ladder!Grade PROVE Ladder!Rank(g) \in 0..4
<1>1. CASE g = "anecdotal"
  BY <1>1 DEF Ladder!Rank
<1>2. CASE g = "expert_opinion"
  BY <1>2 DEF Ladder!Rank
<1>3. CASE g = "case_series"
  BY <1>3 DEF Ladder!Rank
<1>4. CASE g = "cohort"
  BY <1>4 DEF Ladder!Rank
<1>5. CASE g = "validated"
  BY <1>5 DEF Ladder!Rank
<1> QED
  BY <1>1, <1>2, <1>3, <1>4, <1>5 DEF Ladder!Grade

-----------------------------------------------------------------------------

\* At first there is no history and nobody upgrades.
LEMMA GradeInitial == Ladder!Init => GradeInv
<1> SUFFICES ASSUME Ladder!Init PROVE GradeInv
  OBVIOUS
<1> USE LadderAssumptions DEF Ladder!Init
<1>1. Ladder!TypeOK
  <2>1. history \in Seq(Ladder!Row)
    OBVIOUS
  <2>2. tally \in Ladder!Outcomes
    OBVIOUS
  <2>3. old \in [Process -> Ladder!Grade \cup {None}]
    OBVIOUS
  <2>4. earned \in [Process -> [grade : Ladder!Grade, tally : Ladder!Outcomes] \cup {None}]
    OBVIOUS
  <2> QED
    BY <2>1, <2>2, <2>3, <2>4 DEF Ladder!TypeOK
<1>2. Sound /\ FreshGrade
  BY DEF Sound, FreshGrade, Ladder!Busy
<1>3. Ladder!HistoryExplains
  BY DEF Ladder!HistoryExplains
<1> QED
  BY <1>1, <1>2, <1>3 DEF GradeInv

\* An outcome changes nothing but the tally.
LEMMA RecordOutcomeStep == GradeInv /\ Ladder!RecordOutcome => GradeInv'
<1> SUFFICES ASSUME GradeInv, Ladder!RecordOutcome PROVE GradeInv'
  OBVIOUS
<1> USE DEF Ladder!RecordOutcome
<1>1. PICK ok \in {0, 1} : tally' = [n |-> tally.n + 1, good |-> tally.good + ok]
  OBVIOUS
<1>2. tally' \in Ladder!Outcomes
  BY <1>1 DEF GradeInv, Ladder!TypeOK, Ladder!Outcomes
<1>3. Ladder!TypeOK'
  BY <1>2 DEF GradeInv, Ladder!TypeOK
<1>4. Sound' /\ FreshGrade'
  BY DEF GradeInv, Sound, FreshGrade, Ladder!Busy
<1>5. Ladder!HistoryExplains'
  BY DEF GradeInv, Ladder!HistoryExplains
<1> QED
  BY <1>3, <1>4, <1>5 DEF GradeInv

\* A process begins an upgrade: unless it crosses another, alone.
LEMMA ReadGradeStep ==
  ASSUME NEW p \in Process
  PROVE  GradeInv /\ Ladder!ReadGrade(p) => GradeInv'
<1> SUFFICES ASSUME GradeInv, Ladder!ReadGrade(p) PROVE GradeInv'
  OBVIOUS
<1> USE LadderAssumptions DEF GradeInv, Ladder!ReadGrade
<1>1. Ladder!TypeOK'
  <2>1. overtaken' \in BOOLEAN
    OBVIOUS
  <2>2. old' \in [Process -> Ladder!Grade \cup {None}]
    BY DEF Ladder!TypeOK
  <2> QED
    BY <2>1, <2>2 DEF Ladder!TypeOK
<1>2. Sound'
  BY DEF Sound, Ladder!Busy, Ladder!TypeOK
<1>3. FreshGrade'
  BY DEF FreshGrade, Ladder!Busy, Ladder!TypeOK
<1>4. Ladder!HistoryExplains'
  <2>1. ~overtaken' => ~overtaken
    OBVIOUS
  <2> QED
    BY <2>1 DEF Ladder!HistoryExplains
<1> QED
  BY <1>1, <1>2, <1>3, <1>4

\* A process that leaves an upgrade, having stored nothing.
LEMMA LeaveStep ==
  ASSUME NEW p \in Process
  PROVE  /\ GradeInv /\ Ladder!Leave(p)
         /\ UNCHANGED <<first, grade, history, tally, overtaken>>
         => GradeInv'
<1> SUFFICES ASSUME GradeInv, Ladder!Leave(p), UNCHANGED <<first, grade, history, tally, overtaken>>
             PROVE  GradeInv'
  OBVIOUS
<1> USE DEF GradeInv, Ladder!Leave
<1>1. Ladder!TypeOK'
  BY DEF Ladder!TypeOK
<1>2. Sound'
  BY DEF Sound, Ladder!Busy, Ladder!TypeOK
<1>3. FreshGrade'
  BY DEF FreshGrade, Ladder!Busy, Ladder!TypeOK
<1>4. Ladder!HistoryExplains'
  BY DEF Ladder!HistoryExplains
<1> QED
  BY <1>1, <1>2, <1>3, <1>4

\* A decision is sound when it is made.
LEMMA DecideStep ==
  ASSUME NEW p \in Process
  PROVE  GradeInv /\ Ladder!Decide(p) => GradeInv'
<1> SUFFICES ASSUME GradeInv, Ladder!Decide(p) PROVE GradeInv'
  OBVIOUS
<1> DEFINE new == [grade |-> Ladder!Earned(tally), tally |-> tally]
<1>1. CASE ~(Ladder!Rank(Ladder!Earned(tally)) > Ladder!Rank(old[p]))
  BY <1>1, LeaveStep DEF Ladder!Decide
<1>2. CASE Ladder!Rank(Ladder!Earned(tally)) > Ladder!Rank(old[p])
  <2>0. /\ Ladder!Busy(p) /\ old' = old /\ earned' = [earned EXCEPT ![p] = new]
        /\ UNCHANGED <<first, grade, history, tally, overtaken>>
    BY <1>2 DEF Ladder!Decide
  <2>1. new \in [grade : Ladder!Grade, tally : Ladder!Outcomes]
    BY EarnedType DEF Ladder!Grade, GradeInv, Ladder!TypeOK
  <2>2. Ladder!TypeOK'
    BY <2>0, <2>1 DEF GradeInv, Ladder!TypeOK
  <2>3. Ladder!Rank(old[p]) < Ladder!Rank(Ladder!Earned(tally))
    <3>1. Ladder!Rank(Ladder!Earned(tally)) \in Nat
      BY EarnedType, GradeRank DEF Ladder!Grade
    <3>2. Ladder!Rank(old[p]) \in Nat
      BY <2>0, GradeRank DEF GradeInv, Ladder!TypeOK, Ladder!Busy
    <3> QED
      BY <1>2, <3>1, <3>2
  <2>4. Sound'
    <3> SUFFICES ASSUME NEW q \in Process, earned'[q] # None
                 PROVE  /\ Ladder!Busy(q)'
                        /\ earned'[q].grade = Ladder!Earned(earned'[q].tally)
                        /\ Ladder!Rank(old'[q]) < Ladder!Rank(earned'[q].grade)
      BY DEF Sound
    <3>1. CASE q = p
      <4>1. earned'[q] = new
        BY <2>0, <3>1 DEF GradeInv, Ladder!TypeOK
      <4> QED
        BY <2>0, <2>3, <3>1, <4>1 DEF Ladder!Busy
    <3>2. CASE q # p
      <4>1. earned'[q] = earned[q]
        BY <2>0, <3>2 DEF GradeInv, Ladder!TypeOK
      <4> QED
        BY <2>0, <4>1 DEF GradeInv, Sound, Ladder!Busy
    <3> QED
      BY <3>1, <3>2
  <2>5. FreshGrade'
    BY <2>0 DEF GradeInv, FreshGrade, Ladder!Busy
  <2>6. Ladder!HistoryExplains'
    BY <2>0 DEF GradeInv, Ladder!HistoryExplains
  <2> QED
    BY <2>2, <2>4, <2>5, <2>6 DEF GradeInv
<1> QED
  BY <1>1, <1>2

\* What is stored goes up from what was read, and is what its outcomes earn.
LEMMA UpgradeStep ==
  ASSUME NEW p \in Process
  PROVE  GradeInv /\ Ladder!Upgrade(p) => GradeInv'
<1> SUFFICES ASSUME GradeInv, Ladder!Upgrade(p) PROVE GradeInv'
  OBVIOUS
<1> DEFINE e   == earned[p]
           row == [from |-> old[p], to |-> e.grade, n |-> e.tally.n, good |-> e.tally.good]
<1>1. /\ e # None /\ Ladder!Busy(p) /\ old[p] \in Ladder!Grade
      /\ e \in [grade : Ladder!Grade, tally : Ladder!Outcomes]
      /\ e.grade = Ladder!Earned(e.tally) /\ Ladder!Rank(old[p]) < Ladder!Rank(e.grade)
  BY DEF Ladder!Upgrade, GradeInv, Sound, Ladder!TypeOK, Ladder!Busy
<1>2. row \in Ladder!Row
  BY <1>1 DEF Ladder!Row, Ladder!Outcomes
<1>3. /\ grade' = e.grade /\ history' = Append(history, row)
      /\ old' = [old EXCEPT ![p] = None] /\ earned' = [earned EXCEPT ![p] = None]
      /\ UNCHANGED <<first, tally, overtaken>>
  BY DEF Ladder!Upgrade, Ladder!Leave
<1>4. Ladder!TypeOK'
  BY <1>1, <1>2, <1>3 DEF GradeInv, Ladder!TypeOK
<1>5. Sound'
  BY <1>3 DEF GradeInv, Sound, Ladder!Busy, Ladder!TypeOK
<1>6. FreshGrade'
  BY <1>1, <1>3 DEF GradeInv, FreshGrade, Ladder!Busy, Ladder!TypeOK
<1>7. Ladder!HistoryExplains'
  <2>1. /\ Len(history') = Len(history) + 1 /\ Len(history) \in Nat
        /\ history'[Len(history')] = row /\ history' # <<>>
        /\ \A i \in 1..Len(history) : history'[i] = history[i]
    BY <1>2, <1>3 DEF GradeInv, Ladder!TypeOK
  <2>2. grade' = IF history' = <<>> THEN first' ELSE history'[Len(history')].to
    BY <1>3, <2>1
  <2>3. ASSUME NEW i \in 1..Len(history)
        PROVE  /\ Ladder!Rank(history'[i].from) < Ladder!Rank(history'[i].to)
               /\ LET t == [n |-> history'[i].n, good |-> history'[i].good]
                  IN  /\ history'[i].to = "validated" => t.n >= 20 /\ 5 * t.good >= 4 * t.n
                      /\ history'[i].to = "cohort" => t.n >= 10 /\ 10 * t.good >= 7 * t.n
                      /\ history'[i].to = "case_series" => t.n >= 3 /\ 2 * t.good >= t.n
               /\ ~overtaken' =>
                    history'[i].from = IF i = 1 THEN first' ELSE history'[i - 1].to
    BY <1>3, <2>1 DEF GradeInv, Ladder!HistoryExplains
  <2>4. ASSUME NEW i \in {Len(history')}
        PROVE  /\ Ladder!Rank(history'[i].from) < Ladder!Rank(history'[i].to)
               /\ LET t == [n |-> history'[i].n, good |-> history'[i].good]
                  IN  /\ history'[i].to = "validated" => t.n >= 20 /\ 5 * t.good >= 4 * t.n
                      /\ history'[i].to = "cohort" => t.n >= 10 /\ 10 * t.good >= 7 * t.n
                      /\ history'[i].to = "case_series" => t.n >= 3 /\ 2 * t.good >= t.n
               /\ ~overtaken' =>
                    history'[i].from = IF i = 1 THEN first' ELSE history'[i - 1].to
    <3>1. history'[i] = row
      BY <2>1
    <3>2. /\ row.to = "validated" => row.n >= 20 /\ 5 * row.good >= 4 * row.n
          /\ row.to = "cohort" => row.n >= 10 /\ 10 * row.good >= 7 * row.n
          /\ row.to = "case_series" => row.n >= 3 /\ 2 * row.good >= row.n
      <4>1. e.tally \in Ladder!Outcomes
        BY <1>1
      <4> QED
        BY <1>1, <4>1, EarnedMeans
    <3>3. ~overtaken' => old[p] = grade
      BY <1>1, <1>3 DEF GradeInv, FreshGrade
    <3>4. ~overtaken' => row.from = IF i = 1 THEN first' ELSE history'[i - 1].to
      <4>1. CASE i = 1
        <5>1. history = <<>>
          BY <2>1, <4>1 DEF GradeInv, Ladder!TypeOK
        <5> QED
          BY <1>3, <3>3, <4>1, <5>1 DEF GradeInv, Ladder!HistoryExplains
      <4>2. CASE i # 1
        <5>1. history # <<>> /\ i - 1 = Len(history) /\ i - 1 \in 1..Len(history)
          BY <2>1, <4>2 DEF GradeInv, Ladder!TypeOK
        <5> QED
          BY <1>3, <2>1, <3>3, <4>2, <5>1 DEF GradeInv, Ladder!HistoryExplains
      <4> QED
        BY <4>1, <4>2
    <3> QED
      BY <1>1, <3>1, <3>2, <3>4
  <2>5. 1..Len(history') = (1..Len(history)) \cup {Len(history')}
    BY <2>1
  <2> QED
    BY <2>2, <2>3, <2>4, <2>5 DEF Ladder!HistoryExplains
<1> QED
  BY <1>4, <1>5, <1>6, <1>7 DEF GradeInv

\* Every step keeps the strengthened invariant.
LEMMA GradeInductive == GradeInv /\ [Ladder!Next]_Ladder!vars => GradeInv'
<1> SUFFICES ASSUME GradeInv, [Ladder!Next]_Ladder!vars PROVE GradeInv'
  OBVIOUS
<1>1. CASE UNCHANGED Ladder!vars
  BY <1>1 DEF Ladder!vars, GradeInv, Ladder!TypeOK, Sound, FreshGrade,
              Ladder!HistoryExplains, Ladder!Busy
<1>2. ASSUME NEW p \in Process, Ladder!Crash(p) PROVE GradeInv'
  BY <1>2, LeaveStep DEF Ladder!Crash
<1> QED
  BY <1>1, <1>2, RecordOutcomeStep, ReadGradeStep, DecideStep, UpgradeStep DEF Ladder!Next

-----------------------------------------------------------------------------

\* Every state of the ladder is well typed (core/evidence.py, record_outcome and
\* auto_upgrade_grade).
LEMMA GradeTypes == Ladder!Spec => []Ladder!TypeOK
<1>1. GradeInv => Ladder!TypeOK
  BY DEF GradeInv
<1> QED
  BY GradeInitial, GradeInductive, <1>1, PTL DEF Ladder!Spec

\* The history always explains the grade: its rows go up, are earned by the
\* outcomes they name, lead to the grade, and unless upgrades cross start from
\* where the one before them ended.
LEMMA GradeHistory == Ladder!Spec => []Ladder!HistoryExplains
<1>1. GradeInv => Ladder!HistoryExplains
  BY DEF GradeInv
<1> QED
  BY GradeInitial, GradeInductive, <1>1, PTL DEF Ladder!Spec

-----------------------------------------------------------------------------
(* The migration *)

\* The write-ahead log and the main file: a log is the other process's, a main
\* file that is being replaced is torn, and so is the log of one that was.
Logged ==
  /\ wal = Torn => other /\ shared
  /\ ~other => wal = <<>>
  /\ main = Torn /\ other => wal = Torn
  /\ cmd = "restoring" => main = Torn

\* Until the backup is made, the database holds what the migration has read.
StillThere ==
  cmd \in {"open", "fill", "backup", "copying"} =>
    /\ cmd # "open" => kept = items
    /\ items = <<>> \/ (main # Torn /\ wal # Torn /\ Database!Begins(items, main \o wal))

\* The backup of an unbroken migration is what it kept.
BackedUp ==
  /\ cmd \in {"fill", "backup", "copying"} => broken
  /\ cmd = "copying" /\ ~shared => ~other
  /\ ~broken /\ ~shared /\ bak # None => bak # Torn /\ Database!Begins(kept, bak)
  /\ cmd \in {"restore", "restoring"} => bak # None

\* A command that has reported is over.
Reported == report # "none" => cmd = "idle"

DbInv ==
  /\ Database!TypeOK /\ Logged /\ StillThere /\ BackedUp /\ Reported
  /\ Database!MigrationSound

\* A beginning of a sequence is one of every longer sequence, and of itself.
LEMMA BeginsLonger ==
  ASSUME NEW S, NEW s \in Seq(S), NEW t \in Seq(S), NEW u \in Seq(S)
  PROVE  /\ Database!Begins(<<>>, t)
         /\ Database!Begins(s, s \o t)
         /\ Database!Begins(s, t) => Database!Begins(s, t \o u)
         /\ s \o <<>> = s
         /\ (s \o t) \o u = s \o (t \o u)
<1>1. s \o <<>> = s /\ (s \o t) \o u = s \o (t \o u)
  BY ConcatEmptySeq, ConcatAssociative
<1>2. ASSUME NEW a \in Seq(S), NEW b \in Seq(S)
      PROVE  /\ Database!Begins(a, b) <=> /\ Len(a) <= Len(b)
                                          /\ \A i \in 1..Len(a) : a[i] = b[i]
  <2>1. CASE Len(a) <= Len(b)
    <3>1. /\ SubSeq(b, 1, Len(a)) \in Seq(S) /\ Len(SubSeq(b, 1, Len(a))) = Len(a)
          /\ \A i \in 1..Len(a) : SubSeq(b, 1, Len(a))[i] = b[i]
      BY <2>1, LenProperties
    <3>2. a = SubSeq(b, 1, Len(a)) <=> \A i \in 1..Len(a) : a[i] = b[i]
      BY <3>1, SeqEqual
    <3>3. QED
      BY <2>1, <3>2 DEF Database!Begins
  <2>2. CASE ~(Len(a) <= Len(b))
    BY <2>2 DEF Database!Begins
  <2>3. QED
    BY <2>1, <2>2
<1>3. /\ <<>> \in Seq(S) /\ Len(<<>>) = 0 /\ s \o t \in Seq(S) /\ t \o u \in Seq(S)
      /\ Len(s) \in Nat /\ Len(t) \in Nat /\ Len(u) \in Nat
  OBVIOUS
<1>4. Database!Begins(<<>>, t)
  <2>1. Database!Begins(<<>>, t) <=>
          Len(<<>>) <= Len(t) /\ \A i \in 1..Len(<<>>) : <<>>[i] = t[i]
    BY <1>2, <1>3
  <2>2. QED
    BY <1>3, <2>1
<1>5. Database!Begins(s, s \o t)
  <2>1. Database!Begins(s, s \o t) <=>
          Len(s) <= Len(s \o t) /\ \A i \in 1..Len(s) : s[i] = (s \o t)[i]
    BY <1>2, <1>3
  <2>2. Len(s \o t) = Len(s) + Len(t) /\ \A i \in 1..Len(s) : (s \o t)[i] = s[i]
    BY <1>3
  <2>3. QED
    BY <1>3, <2>1, <2>2
<1>6. ASSUME Database!Begins(s, t)
      PROVE  Database!Begins(s, t \o u)
  <2>1. Len(s) <= Len(t) /\ \A i \in 1..Len(s) : s[i] = t[i]
    BY <1>2, <1>6
  <2>2. Database!Begins(s, t \o u) <=>
          Len(s) <= Len(t \o u) /\ \A i \in 1..Len(s) : s[i] = (t \o u)[i]
    BY <1>2, <1>3
  <2>3. Len(t \o u) = Len(t) + Len(u) /\ \A i \in 1..Len(t) : (t \o u)[i] = t[i]
    BY <1>3
  <2>4. QED
    BY <1>3, <2>1, <2>2, <2>3
<1>7. QED
  BY <1>1, <1>4, <1>5, <1>6

\* What the invariant's parts speak of, without the destination.
LEMMA DbParts ==
  ASSUME DbInv
  PROVE  /\ main \in Database!Learnings \cup {Torn} /\ wal \in Database!Learnings \cup {Torn}
         /\ bak \in Database!Learnings \cup {Torn, None} /\ kept \in Database!Learnings
         /\ items \in Database!Learnings /\ minted \in 0..MaxLearnings
         /\ <<>> \in Database!Learnings
         /\ \A s, t \in Database!Learnings : s \o t \in Database!Learnings
  BY DEF DbInv, Database!TypeOK, Database!Learnings

\* At first the database is empty.
LEMMA DbInitial == Database!Init => DbInv
<1> SUFFICES ASSUME Database!Init PROVE DbInv
  OBVIOUS
<1> USE DEF Database!Init
<1>1. PICK target \in {"none", "redis", "http"} : dest = [kind |-> target, items |-> <<>>]
  OBVIOUS
<1>2. <<>> \in Database!Learnings
  BY DEF Database!Learnings
<1>3. Torn # <<>> /\ 0 \in 0..MaxLearnings /\ 0 \in 0..MaxCommands
  BY <1>2, StoresAssumption
<1>4. Database!TypeOK
  BY <1>1, <1>2, <1>3 DEF Database!TypeOK
<1>5. Logged /\ StillThere /\ BackedUp /\ Reported /\ Database!MigrationSound
  BY <1>3 DEF Logged, StillThere, BackedUp, Reported, Database!MigrationSound
<1>6. QED
  BY <1>4, <1>5 DEF DbInv

\* The other process records learnings, and closes the database.
LEMMA LearnStep == DbInv /\ Database!Learn => DbInv'
<1> SUFFICES ASSUME DbInv, Database!Learn PROVE DbInv'
  OBVIOUS
<1> USE DEF DbInv, Database!Learn
<1>1. wal = <<>> /\ main # Torn /\ minted + 1 \in 1..MaxLearnings
  BY StoresAssumption DEF Logged, Database!TypeOK
<1>2. /\ wal' = <<minted + 1>> /\ wal' \in Database!Learnings /\ main \in Database!Learnings
      /\ main \o wal = main /\ wal' # Torn
  <2>1. main \in Database!Learnings
    BY <1>1, DbParts
  <2>2. main \o <<>> = main
    BY <2>1, BeginsLonger DEF Database!Learnings
  <2>3. wal' = <<minted + 1>> /\ <<minted + 1>> \in Seq(1..MaxLearnings)
    BY <1>1
  <2>4. QED
    BY <1>1, <2>1, <2>2, <2>3, StoresAssumption DEF Database!Learnings
<1>3. Database!TypeOK'
  BY <1>1, <1>2, StoresAssumption DEF Database!TypeOK
<1>4. Logged'
  BY <1>1, <1>2 DEF Logged, Database!Copying
<1>5. StillThere'
  <2>1. Database!Begins(items, main) => Database!Begins(items, main \o wal')
    BY <1>2, BeginsLonger, DbParts DEF Database!Learnings
  <2>2. QED
    BY <1>1, <1>2, <2>1 DEF StillThere
<1>6. BackedUp' /\ Reported' /\ Database!MigrationSound'
  BY DEF BackedUp, Reported, Database!MigrationSound, Database!Copying
<1>7. QED
  BY <1>3, <1>4, <1>5, <1>6

\* It closes the database: the log goes into the main file.
LEMMA CloseStep == DbInv /\ Database!Close => DbInv'
<1> SUFFICES ASSUME DbInv, Database!Close PROVE DbInv'
  OBVIOUS
<1> USE DEF DbInv
<1>1. /\ <<>> \in Database!Learnings /\ Torn # <<>>
      /\ other = TRUE /\ other' = FALSE /\ wal' = <<>>
      /\ UNCHANGED <<snap, bak, dest, cmd, items, report, kept, minted, runs, shared, broken>>
  BY DbParts, StoresAssumption DEF Database!Close, Database!TypeOK
<1>2. main' \in Database!Learnings \cup {Torn} => Database!TypeOK'
  BY <1>1 DEF Database!TypeOK
<1>3. CASE wal = Torn
  <2>1. /\ main' = main \/ main' = Torn
        /\ shared /\ main' \in Database!Learnings \cup {Torn}
    BY <1>3, DbParts DEF Logged, Database!Close
  <2>2. Database!TypeOK'
    BY <1>2, <2>1
  <2>3. Logged' /\ BackedUp' /\ Reported' /\ Database!MigrationSound'
    BY <1>1, <2>1 DEF Logged, BackedUp, Reported, Database!MigrationSound
  <2>4. StillThere'
    BY <1>1, <1>3, <2>1 DEF StillThere
  <2>5. QED
    BY <2>2, <2>3, <2>4
<1>4. CASE wal # Torn
  <2>1. /\ main # Torn /\ main' = main \o wal /\ wal' = <<>>
        /\ main \in Database!Learnings /\ wal \in Database!Learnings
    BY <1>4, DbParts DEF Logged, Database!Close
  <2>2. main' \in Database!Learnings /\ main' # Torn /\ main' \o wal' = main'
    <3>1. main \o wal \in Database!Learnings
      BY <2>1, DbParts
    <3>2. (main \o wal) \o <<>> = main \o wal
      BY <3>1, BeginsLonger DEF Database!Learnings
    <3>3. QED
      BY <2>1, <3>1, <3>2, StoresAssumption
  <2>3. Database!TypeOK'
    BY <1>2, <2>2
  <2>4. Logged' /\ BackedUp' /\ Reported'
    BY <1>1, <2>1, <2>2 DEF Logged, BackedUp, Reported
  <2>5. Database!Begins(kept, main) => Database!Begins(kept, main')
    BY <2>1, BeginsLonger, DbParts DEF Database!Learnings
  <2>6. Database!MigrationSound'
    BY <1>1, <2>1, <2>2, <2>5 DEF Database!MigrationSound
  <2>7. StillThere'
    BY <1>1, <1>4, <2>1, <2>2 DEF StillThere
  <2>8. QED
    BY <2>3, <2>4, <2>6, <2>7
<1>5. QED
  BY <1>3, <1>4

\* A command begins, and a migration reads.
LEMMA ReadDbStep ==
  DbInv /\ (Database!Start("read") \/ Database!Start("newest") \/ Database!Read) => DbInv'
<1>1. ASSUME DbInv, NEW begin \in {"read", "newest"}, Database!Start(begin) PROVE DbInv'
  <2> USE DEF DbInv, Database!Start
  <2>1. Database!TypeOK'
    BY <1>1, StoresAssumption DEF Database!TypeOK
  <2>2. Logged' /\ StillThere' /\ BackedUp' /\ Reported' /\ Database!MigrationSound'
    BY <1>1 DEF Logged, StillThere, BackedUp, Reported, Database!MigrationSound
  <2>3. QED
    BY <2>1, <2>2
<1>2. ASSUME DbInv, Database!Read PROVE DbInv'
  <2> USE DEF DbInv, Database!Read
  <2>1. report = "none"
    BY <1>2 DEF Reported
  <2>2. \/ Torn \notin {main, wal} /\ items' = main \o wal /\ cmd' = "open" /\ report' = report
        \/ items' = <<>> /\ cmd' = "open" /\ report' = report
        \/ items' = items /\ cmd' = "idle" /\ report' = "error"
    BY <1>2
  <2>3. items' \in Database!Learnings
    BY <1>2, <2>2, DbParts
  <2>4. Database!TypeOK'
    BY <1>2, <2>1, <2>2, <2>3 DEF Database!TypeOK
  <2>5. Logged' /\ BackedUp' /\ Reported' /\ Database!MigrationSound'
    BY <1>2, <2>1, <2>2 DEF Logged, BackedUp, Reported, Database!MigrationSound
  <2>6. StillThere'
    <3>1. CASE Torn \notin {main, wal} /\ items' = main \o wal /\ cmd' = "open"
      <4>1. main \in Database!Learnings /\ wal \in Database!Learnings
            /\ main \o wal \in Database!Learnings
        BY <1>2, <3>1, DbParts
      <4>2. (main \o wal) \o <<>> = main \o wal
            /\ Database!Begins(main \o wal, (main \o wal) \o <<>>)
        BY <4>1, BeginsLonger, DbParts, <1>2 DEF Database!Learnings
      <4>3. QED
        BY <1>2, <3>1, <4>2 DEF StillThere
    <3>2. CASE items' = <<>> /\ cmd' = "open"
      BY <1>2, <3>2 DEF StillThere
    <3>3. CASE cmd' = "idle"
      BY <3>3 DEF StillThere
    <3>4. QED
      BY <2>2, <3>1, <3>2, <3>3
  <2>7. QED
    BY <2>4, <2>5, <2>6
<1>3. QED
  BY <1>1, <1>2

\* The snapshot is opened and filled, and the backup opened.
LEMMA SnapshotStep ==
  DbInv /\ (Database!OpenSnapshot \/ Database!FillSnapshot \/ Database!OpenBackup) => DbInv'
<1> SUFFICES ASSUME DbInv,
                    Database!OpenSnapshot \/ Database!FillSnapshot \/ Database!OpenBackup
             PROVE  DbInv'
  OBVIOUS
<1> USE DEF DbInv
<1>1. report = "none"
  BY DEF Reported, Database!OpenSnapshot, Database!FillSnapshot, Database!OpenBackup
<1>2. CASE Database!OpenSnapshot
  <2> USE DEF Database!OpenSnapshot
  <2>1. Database!TypeOK'
    BY <1>2 DEF Database!TypeOK
  <2>2. Logged' /\ StillThere' /\ BackedUp' /\ Reported' /\ Database!MigrationSound'
    BY <1>1, <1>2 DEF Logged, StillThere, BackedUp, Reported, Database!MigrationSound
  <2>3. QED
    BY <2>1, <2>2
<1>3. CASE Database!FillSnapshot
  <2> USE DEF Database!FillSnapshot
  <2>1. Database!TypeOK'
    BY <1>3 DEF Database!TypeOK
  <2>2. Logged' /\ StillThere' /\ BackedUp' /\ Reported' /\ Database!MigrationSound'
    BY <1>1, <1>3 DEF Logged, StillThere, BackedUp, Reported, Database!MigrationSound
  <2>3. QED
    BY <2>1, <2>2
<1>4. CASE Database!OpenBackup
  <2> USE DEF Database!OpenBackup
  <2>1. Database!TypeOK'
    BY <1>4 DEF Database!TypeOK
  <2>2. Logged' /\ StillThere' /\ BackedUp' /\ Reported' /\ Database!MigrationSound'
    BY <1>1, <1>4 DEF Logged, StillThere, BackedUp, Reported, Database!MigrationSound
  <2>3. QED
    BY <2>1, <2>2
<1>5. QED
  BY <1>2, <1>3, <1>4

\* The backup is filled: unless the database was open meanwhile, it holds what
\* the migration has read.
LEMMA BackupStep == DbInv /\ Database!FillBackup => DbInv'
<1> SUFFICES ASSUME DbInv, Database!FillBackup PROVE DbInv'
  OBVIOUS
<1> USE DEF DbInv
<1>1. /\ cmd = "copying" /\ cmd' = "send" /\ bak' = main /\ (broken' <=> main = Torn)
      /\ broken' \in BOOLEAN
      /\ UNCHANGED <<main, wal, other, snap, dest, items, report, kept, minted, runs, shared>>
  BY DEF Database!FillBackup
<1>2. report = "none"
  BY <1>1 DEF Reported
<1>3. Database!TypeOK'
  BY <1>1 DEF Database!TypeOK
<1>4. ~shared /\ main # Torn => Database!Begins(kept, main)
  <2> SUFFICES ASSUME ~shared, main # Torn PROVE Database!Begins(kept, main)
    OBVIOUS
  <2>1. wal = <<>> /\ kept = items /\ main \in Database!Learnings
    BY <1>1, DbParts DEF BackedUp, Logged, StillThere
  <2>2. main \o <<>> = main /\ Database!Begins(<<>>, main)
    BY <2>1, BeginsLonger, DbParts DEF Database!Learnings
  <2>3. QED
    BY <1>1, <2>1, <2>2 DEF StillThere
<1>5. Logged' /\ StillThere' /\ BackedUp' /\ Reported' /\ Database!MigrationSound'
  BY <1>1, <1>2, <1>4
     DEF Logged, StillThere, BackedUp, Reported, Database!MigrationSound
<1>6. QED
  BY <1>3, <1>5

\* What is put at the destination.
LEMMA PutBegins ==
  ASSUME DbInv, NEW n \in 0..Len(items)
  PROVE  /\ Database!Put(n) \in Database!Learnings
         /\ Database!Begins(items, Database!Put(Len(items)))
<1>1. /\ items \in Seq(1..MaxLearnings) /\ dest.items \in Seq(1..MaxLearnings)
      /\ Len(items) \in Nat /\ Len(dest.items) \in Nat
  BY DEF DbInv, Database!TypeOK, Database!Learnings
<1>2. ASSUME NEW m \in 0..Len(items)
      PROVE  /\ SubSeq(items, 1, m) \in Seq(1..MaxLearnings)
             /\ SubSeq(dest.items, m + 1, Len(dest.items)) \in Seq(1..MaxLearnings)
  <2>1. ASSUME NEW i \in 1..m PROVE items[i] \in 1..MaxLearnings
    <3>1. i \in 1..Len(items)
      BY <1>1
    <3>2. QED
      BY <1>1, <3>1, ElementOfSeq
  <2>2. ASSUME NEW i \in (m + 1)..Len(dest.items) PROVE dest.items[i] \in 1..MaxLearnings
    <3>1. i \in 1..Len(dest.items)
      BY <1>1
    <3>2. QED
      BY <1>1, <3>1, ElementOfSeq
  <2>3. m \in Int /\ m + 1 \in Int /\ 1 \in Int /\ Len(dest.items) \in Int
    BY <1>1
  <2>4. QED
    BY <2>1, <2>2, <2>3, SubSeqProperties
<1>3. SubSeq(items, 1, Len(items)) = items
  BY <1>1, SubSeqFull
<1>4. Database!Put(n) \in Database!Learnings
  BY <1>2, ConcatProperties DEF Database!Put, Database!Learnings
<1>5. Database!Begins(items, Database!Put(Len(items)))
  <2>1. SubSeq(dest.items, Len(items) + 1, Len(dest.items)) \in Seq(1..MaxLearnings)
    BY <1>1, <1>2
  <2>2. QED
    BY <1>1, <1>3, <2>1, BeginsLonger DEF Database!Put
<1>6. QED
  BY <1>4, <1>5

\* The batch is sent, all of it or not.
LEMMA SendStep == DbInv /\ Database!Send => DbInv'
<1> SUFFICES ASSUME DbInv, Database!Send PROVE DbInv'
  OBVIOUS
<1> USE DEF DbInv
<1>1. /\ cmd = "send" /\ cmd' = "idle"
      /\ UNCHANGED <<main, wal, other, snap, bak, items, kept, minted, runs, shared, broken>>
  BY DEF Database!Send, Database!Finish
<1>2. \/ dest' = dest /\ report' = "migrated" /\ dest.kind # "redis"
      \/ dest' = [dest EXCEPT !.items = Database!Put(Len(items))] /\ report' = "migrated"
      \/ \E n \in 0..Len(items) :
           dest' = [dest EXCEPT !.items = Database!Put(n)] /\ report' = "error"
  BY DEF Database!Send, Database!Finish
<1>3. Len(items) \in 0..Len(items)
  BY DbParts DEF Database!Learnings
<1>4. PICK n \in 0..Len(items) :
        \/ dest' = dest /\ report' = "migrated" /\ dest.kind # "redis"
        \/ dest' = [dest EXCEPT !.items = Database!Put(n)]
           /\ (report' = "error" \/ (report' = "migrated" /\ n = Len(items)))
  BY <1>2, <1>3
<1>5. Database!Put(n) \in Database!Learnings /\ Database!Begins(items, Database!Put(Len(items)))
  BY PutBegins
<1>6. /\ dest' \in [kind : {"none", "redis", "http"}, items : Database!Learnings]
      /\ report' \in {"migrated", "error"}
      /\ report' = "migrated" /\ dest'.kind = "redis" => Database!Begins(items, dest'.items)
  <2>1. dest \in [kind : {"none", "redis", "http"}, items : Database!Learnings]
    BY DEF Database!TypeOK
  <2>2. CASE dest' = dest
    BY <1>4, <1>5, <2>1, <2>2
  <2>3. CASE dest' = [dest EXCEPT !.items = Database!Put(n)]
    BY <1>4, <1>5, <2>1, <2>3
  <2>4. QED
    BY <1>4, <2>2, <2>3
<1>7. Database!TypeOK'
  BY <1>1, <1>6 DEF Database!TypeOK
<1>8. Logged' /\ StillThere' /\ BackedUp' /\ Reported' /\ Database!MigrationSound'
  BY <1>1, <1>6 DEF Logged, StillThere, BackedUp, Reported, Database!MigrationSound
<1>9. QED
  BY <1>7, <1>8

\* A revert begins: the snapshot parses, and names a backup that is there.
LEMMA RevertStep == DbInv /\ (Database!Newest \/ Database!OpenMain) => DbInv'
<1>1. ASSUME DbInv, Database!Newest PROVE DbInv'
  <2> USE DEF DbInv
  <2>1. /\ cmd = "newest"
        /\ \/ cmd' = "idle" /\ report' \in {"nothing", "error"}
           \/ cmd' = "restore" /\ bak # None /\ report' = report
        /\ UNCHANGED <<main, wal, other, snap, bak, dest, items, kept, minted, runs, shared,
                       broken>>
    BY <1>1 DEF Database!Newest, Database!Finish
  <2>2. report = "none"
    BY <1>1, <2>1 DEF Reported
  <2>3. Database!TypeOK'
    BY <1>1, <2>1, <2>2 DEF Database!TypeOK
  <2>4. Logged' /\ StillThere' /\ BackedUp' /\ Reported' /\ Database!MigrationSound'
    BY <1>1, <2>1, <2>2 DEF Logged, StillThere, BackedUp, Reported, Database!MigrationSound
  <2>5. QED
    BY <2>3, <2>4
<1>2. ASSUME DbInv, Database!OpenMain PROVE DbInv'
  <2> USE DEF DbInv
  <2>1. /\ cmd = "restore" /\ cmd' = "restoring" /\ main' = Torn
        /\ wal' = (IF other THEN Torn ELSE wal) /\ shared' = (shared \/ other)
        /\ UNCHANGED <<other, snap, bak, dest, items, report, kept, minted, runs, broken>>
    BY <1>2 DEF Database!OpenMain
  <2>2. report = "none"
    BY <1>2, <2>1 DEF Reported
  <2>3. Database!TypeOK'
    <3>1. wal' \in Database!Learnings \cup {Torn} /\ shared' \in BOOLEAN
      BY <1>2, <2>1 DEF Database!TypeOK
    <3>2. QED
      BY <1>2, <2>1, <3>1 DEF Database!TypeOK
  <2>4. Logged'
    BY <1>2, <2>1 DEF Logged
  <2>5. StillThere' /\ BackedUp' /\ Reported' /\ Database!MigrationSound'
    BY <1>2, <2>1, <2>2 DEF StillThere, BackedUp, Reported, Database!MigrationSound
  <2>6. QED
    BY <2>3, <2>4, <2>5
<1>3. QED
  BY <1>1, <1>2

\* The main file is replaced by the backup.
LEMMA RestoreStep == DbInv /\ Database!FillMain => DbInv'
<1> SUFFICES ASSUME DbInv, Database!FillMain PROVE DbInv'
  OBVIOUS
<1> USE DEF DbInv
<1>1. /\ cmd = "restoring" /\ cmd' = "idle" /\ main' = bak /\ report' = "reverted"
      /\ UNCHANGED <<wal, other, snap, bak, dest, items, kept, minted, runs, shared, broken>>
  BY DEF Database!FillMain, Database!Finish
<1>2. main = Torn /\ bak # None
  BY <1>1 DEF Logged, BackedUp
<1>3. Database!TypeOK'
  BY <1>1, <1>2 DEF Database!TypeOK
<1>4. Logged' /\ StillThere' /\ BackedUp' /\ Reported'
  BY <1>1, <1>2 DEF Logged, StillThere, BackedUp, Reported
<1>5. Database!MigrationSound'
  BY <1>1, <1>2 DEF BackedUp, Database!MigrationSound
<1>6. QED
  BY <1>3, <1>4, <1>5

\* A command is killed wherever it is.
LEMMA KillStep == DbInv /\ Database!Kill => DbInv'
<1> SUFFICES ASSUME DbInv, Database!Kill PROVE DbInv'
  OBVIOUS
<1> USE DEF DbInv
<1>1. /\ cmd' = "idle" /\ report' = "error"
      /\ UNCHANGED <<main, wal, other, snap, bak, dest, items, kept, minted, runs, shared,
                     broken>>
  BY DEF Database!Kill, Database!Finish
<1>2. Database!TypeOK'
  BY <1>1 DEF Database!TypeOK
<1>3. Logged' /\ StillThere' /\ BackedUp' /\ Reported' /\ Database!MigrationSound'
  BY <1>1 DEF Logged, StillThere, BackedUp, Reported, Database!MigrationSound
<1>4. QED
  BY <1>2, <1>3

\* Every step of a migration or a revert keeps the invariant.
LEMMA DbInductive == DbInv /\ [Database!Next]_Database!vars => DbInv'
<1> SUFFICES ASSUME DbInv, [Database!Next]_Database!vars PROVE DbInv'
  OBVIOUS
<1>1. CASE UNCHANGED Database!vars
  BY <1>1 DEF Database!vars, DbInv, Database!TypeOK, Logged, StillThere, BackedUp, Reported,
              Database!MigrationSound
<1>2. CASE Database!Next
  BY <1>2, LearnStep, CloseStep, ReadDbStep, SnapshotStep, BackupStep, SendStep, RevertStep,
     RestoreStep, KillStep DEF Database!Next
<1>3. QED
  BY <1>1, <1>2

-----------------------------------------------------------------------------
(* The stores *)

\* All that the four stores keep.
AllInv == CountInv /\ LockInv /\ GradeInv /\ DbInv

\* Each store's initial state is its own.
LEMMA AnyInitial == AnyInit => AllInv
  BY CountInitial, LockInitial, GradeInitial, DbInitial DEF AnyInit, AllInv

\* A step is one store's, and leaves the others.
LEMMA AnyInductive == AllInv /\ [AnyNext]_<<part, vars, leaseVars, gradeVars, dbVars>> => AllInv'
<1> SUFFICES ASSUME AllInv, [AnyNext]_<<part, vars, leaseVars, gradeVars, dbVars>>
             PROVE  AllInv'
  OBVIOUS
<1>1. /\ leaseVars = Lease!vars /\ gradeVars = Ladder!vars /\ dbVars = Database!vars
      /\ leaseVars' = Lease!vars' /\ gradeVars' = Ladder!vars' /\ dbVars' = Database!vars'
  BY DEF leaseVars, gradeVars, dbVars, Lease!vars, Ladder!vars, Database!vars
<1>2. /\ [Next]_vars /\ [Lease!Next]_Lease!vars
      /\ [Ladder!Next]_Ladder!vars /\ [Database!Next]_Database!vars
  BY <1>1 DEF AnyNext
<1>3. QED
  BY <1>2, CountInductive, LockInductive, GradeInductive, DbInductive DEF AllInv

\* All four stores keep their types.
THEOREM StoresTypes == AnySpec => []TypesOK
<1>1. AllInv => TypesOK
  BY DEF AllInv, CountInv, LockInv, GradeInv, DbInv, TypesOK
<1>2. QED
  BY AnyInitial, AnyInductive, <1>1, PTL DEF AnySpec

\* On every backend, whatever crosses and whoever dies: no execution is counted
\* that is not on record; and until two increments of one counter cross, each
\* count and its partner agree but for the processes between the two.
THEOREM CountsAreKept == AnySpec => []CountsKept
<1>1. AllInv => CountsKept
  BY DEF AllInv, CountInv
<1>2. QED
  BY AnyInitial, AnyInductive, <1>1, PTL DEF AnySpec

\* However many processes call, die and release, a lock excludes and its key is
\* its user's own until a key ends under its user or two calls of SQLite's
\* acquire_lock cross.
THEOREM Exclusion == AnySpec => []LocksExclude
<1>1. AllInv => LocksExclude
  BY DEF AllInv, LockInv, Owned, LocksExclude, Lease!LocksExclude
<1>2. QED
  BY AnyInitial, AnyInductive, <1>1, PTL DEF AnySpec

\* The history always explains the grade: its rows go up, are earned by the
\* outcomes they name, lead to the grade, and unless upgrades cross start from
\* where the one before them ended.
THEOREM History == AnySpec => []HistoryExplains
<1>1. AllInv => HistoryExplains
  BY DEF AllInv, GradeInv, HistoryExplains
<1>2. QED
  BY AnyInitial, AnyInductive, <1>1, PTL DEF AnySpec

\* A revert puts back what the last whole migration found, and a migration to
\* Redis that reports its items has put every one there, wherever commands are
\* killed and whoever writes meanwhile.
THEOREM Migrated == AnySpec => []MigrationSound
<1>1. AllInv => MigrationSound
  BY DEF AllInv, DbInv, MigrationSound
<1>2. QED
  BY AnyInitial, AnyInductive, <1>1, PTL DEF AnySpec
=============================================================================
