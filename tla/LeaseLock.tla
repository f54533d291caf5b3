----------------------------- MODULE LeaseLock -----------------------------
(***************************************************************************)
(* Locks that end by themselves: acquire_lock and release_lock of          *)
(* core/state.py (kinds "sqlite" and "redis"; MemoryBackend's, under a     *)
(* mutex, behave as Redis's) and RedisLockBackend of                       *)
(* core/priority_queue.py (kind "gpu").                                    *)
(*                                                                         *)
(* A lock is a key with a time to live and nothing that names its owner.   *)
(* Redis sets it if it is not there, in one command.  SQLite looks, may    *)
(* delete what it saw expired, and sets, in three transactions.  A process *)
(* may die between any two steps.                                          *)
(***************************************************************************)
EXTENDS Naturals, FiniteSets

CONSTANTS Process, None

VARIABLES kind,
          key,      \* who set the key, or None
          stale,    \* SQLite: the key is past its time and still in the table
          urgent,   \* gpu_lock:urgent is set
          rank,     \* the priority class of each process: "high" is <= 2
          at,       \* where each process is in its call
          lapsed,   \* a key has ended under a process that was using the lock
          crossed   \* SQLite: one call to acquire_lock began inside another

vars == <<kind, key, stale, urgent, rank, at, lapsed, crossed>>

Place == {"idle", "try", "purge", "put", "flag", "inside", "clear"}

TypeOK ==
  /\ kind \in {"sqlite", "redis", "gpu"}
  /\ key \in Process \cup {None}
  /\ stale \in BOOLEAN /\ urgent \in BOOLEAN
  /\ rank \in [Process -> {"high", "low"}]
  /\ at \in [Process -> Place]
  /\ lapsed \in BOOLEAN /\ crossed \in BOOLEAN

Init ==
  /\ kind \in {"sqlite", "redis", "gpu"}
  /\ rank \in [Process -> {"high", "low"}]
  /\ kind # "gpu" => rank = [p \in Process |-> "low"]
  /\ key = None
  /\ stale = FALSE /\ urgent = FALSE
  /\ at = [p \in Process |-> "idle"]
  /\ lapsed = FALSE /\ crossed = FALSE

Go(p, place) == at' = [at EXCEPT ![p] = place]

Using(p) == at[p] \in {"flag", "inside"}

\* Inside acquire_lock's three transactions.
Acquiring(p) == at[p] \in {"purge", "put"}

Call(p) ==
  /\ at[p] = "idle"
  /\ Go(p, "try")
  /\ UNCHANGED <<kind, key, stale, urgent, rank, lapsed, crossed>>

-----------------------------------------------------------------------------
(* Redis *)

\* Mutant: without nx=True.
SetNx_Overwrites(p) ==
  /\ kind # "sqlite" /\ at[p] = "try"
  /\ key' = p
  /\ Go(p, IF kind = "gpu" /\ rank[p] = "high" THEN "flag" ELSE "inside")
  /\ UNCHANGED <<kind, stale, urgent, rank, lapsed, crossed>>

SetNx(p) ==
  /\ kind # "sqlite" /\ at[p] = "try"
  /\ key = None
  /\ key' = p
  /\ Go(p, IF kind = "gpu" /\ rank[p] = "high" THEN "flag" ELSE "inside")
  /\ UNCHANGED <<kind, stale, urgent, rank, lapsed, crossed>>

\* acquire_lock answers at once; acquire() goes on until its deadline.
GiveUp(p) ==
  /\ kind # "sqlite" /\ at[p] = "try"
  /\ key # None
  /\ Go(p, "idle")
  /\ UNCHANGED <<kind, key, stale, urgent, rank, lapsed, crossed>>

\* A caller of priority 1 or 2 announces itself.
Flag(p) ==
  /\ at[p] = "flag"
  /\ urgent' = TRUE
  /\ Go(p, "inside")
  /\ UNCHANGED <<kind, key, stale, rank, lapsed, crossed>>

-----------------------------------------------------------------------------
(* SQLite *)

\* get(): the key is there, or it is not, or it is there and past its time.
Look(p) ==
  /\ kind = "sqlite" /\ at[p] = "try"
  /\ Go(p, CASE key = None            -> "put"
             [] key # None /\ stale   -> "purge"
             [] key # None /\ ~stale  -> "idle")
  /\ crossed' = (crossed \/ \E q \in Process \ {p} : Acquiring(q))
  /\ UNCHANGED <<kind, key, stale, urgent, rank, lapsed>>

\* get() deletes what it saw expired, by its key.
Purge(p) ==
  /\ at[p] = "purge"
  /\ key' = None /\ stale' = FALSE
  /\ Go(p, "put")
  /\ UNCHANGED <<kind, urgent, rank, lapsed, crossed>>

Put(p) ==
  /\ at[p] = "put"
  /\ key' = p /\ stale' = FALSE
  /\ Go(p, "inside")
  /\ UNCHANGED <<kind, urgent, rank, lapsed, crossed>>

-----------------------------------------------------------------------------
(* The end of a lock *)

\* release(): deletes the key that is there.
Release(p) ==
  /\ at[p] = "inside"
  /\ key' = None /\ stale' = FALSE
  /\ Go(p, IF kind = "gpu" THEN "clear" ELSE "idle")
  /\ UNCHANGED <<kind, urgent, rank, lapsed, crossed>>

\* release() of RedisLockBackend deletes the urgent flag that is there, too.
Clear(p) ==
  /\ at[p] = "clear"
  /\ urgent' = FALSE
  /\ Go(p, "idle")
  /\ UNCHANGED <<kind, key, stale, rank, lapsed, crossed>>

\* The time to live is over.  Redis removes the key.  (The urgent flag may end
\* before, or never be set again: nothing reads it.)
Lapse ==
  /\ key # None /\ ~stale
  /\ IF kind = "sqlite" THEN stale' = TRUE /\ UNCHANGED key
                        ELSE key' = None /\ UNCHANGED stale
  /\ lapsed' = (lapsed \/ \E p \in Process : Using(p))
  /\ UNCHANGED <<kind, urgent, rank, at, crossed>>

Crash(p) ==
  /\ at[p] # "idle"
  /\ Go(p, "idle")
  /\ UNCHANGED <<kind, key, stale, urgent, rank, lapsed, crossed>>

Step(p) == Call(p) \/ SetNx(p) \/ GiveUp(p) \/ Flag(p) \/ Look(p) \/ Purge(p) \/ Put(p)
           \/ Release(p) \/ Clear(p)

Next == Lapse \/ \E p \in Process : Step(p) \/ Crash(p)

Spec == Init /\ [][Next]_vars

-----------------------------------------------------------------------------
(* Properties *)

\* A lock excludes, whoever dies or releases when, until a key ends under its
\* user or, with SQLite, two calls of acquire_lock cross; and until then the
\* key in the store is its user's own, so that no release is another's.
LocksExclude ==
  ~lapsed /\ ~crossed =>
    \A p, q \in Process : Using(p) => key = p /\ ~stale /\ (Using(q) => p = q)
=============================================================================
