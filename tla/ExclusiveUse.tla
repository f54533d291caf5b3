---------------------------- MODULE ExclusiveUse ----------------------------
(***************************************************************************)
(* What a lock promises: each resource has at most one user, a resource    *)
(* passes from one user to the next only through being free.  GpuLock      *)
(* implements it once per process and lock directory.                       *)
(***************************************************************************)
CONSTANTS Resource, Agent,
          NoAgent   \* no member of Agent

VARIABLE user

Init == user = [r \in Resource |-> NoAgent]

Acquire(r, a) ==
  /\ user[r] = NoAgent
  /\ user' = [user EXCEPT ![r] = a]

Release(r) ==
  /\ user[r] # NoAgent
  /\ user' = [user EXCEPT ![r] = NoAgent]

Next == \E r \in Resource : Release(r) \/ \E a \in Agent : Acquire(r, a)

Spec == Init /\ [][Next]_user
=============================================================================
