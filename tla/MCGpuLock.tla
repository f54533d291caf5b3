------------------------------ MODULE MCGpuLock ------------------------------
(* An instance of GpuLock: process p1 has two callers, p2 one, and p3 was
   killed earlier, with or without leaving a lock file. *)
EXTENDS GpuLock, TLC

CONSTANTS p1, p2, p3, a1, a2, b1, c1, g1, g2, g3

MCProc == {p1, p2, p3}
MCThread == {a1, a2, b1, c1}
MCProcOf == a1 :> p1 @@ a2 :> p1 @@ b1 :> p2 @@ c1 :> p3
MCGate == {g1, g2, g3}

\* The callers of a process spell the lock directory alike.
MCGateOf == a1 :> g1 @@ a2 :> g1 @@ b1 :> g2 @@ c1 :> g3

MCEarlier == {p3}
=============================================================================
