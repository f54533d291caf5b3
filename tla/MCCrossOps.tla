----------------------------- MODULE MCCrossOps -----------------------------
(* An instance of CrossOp: three reviewers and two threads, beside another   *)
(* process that writes receipts of the same project.                         *)
EXTENDS CrossOp

CONSTANTS me, other, t1, t2

\* One reviewer of each kind, in any order, or three without an API.
Mixed == {f \in [1..N -> {"cli", "cli+api", "api"}] :
            (\A i, j \in 1..N : f[i] = f[j] => i = j) \/ (\A i \in 1..N : f[i] = "cli")}

\* The reviewers' part of a run and the receipts share nothing.  Of their
\* interleavings it is enough to take those in which the other process waits
\* for the reviewers: what it could do before, it can still do then.
WaitingNext ==
  \/ Run
  \/ /\ main \in {"receipt", "write", "returned"}
     /\ \E v \in Writer \ {Self} : Other(v) /\ UNCHANGED ovars

WaitingSpec == Init /\ [][WaitingNext]_vars /\ WF_vars(Run)
=============================================================================
