------------------------------ MODULE RunLife ------------------------------
(***************************************************************************)
(* What the history promises of a run, whoever calls it: it is active      *)
(* while its owner works, it ends once, and only a run whose owner is gone *)
(* is ended by somebody else, as interrupted.                              *)
(***************************************************************************)
CONSTANTS Runs, RunStatus

VARIABLE life

Final == RunStatus \ {"running"}

LifeInit == life = [r \in Runs |-> "absent"]

Become(r, was, is) == life[r] = was /\ life' = [life EXCEPT ![r] = is]

Begin(r) == Become(r, "absent", "active")

\* By the owner.
End(r, status) == Become(r, "active", status)

\* The owner died, or could not commit the end.
Abandon(r) == Become(r, "active", "abandoned")

\* By recover().
Interrupt(r) == Become(r, "abandoned", "interrupted")

LifeNext ==
    \E r \in Runs :
        \/ Begin(r) \/ Abandon(r) \/ Interrupt(r)
        \/ \E status \in Final : End(r, status)

LifeSpec == LifeInit /\ [][LifeNext]_life
=============================================================================
