----------------------------- MODULE MCDoctorSession -----------------------------
EXTENDS DoctorSession

\* The flags that interact: --json only matters to --quiet, and whether --quiet
\* prints its line does not depend on --continuous.
MCOptions == {o \in Flags : (o.json => o.quiet) /\ (o.quiet => ~o.continuous)}

\* A continuous run without further flags.
MCContinuous == {o \in Flags : o.continuous /\ ~o.exitCode /\ ~o.quiet /\ ~o.onlyCritical /\ ~o.json}

MCMaxEvents == [c \in Collectors |-> IF c = "oom" THEN 3 ELSE 1]
=============================================================================
