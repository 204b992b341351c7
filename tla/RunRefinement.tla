--------------------------- MODULE RunRefinement ---------------------------
(***************************************************************************)
(* RunLifecycle, with one command at a time, implements RunService: the    *)
(* run directories, records and QEMU processes together show the user the  *)
(* four phases of a run and nothing else.                                  *)
(***************************************************************************)
EXTENDS RunLifecycle

\* A process that was sent SIGKILL counts as off (stop has recorded it so),
\* and so does the virtual machine of a run that lost an update to a fault.
HasVm(r) == r \notin cut /\ \E p \in Pids : vm[p] = "live" /\ owner[p] = r

RunPhase(r) ==
    IF HasVm(r) THEN "active"
    ELSE IF disk[r] = "unused" THEN "none"
    ELSE IF r \in destroyed THEN "gone"
    ELSE "defined"

Service == INSTANCE RunService WITH phase <- [r \in Runs |-> RunPhase(r)]

\* Every behaviour of the commands is one of the service: the check of the
\* work root, the stop inside destroy and the order of the removal keep what
\* RunService promises.
ImplementsService == Service!Spec
=============================================================================
