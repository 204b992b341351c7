----------------------------- MODULE RunService -----------------------------
(***************************************************************************)
(* What kernelvm promises a user who issues one command at a time: runs    *)
(* are created once, at most one of them has a virtual machine at any      *)
(* time, a run is removed only while its virtual machine is off, and a     *)
(* removed run is gone for good.  No files, no records, no processes.      *)
(***************************************************************************)
CONSTANT Runs       \* run identifiers

VARIABLE phase      \* what the user knows of each run

Phases == {"none", "defined", "active", "gone"}

Init == phase = [r \in Runs |-> "none"]

Become(r, from, to) ==
    phase[r] = from /\ phase' = [phase EXCEPT ![r] = to]

Create(r) == Become(r, "none", "defined")

Boot(r) ==
    /\ \A q \in Runs : phase[q] # "active"
    /\ Become(r, "defined", "active")

\* By stop, or because the guest shut down.
Halt(r) == Become(r, "active", "defined")

Remove(r) == Become(r, "defined", "gone")

Next == \E r \in Runs : Create(r) \/ Boot(r) \/ Halt(r) \/ Remove(r)

Spec == Init /\ [][Next]_phase
=============================================================================
