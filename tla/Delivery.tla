------------------------------ MODULE Delivery ------------------------------
(***************************************************************************)
(* What kernelvm promises whoever writes a configuration: once a run is    *)
(* made, every machine of the run has the configuration it was made with,  *)
(* whatever is edited later; the guest is set up at most once in the life  *)
(* of the run, by a machine that has that configuration; and the report of *)
(* it is final.  No documents, no payload, no images.                      *)
(***************************************************************************)
CONSTANTS Orders,   \* the configurations that runs are made of
          Reports   \* what a guest may say of its setup, "none" if nothing

VARIABLES order,    \* what the run was made with, if it was made
          machine,  \* what the machine runs with, if it is on
          setup,    \* "due", "going" or "over"
          report

vars == <<order, machine, setup, report>>

Init == order = {} /\ machine = {} /\ setup = "due" /\ report = "none"

Accept ==
    /\ order = {}
    /\ order' \in {{o} : o \in Orders}
    /\ UNCHANGED <<machine, setup, report>>

Boot ==
    /\ machine = {} /\ order # {}
    /\ machine' = order
    /\ UNCHANGED <<order, setup, report>>

\* A setup that is cut short is over without a report.
Off ==
    /\ machine # {}
    /\ machine' = {}
    /\ setup' = IF setup = "going" THEN "over" ELSE setup
    /\ UNCHANGED <<order, report>>

Begin ==
    /\ machine # {} /\ setup = "due"
    /\ setup' = "going"
    /\ UNCHANGED <<order, machine, report>>

End ==
    /\ machine # {} /\ setup = "going"
    /\ setup' = "over"
    /\ report' \in Reports
    /\ UNCHANGED <<order, machine>>

Next == Accept \/ Boot \/ Off \/ Begin \/ End

Spec == Init /\ [][Next]_vars
=============================================================================
