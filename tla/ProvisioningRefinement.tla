----------------------- MODULE ProvisioningRefinement -----------------------
(***************************************************************************)
(* Provisioning implements Delivery: documents, payload, images and the    *)
(* guest's scripts together are a run that is made once, boots with what   *)
(* it was made with, and is set up at most once.                           *)
(***************************************************************************)
EXTENDS Provisioning

\* A document that is loaded may still be rejected for the host.
Ordered == IF pc \in {"new", "check"} THEN {} ELSE {config}

Machine == IF pc = "running" THEN {started} ELSE {}

SetupOf(s) ==
    CASE s = "fresh" -> "due"
      [] s \in {"done", "cut"} -> "over"
      [] OTHER -> "going"

Service == INSTANCE Delivery WITH
    Orders  <- {Validated(raw) : raw \in {r \in Raws : Accepted(r)}},
    Reports <- {"none", "failed", "success"},
    order   <- Ordered,
    machine <- Machine,
    setup   <- SetupOf(step),
    report  <- status

\* Every behaviour of create, start and the guest is one of Delivery: reading the
\* document twice, a start from normalized-config.yaml and a first boot that is cut
\* short keep what Delivery promises.
ImplementsDelivery == Service!Spec
=============================================================================
