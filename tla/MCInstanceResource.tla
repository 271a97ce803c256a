------------------------- MODULE MCInstanceResource -------------------------
(* One resource, of which any configuration may be wanted. *)
EXTENDS InstanceResource, TLC

CONSTANTS c1, c2

MCConfigs == {c1, c2}
MCUserActs == {"create", "delete", "run", "protect", "edit"}
MCNoFaults == {}
\* Without a size that is none, which Terraform may find before an apply.
MCKnownFlaws == {"none", "blank"}
MCFlaws == {"none", "blank", "unsized"}
=============================================================================
