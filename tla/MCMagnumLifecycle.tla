--------------------------- MODULE MCMagnumLifecycle ---------------------------
(* The three steps of the Magnum provider.                                 *)
EXTENDS MagnumLifecycle

MCSteps == <<"magnum-create", "magnum-wait-ready", "magnum-export-kubeconfig">>
================================================================================
