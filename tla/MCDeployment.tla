----------------------------- MODULE MCDeployment -----------------------------
(* The steps of a Kubespray deployment on OpenStack; preflight, hardening  *)
(* and the steps after the kubeconfig repeat what these do.                *)
EXTENDS Deployment

MCSteps == <<"opentofu-init", "opentofu-apply", "kubespray-prepare",
             "kubespray-deploy", "openstack-normalize-kubeconfig">>

MCNeeds == [s \in StepId |->
  CASE s = "opentofu-init" -> {}
    [] s = "opentofu-apply" -> {"opentofu-init"}
    [] s = "kubespray-prepare" -> {"opentofu-apply"}
    [] s = "kubespray-deploy" -> {"opentofu-apply", "kubespray-prepare"}
    [] OTHER -> {"kubespray-deploy"}]
===============================================================================
