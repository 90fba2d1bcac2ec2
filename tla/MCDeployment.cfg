CONSTANTS
  Steps <- MCSteps
  Needs <- MCNeeds
  NeverSkip = {"opentofu-init"}
  Lifecycle = {"kubespray-prepare", "kubespray-deploy"}
  Completion = {"openstack-normalize-kubeconfig"}
  Apply = "opentofu-apply"
  MaxFaults = 2
SPECIFICATION FairSpec
INVARIANTS
  TypeOK
  RecordedIsDone
PROPERTIES
  OrderRespected
  Completes
